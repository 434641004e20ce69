------------------------------- MODULE Layout -------------------------------
(***************************************************************************)
(* How each board lays its partitions out: the lists of the board files in  *)
(* src/target, the table of src/lib/ptable/ptable.c they are entered into,  *)
(* and the flash driver it is given to.  Blocks are 128 KB.                 *)
(***************************************************************************)
EXTENDS Integers, Sequences

CONSTANTS
    Boards,
    NumBlocks,         \* flash_info->num_blocks, of the chip that is fitted
    MAX_PTABLE_PARTS

VARIABLES
    board,
    flash_ptable,   \* the table as far as it is filled
    i,              \* the next entry of the board's list
    in_use          \* the driver has the table

layvars == <<board, flash_ptable, i, in_use>>

Part(name, start, length) == [name |-> name, start |-> start, length |-> length]
After(p, name, length) == Part(name, p.start + p.length, length)

-----------------------------------------------------------------------------
(* The boards.  Starts are counted from the board's offset; the cache of    *)
(* two of them is laid out from the end of the chip.                        *)

FLASH_SIZE == 4096

Offset(b) == CASE b = "htckovsky" -> 321 + 1
               [] b = "htcphoton" -> 321
               [] b = "htcrhodium" -> 321

\* Fault: the offset is forgotten where the cache is laid out from the end.
CacheStart_Whole(b) == FLASH_SIZE - 128
CacheStart(b) == FLASH_SIZE - (Offset(b) + 128)

htckovsky_part_list ==
    LET recovery == Part("recovery", 0, 80)
        misc == After(recovery, "misc", 5)
        boot == After(misc, "boot", 80)
        system == After(boot, "system", 912)
        userdata == After(system, "userdata", 2560)
    IN <<recovery, misc, boot, system, userdata,
         Part("cache", CacheStart("htckovsky"), 128)>>

htcphoton_part_list ==
    LET lkbootloader == Part("lkbootloader", 0, 1)
        boot == After(lkbootloader, "boot", 80)
        recovery == After(boot, "recovery", 80)
        misc == After(recovery, "misc", 5)
        system == After(misc, "system", 1280)
        userdata == After(system, "userdata", 2192)
    IN <<lkbootloader, boot, recovery, misc, system, userdata,
         Part("cache", CacheStart("htcphoton"), 128)>>

htcrhodium_part_list ==
    <<Part("LK", 0, 8), Part("boot", 8, 72), Part("system", 152, 1200),
      Part("data", 1352, 2407), Part("cache", 3759, 160)>>

part_list == CASE board = "htckovsky" -> htckovsky_part_list
               [] board = "htcphoton" -> htcphoton_part_list
               [] board = "htcrhodium" -> htcrhodium_part_list

-----------------------------------------------------------------------------
(* The table.                                                               *)

ptable_add(p) == /\ Len(flash_ptable) < MAX_PTABLE_PARTS     \* ASSERT
                 /\ flash_ptable' = Append(flash_ptable, p)

\* The first entry of that name, or nothing.
ptable_find(name) ==
    LET at == {k \in DOMAIN flash_ptable : flash_ptable[k].name = name}
    IN IF at = {} THEN <<>> ELSE <<flash_ptable[CHOOSE k \in at : \A l \in at : k <= l]>>

LayoutInit == board \in Boards /\ flash_ptable = <<>> /\ i = 1 /\ in_use = FALSE

\* A last partition without a length takes what is left of the chip.
LengthOf(p) == IF p.length = 0 /\ i = Len(part_list)
               THEN NumBlocks - Offset(board) - p.start ELSE p.length

nand_init ==
    /\ i <= Len(part_list)
    /\ LET p == part_list[i]
       IN ptable_add(Part(p.name, Offset(board) + p.start, LengthOf(p)))
    /\ i' = i + 1
    /\ UNCHANGED <<board, in_use>>

\* ASSERT: the driver is given one table only.
flash_set_ptable == /\ i > Len(part_list) /\ ~in_use
                    /\ in_use' = TRUE
                    /\ UNCHANGED <<board, flash_ptable, i>>

LayoutNext == nand_init \/ flash_set_ptable

LayoutSpec == LayoutInit /\ [][LayoutNext]_layvars

-----------------------------------------------------------------------------
Covered(p) == p.start .. p.start + p.length - 1

\* No two partitions share a block, none reaches into the blocks of the
\* original boot loader, and a name finds the one partition that has it.
PartsApart ==
    \A k, l \in DOMAIN flash_ptable :
        /\ k # l => Covered(flash_ptable[k]) \cap Covered(flash_ptable[l]) = {}
        /\ flash_ptable[k].start >= 321
        /\ ptable_find(flash_ptable[k].name) = <<flash_ptable[k]>>

\* Partitions lie on the chip, as module Flash assumes of its partition - but for
\* rhodium's cache, whose size nothing in board_htcrhodium.c checks.
OnTheChip ==
    \A k \in DOMAIN flash_ptable :
        \/ Covered(flash_ptable[k]) \subseteq 0 .. NumBlocks - 1
        \/ board = "htcrhodium" /\ flash_ptable[k].name = "cache"

\* board_htckovsky.c:569, "don't use anything after 0x1fe00000", the place of the
\* block markers: that address is the start of block 4080.  The partitions keep
\* off it but for the cache, which covers all of it.
MarkersKept ==
    board = "htckovsky" =>
        \A k \in DOMAIN flash_ptable :
            Covered(flash_ptable[k]) \cap (4080 .. NumBlocks - 1) =
                IF flash_ptable[k].name = "cache" THEN 4080 .. NumBlocks - 1 ELSE {}

=============================================================================
