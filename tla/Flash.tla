--------------------------------- MODULE Flash ---------------------------------
(***************************************************************************)
(* The NAND driver the targets are built with,                              *)
(* src/platform/msm_shared/nand_wince.c: reading, writing and erasing one   *)
(* partition of a chip whose blocks are marked bad or wear out, whose       *)
(* commands fail, and whose power is cut.  A step is one command list of    *)
(* the data mover (module NandLists looks inside the lists).                *)
(***************************************************************************)
EXTENDS Integers, Sequences, FiniteSets

CONSTANTS
    First, Length,    \* ptn->start and ptn->length, in blocks
    ChipBlocks,       \* the number of blocks of the chip
    PerBlock,         \* pages per block (64 in the code)
    Versions,         \* the images a caller may write; 0 is there at first
    ImagePages,       \* the number of whole pages of each image
    MaxFaults, MaxCalls   \* bounds: failing commands, calls

ASSUME FlashAssumption ==
    /\ First \in Nat /\ Length \in Nat \ {0} /\ PerBlock \in Nat \ {0}
    /\ ChipBlocks \in Nat /\ First + Length <= ChipBlocks
    /\ 0 \in Versions /\ Versions \subseteq Nat /\ ImagePages \in [Versions -> Nat \ {0}]
    /\ MaxFaults \in Nat /\ MaxCalls \in Nat

VARIABLES
    page,     \* what each page of the chip holds
    bad,      \* the blocks whose marker is not 0xFF
    call,     \* the call in progress, or the last one
    faults, calls,
    silent    \* a failure happened that this call will not report

fvars == <<page, bad, call, faults, calls, silent>>

Blocks == 0 .. ChipBlocks - 1
Pages == 0 .. ChipBlocks * PerBlock - 1
PartBlocks == First .. First + Length - 1
FirstPage == First * PerBlock
lastpage == (First + Length) * PerBlock
Block(p) == p \div PerBlock
InBlock(p) == p % PerBlock
BlockStart(p) == p - InBlock(p)
PagesOf(b) == b * PerBlock .. b * PerBlock + PerBlock - 1

\* What a page holds: page i of version v of the image, or one of these.
Erased == -1
Torn == -2       \* neither erased nor written
Zero == -3       \* the raw zeros that mark a bad block
Foreign == -4    \* of another partition
Data(v, i) == v * (PerBlock * Length) + i
Contents == {Erased, Torn, Zero, Foreign} \cup
            {Data(v, i) : v \in Versions, i \in 0 .. PerBlock * Length}

-----------------------------------------------------------------------------
\* The partition as its readers see it: the pages of the good blocks in order.
Good == PartBlocks \ bad
NthGood(n) == CHOOSE b \in Good : Cardinality({c \in Good : c < b}) = n
Logical(i) == page[(NthGood(i \div PerBlock) * PerBlock) + (i % PerBlock)]
GoodPages == Cardinality(Good) * PerBlock

-----------------------------------------------------------------------------
(* The command lists.  Each operator is the set of outcomes of one.         *)

Fine(res, pg) == [res |-> res, page |-> pg, bad |-> bad, fault |-> 0, silent |-> FALSE]
Fault(res, pg, bd, unseen) ==
    [res |-> res, page |-> pg, bad |-> bd, fault |-> 1, silent |-> unseen]

\* A marker that cannot be read counts as one that is set.
flash_nand_block_isbad(p) ==
    IF Block(p) \in bad THEN {Fine(1, page)}
    ELSE {Fine(0, page), Fault(-1, page, bad, TRUE)}

SetBlock(b, c) == [p \in Pages |-> IF Block(p) = b THEN c ELSE page[p]]

\* The result word is preset to 0xeeeeeeee, which passes the tests for
\* success: a list that the data mover gave up counts as an erased block.
flash_nand_erase_block(p) ==
    IF InBlock(p) # 0 THEN {Fine(-1, page)}
    ELSE UNION {IF isbad.res # 0 THEN {[isbad EXCEPT !.res = -1]}
                ELSE {Fine(0, SetBlock(Block(p), Erased)),
                      Fault(-1, SetBlock(Block(p), Torn), bad, TRUE),
                      Fault(0, page, bad, TRUE)}
                : isbad \in flash_nand_block_isbad(p)}

\* Programming can only clear bits.
Programmed(p, c) == [page EXCEPT ![p] = IF @ = Erased THEN c ELSE Torn]

\* The data mover's result is ignored and the result words are not preset: if
\* the list was given up they still say what the last write or read said.
_flash_nand_write_page(p, c) ==
    {Fine(0, Programmed(p, c)), Fault(-1, [page EXCEPT ![p] = Torn], bad, FALSE),
     Fault(-1, page, bad, FALSE), Fault(0, page, bad, TRUE)}

\* Raw zeros over the first page of the block, its marker included.
flash_nand_mark_badblock(p) ==
    LET q == BlockStart(p) IN
    {[Fine(0, [page EXCEPT ![q] = Zero]) EXCEPT !.bad = @ \cup {Block(q)}],
     Fault(-1, [page EXCEPT ![q] = Torn], bad, TRUE),
     Fault(0, page, bad, TRUE)}

\* A page that was half written, or erased, may be beyond the error correction.
_flash_nand_read_page(p) ==
    UNION {IF isbad.res # 0 THEN {[isbad EXCEPT !.res = -2]}
           ELSE {Fine(0, page), Fault(-1, page, bad, FALSE)} \cup
                (IF page[p] \in {Torn, Erased} THEN {Fine(-1, page)} ELSE {})
           : isbad \in flash_nand_block_isbad(p)}

\* The chip after one of these outcomes, and what it cost.
TookAs(o, unseen) ==
    /\ faults + o.fault <= MaxFaults
    /\ faults' = faults + o.fault
    /\ page' = o.page
    /\ bad' = o.bad
    /\ silent' = (silent \/ unseen)

Took(o) == TookAs(o, o.silent)

-----------------------------------------------------------------------------
(* The calls.                                                               *)

Idle == call.pc = "returned"

Enter(c) ==
    /\ Idle /\ calls < MaxCalls
    /\ calls' = calls + 1
    /\ call' = c
    /\ silent' = FALSE
    /\ UNCHANGED <<page, bad, faults>>

\* bytes is the pages left of the image; tail: part of a page follows them.
Writing(v, t) == [fn |-> "write", pc |-> "top", page |-> FirstPage, image |-> 0,
                  ver |-> v, tail |-> t, ret |-> 0]

CallWrite(v, t) == Enter(Writing(v, t))

\* A partition of the modem is refused.
CallWriteModem == Enter([Writing(0, FALSE) EXCEPT !.pc = "returned", !.ret = -1])

bytes == ImagePages[call.ver] - call.image

At(fn, pc) == call.fn = fn /\ call.pc = pc
Return(r) == call' = [call EXCEPT !.pc = "returned", !.ret = r]

WriteEnds ==
    /\ At("write", "top")
    /\ bytes = 0
    /\ IF call.tail THEN Return(-1)
       ELSE call' = [call EXCEPT !.pc = "rest", !.page = BlockStart(@ + PerBlock - 1)]
    /\ UNCHANGED <<page, bad, faults, calls, silent>>

WriteOutOfSpace ==
    /\ At("write", "top")
    /\ bytes > 0 /\ call.page >= lastpage
    /\ Return(-1)
    /\ UNCHANGED <<page, bad, faults, calls, silent>>

\* Faults: what the erase says is not looked at; a block that cannot be erased is
\* tried again.
WriteErase_Trusting ==
    /\ At("write", "top")
    /\ bytes > 0 /\ call.page < lastpage
    /\ InBlock(call.page) = 0
    /\ \E o \in flash_nand_erase_block(call.page) : Took(o)
    /\ call' = [call EXCEPT !.pc = "write"]
    /\ UNCHANGED calls

WriteErase_Again ==
    /\ At("write", "top")
    /\ bytes > 0 /\ call.page < lastpage
    /\ InBlock(call.page) = 0
    /\ \E o \in flash_nand_erase_block(call.page) :
           /\ Took(o)
           /\ call' = IF o.res # 0 THEN call ELSE [call EXCEPT !.pc = "write"]
    /\ UNCHANGED calls

\* A block that cannot be erased is passed over, and not marked.
WriteErase ==
    /\ At("write", "top")
    /\ bytes > 0 /\ call.page < lastpage
    /\ InBlock(call.page) = 0
    /\ \E o \in flash_nand_erase_block(call.page) :
           /\ Took(o)
           /\ call' = IF o.res # 0 THEN [call EXCEPT !.page = @ + PerBlock]
                      ELSE [call EXCEPT !.pc = "write"]
    /\ UNCHANGED calls

\* Fault: what was written of the block is not counted back.
Rewound_NoRewind(c) == [c EXCEPT !.pc = "redo", !.page = BlockStart(@)]

\* Back to the start of the block, the image and its byte count with it.
Rewound(c) == [c EXCEPT !.pc = "redo", !.page = BlockStart(@),
                        !.image = @ - InBlock(c.page)]

WritePage ==
    /\ \/ At("write", "write")
       \/ /\ At("write", "top") /\ bytes > 0 /\ call.page < lastpage
          /\ InBlock(call.page) # 0
    /\ \E o \in _flash_nand_write_page(call.page, Data(call.ver, call.image)) :
           /\ Took(o)
           /\ call' = IF o.res # 0 THEN Rewound(call)
                      ELSE [call EXCEPT !.pc = "top", !.page = @ + 1, !.image = @ + 1]
    /\ UNCHANGED calls

WriteRedo ==
    /\ At("write", "redo")
    \* whatever comes of it, the block is marked next
    /\ \E o \in flash_nand_erase_block(call.page) : TookAs(o, FALSE)
    /\ call' = [call EXCEPT !.pc = "mark"]
    /\ UNCHANGED calls

WriteMark ==
    /\ At("write", "mark")
    /\ \E o \in flash_nand_mark_badblock(call.page) : Took(o)
    /\ call' = [call EXCEPT !.pc = "top", !.page = @ + PerBlock]
    /\ UNCHANGED calls

WriteRest ==
    /\ At("write", "rest")
    /\ \/ /\ call.page < lastpage
          /\ \E o \in flash_nand_erase_block(call.page) : Took(o)
          /\ call' = [call EXCEPT !.page = @ + PerBlock]
       \/ /\ call.page >= lastpage
          /\ Return(0)
          /\ UNCHANGED <<page, bad, faults, silent>>
    /\ UNCHANGED calls

-----------------------------------------------------------------------------
\* Failures are logged and the result is always 0.
CallErase == Enter([fn |-> "erase", pc |-> "loop", page |-> FirstPage, ret |-> 0])

EraseLoop ==
    /\ At("erase", "loop")
    /\ \/ /\ call.page < lastpage
          /\ \E o \in flash_nand_erase_block(call.page) : Took(o)
          /\ call' = [call EXCEPT !.page = @ + PerBlock]
       \/ /\ call.page >= lastpage
          /\ Return(0)
          /\ UNCHANGED <<page, bad, faults, silent>>
    /\ UNCHANGED calls

-----------------------------------------------------------------------------
\* The blocks before the offset are counted first, to add the bad ones among
\* them to it.
CallRead(offset, n) ==
    Enter([fn |-> "read", pc |-> "adjust", page |-> FirstPage + offset, count |-> n,
           offset |-> offset, want |-> n, start_block |-> First,
           start_block_count |-> Block(FirstPage + offset) - First,
           out |-> <<>>, skipped |-> 0, ret |-> 0])

\* An offset in the middle of a page is refused.
CallReadUnaligned == Enter([fn |-> "read", pc |-> "returned", ret |-> -1])

ReadAdjust ==
    /\ At("read", "adjust")
    /\ \/ /\ call.start_block_count > 0 /\ call.start_block < First + Length
          /\ \E o \in flash_nand_block_isbad(call.start_block * PerBlock) :
                 /\ Took(o)
                 /\ call' = IF o.res # 0
                            THEN [call EXCEPT !.page = @ + PerBlock, !.start_block = @ + 1]
                            ELSE [call EXCEPT !.start_block_count = @ - 1,
                                              !.start_block = @ + 1]
       \/ /\ call.start_block_count = 0 \/ call.start_block = First + Length
          /\ call' = [call EXCEPT !.pc = "loop"]
          /\ UNCHANGED <<page, bad, faults, silent>>
    /\ UNCHANGED calls

MorePages == call.page < lastpage /\ call.start_block_count = 0

\* Fault: the offset is not moved on after a bad block.
ReadPage_SameBlock ==
    /\ At("read", "loop") /\ MorePages /\ call.count > 0
    /\ \E o \in _flash_nand_read_page(call.page) :
           /\ Took(o)
           /\ call' =
              CASE o.res = -1 -> [call EXCEPT !.page = @ + 1, !.skipped = @ + 1]
                [] o.res = -2 -> [call EXCEPT !.page = BlockStart(@) + PerBlock]
                [] OTHER -> [call EXCEPT !.page = @ + 1, !.count = @ - 1,
                                         !.out = Append(@, page[call.page])]
    /\ UNCHANGED calls

\* A page that cannot be read is passed over; a bad block is passed over to
\* the same page of the next one.
ReadPage ==
    /\ At("read", "loop") /\ MorePages /\ call.count > 0
    /\ \E o \in _flash_nand_read_page(call.page) :
           /\ Took(o)
           /\ call' =
              CASE o.res = -1 -> [call EXCEPT !.page = @ + 1, !.skipped = @ + 1]
                [] o.res = -2 -> [call EXCEPT !.page = @ + PerBlock]
                [] OTHER -> [call EXCEPT !.page = @ + 1, !.count = @ - 1,
                                         !.out = Append(@, page[call.page])]
    /\ UNCHANGED calls

\* The end of the partition is looked at before the end of the image.
ReadEnds ==
    /\ At("read", "loop")
    /\ \/ ~MorePages /\ Return(-1)
       \/ MorePages /\ call.count = 0 /\ Return(0)
    /\ UNCHANGED <<page, bad, faults, calls, silent>>

-----------------------------------------------------------------------------
\* The power is cut between two commands or in the middle of one: what was
\* being erased or programmed is left half done.  The chip stays.
Underway ==
    IF call.fn = "write" /\ (call.pc = "write" \/ (call.pc = "top" /\ InBlock(call.page) # 0))
    THEN {call.page}
    ELSE IF call.fn \in {"write", "erase"} THEN PagesOf(Block(call.page)) ELSE {}

Cut ==
    /\ ~Idle /\ calls < MaxCalls
    /\ \E torn \in {{}, {p \in Underway : Block(p) \in PartBlocks \ bad}} :
           page' = [p \in Pages |-> IF p \in torn THEN Torn ELSE page[p]]
    /\ call' = [fn |-> "none", pc |-> "returned", ret |-> 0]
    /\ UNCHANGED <<bad, faults, calls, silent>>

\* Version 0 is in the partition, laid out over the blocks that were good.
FlashInit ==
    /\ bad \in SUBSET PartBlocks
    /\ page = [p \in Pages |->
           IF Block(p) \notin PartBlocks THEN Foreign
           ELSE IF Block(p) \in bad THEN Zero
           ELSE LET i == Cardinality({b \in PartBlocks \ bad : b < Block(p)}) * PerBlock
                         + InBlock(p)
                IN IF i < ImagePages[0] THEN Data(0, i) ELSE Erased]
    /\ call = [fn |-> "none", pc |-> "returned", ret |-> -1]
    /\ faults = 0 /\ calls = 0 /\ silent = FALSE

Driver == \/ WriteEnds \/ WriteOutOfSpace \/ WriteErase \/ WritePage \/ WriteRedo
          \/ WriteMark \/ WriteRest \/ EraseLoop \/ ReadAdjust \/ ReadPage \/ ReadEnds

FlashNext ==
    \/ Driver
    \/ Cut
    \/ \E v \in Versions \ {0}, t \in BOOLEAN : CallWrite(v, t)
    \/ CallWriteModem
    \/ CallErase
    \/ CallReadUnaligned
    \/ \E offset \in 0 .. Length * PerBlock - 1, n \in 1 .. Length * PerBlock :
           CallRead(offset, n)

\* The data mover ends every list.
FlashSpec == FlashInit /\ [][FlashNext]_fvars /\ WF_fvars(Driver)

-----------------------------------------------------------------------------
FlashTypeOK ==
    /\ page \in [Pages -> Contents]
    /\ bad \subseteq Blocks
    /\ call.pc \in {"returned", "top", "write", "redo", "mark", "rest", "loop", "adjust"}
    /\ faults \in 0 .. MaxFaults /\ calls \in 0 .. MaxCalls /\ silent \in BOOLEAN
    /\ ~Idle => call.page \in Nat

\* The partition holds the whole of version v.
Whole(v) == /\ ImagePages[v] <= GoodPages
            /\ \A i \in 0 .. ImagePages[v] - 1 : Logical(i) = Data(v, i)

\* The version the partition holds, or Torn.
Holds == IF \E v \in Versions : Whole(v) THEN CHOOSE v \in Versions : Whole(v) ELSE Torn

Doing == IF Idle \/ call.fn \notin {"write", "erase"} THEN Erased
         ELSE IF call.fn = "write" THEN call.ver ELSE Torn

Told == IF call.fn # "write" \/ ~Idle THEN "nothing"
        ELSE IF call.ret = 0 THEN "done" ELSE "failed"

Promise == INSTANCE StoragePromise WITH
    Nothing <- Erased, holds <- Holds, doing <- Doing, told <- Told

\* And it leaves nothing of an older image in the blocks behind the new one.
RestErased ==
    (Idle /\ call.fn = "write" /\ call.ret = 0 /\ ~silent) =>
        \A b \in Good : ((\E p \in PagesOf(b) : page[p] >= 0) =>
            \E i \in 0 .. ImagePages[call.ver] - 1 : NthGood(i \div PerBlock) = b)

\* A read that returns 0 without having passed over a page hands out the pages
\* of the partition from the offset on: bad blocks, before the offset or after
\* it, make no difference.
ReadsInOrder ==
    (Idle /\ call.fn = "read" /\ call.ret = 0 /\ ~silent /\ call.skipped = 0) =>
        /\ call.offset + call.want <= GoodPages
        /\ call.out = [i \in 1 .. call.want |-> Logical(call.offset + i - 1)]

\* No call changes a page of another partition, nor one of a block that was
\* marked bad; and a marker, once set, stays.
OnlyGoodBlocks ==
    [][/\ bad \subseteq bad'
       /\ \A p \in Pages : page'[p] # page[p] => Block(p) \in PartBlocks \ bad]_fvars

\* A page is programmed only after its block was erased, unless a failed erase
\* went unseen: with programming able only to clear bits, the old and the new
\* contents would mix.
ErasedFirst ==
    [][(page' # page /\ (At("write", "write") \/ (At("write", "top") /\ InBlock(call.page) # 0))
        /\ ~silent)
       => page[call.page] = Erased]_fvars

\* nand_wince.c: pages are changed in good blocks of the partition only, and
\* programmed only when they are erased.
PagesRespected == ErasedFirst /\ OnlyGoodBlocks

\* nand_wince.c: reads hand out the partition in order, and a write that is done
\* leaves nothing of an older image behind its own.
FlashInv == FlashTypeOK /\ ReadsInOrder /\ RestErased

\* nand_wince.c: flash_write keeps the promise of StoragePromise.
WritesPromised == Promise!PromiseInit /\ [][Promise!PromiseNext]_fvars

\* Every call returns, however often it has to start a block again.
CallEnds == ~Idle ~> Idle

=============================================================================
