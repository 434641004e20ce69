------------------------------ MODULE NandLists ------------------------------
(***************************************************************************)
(* The command lists that the two NAND drivers, nand_wince.c and nand.c in  *)
(* src/platform/msm_shared, hand to the data mover, and what they make of   *)
(* the status words it leaves behind.  A list is a sequence of transfers    *)
(* between memory and the registers of one or two NAND controllers; the     *)
(* data mover takes them in order, waits where a transfer is paced by a     *)
(* controller's request line, gives the list up at an error, and stops      *)
(* behind the transfer that carries the flag CMD_LC.                        *)
(***************************************************************************)
EXTENDS Integers, Sequences, FiniteSets, SequencesExt

CONSTANTS
    Chips,        \* what may be soldered to the board
    Functions,    \* the functions whose lists are examined
    ListEntries,  \* the entries flash_cmdlist has room for: 1024 bytes of 16
    MaxErrors     \* bound: status words of a list that report an error

VARIABLES
    driver,       \* "wince" or "nand": which of the two files is built
    fitted,       \* what is soldered to the board
    chip,         \* the chip found at start, None before
    interleaved,  \* interleaved_mode
    fn, list, pos,\* the list being worked through and the next transfer
    behind,       \* what longer lists before it left behind it in flash_cmdlist
    state,        \* of the data mover
    ecc, saved,   \* the ECC configuration and the copy that lists save
    mux, cs1, pending,   \* registers; operations started in each controller
    found,        \* what of this the list found
    broken,       \* a list for two controllers was given up, or not ended
    result,       \* the status words
    moved,        \* the codewords transferred
    errors, ret

lvars == <<driver, fitted, chip, interleaved, fn, list, pos, behind, state, ecc, saved, mux,
           cs1, pending, found, broken, result, moved, errors, ret>>

None == "none"
controller == <<ecc, saved, mux, cs1, pending>>

Onenand == chip = "onenand"

\* A chip that is in no table leaves the page size 0.
flash_pagesize ==
    CASE chip \in {None, "unknown"} -> 0
      [] chip = "nand4k" -> IF interleaved THEN 8192 ELSE 4096
      [] OTHER -> IF interleaved THEN 4096 ELSE 2048

cwperpage == flash_pagesize \div 512

-----------------------------------------------------------------------------
(* Transfers: what is moved, the controller, and the codeword or word.      *)

T(do, c, n) == [do |-> do, c |-> c, n |-> n, lc |-> FALSE]
Do(do) == T(do, 1, 0)
Cmd(c) == T("cmd", c, 0)            \* paced by the controller's command request
Exec(c) == T("exec", c, 0)
Status(c, n) == T("status", c, n)   \* paced by its data request
Buffer(c, n) == T("buffer", c, n)
Mux(m) == [Do("mux") EXCEPT !.n = m]

\* The settings of the multiplexer of request lines, and what each masks.
DefaultMux == 0
MaskCmd(c) == c
MaskData(c) == c + 2

Flagged(l) == [l EXCEPT ![Len(l)].lc = TRUE]
ForCodewords(cw, L(_)) == FlattenSeq([k \in 1 .. cw |-> L(k - 1)])
OwnConfig(n) == IF n = 0 THEN <<Do("cfg"), Do("own")>> ELSE <<>>

-----------------------------------------------------------------------------
(* One controller.                                                          *)

ReadId == Flagged(<<Do("cfg"), Do("cfg"), Do("cfg"), Do("cfg"), Cmd(1), Exec(1), Status(1, 0),
                    Buffer(1, 0), Do("cfg")>>)

\* nand_wince.c moves the spare bytes of every codeword, nand.c those of the page.
ReadPageWince == LET codeword(n) ==
        <<Cmd(1)>> \o OwnConfig(n) \o <<Exec(1), Status(1, n), Buffer(1, n), Do("spare")>>
    IN Flagged(<<Do("save")>> \o ForCodewords(cwperpage, codeword) \o <<Do("restore")>>)

ReadPageNand == LET codeword(n) ==
        <<Cmd(1)>> \o OwnConfig(n) \o <<Exec(1), Status(1, n), Buffer(1, n)>>
    IN Flagged(<<Do("save")>> \o ForCodewords(cwperpage, codeword)
               \o <<Do("spare"), Do("restore")>>)

\* The operation is started behind the codeword's data; its status words are
\* written back to clear them.
Programmed(n) == <<Exec(1), Status(1, n), Do("clear"), Do("clear")>>

WritePageWince == LET codeword(n) ==
        <<Cmd(1)>> \o OwnConfig(n) \o <<Buffer(1, n), Do("spare")>> \o Programmed(n)
    IN Flagged(<<Do("save")>> \o ForCodewords(cwperpage, codeword) \o <<Do("restore")>>)

\* Fault: the ECC configuration is saved after it was changed.
WritePageNand_SavedLate == LET codeword(n) ==
        <<Cmd(1)>> \o OwnConfig(n) \o (IF n = 0 THEN <<Do("save")>> ELSE <<>>)
        \o <<Buffer(1, n)>> \o Programmed(n)
    IN Flagged(ForCodewords(cwperpage, codeword) \o <<Do("restore")>>)

WritePageNand == LET codeword(n) ==
        <<Cmd(1)>> \o OwnConfig(n) \o <<Buffer(1, n)>>
        \o (IF n = cwperpage - 1 THEN <<Do("spare")>> ELSE <<>>) \o Programmed(n)
    IN Flagged(<<Do("save")>> \o ForCodewords(cwperpage, codeword) \o <<Do("restore")>>)

BlockIsBad == Flagged(<<Cmd(1), Do("cfg"), Exec(1), Status(1, 0), Buffer(1, 0)>>)
EraseBlock == Flagged(<<Cmd(1), Do("cfg"), Exec(1), Status(1, 0), Do("clear"), Do("clear")>>)

\* The configuration read at start is only taken over when it is not zero.
ReadConfig == Flagged(<<Buffer(1, 0), Buffer(1, 1)>>)

-----------------------------------------------------------------------------
(* Two controllers with every other codeword each (nand.c).                 *)

FiveTimes(do) == [k \in 1 .. 5 |-> Do(do)]

ReadSetup == <<Do("cs1on"), Do("save")>> \o FiveTimes("cfg") \o <<Do("own")>>
WriteSetup == <<Do("cs1on"), Do("save"), Do("own")>> \o FiveTimes("cfg")

\* The command is given to controller c, and its status awaited, with the
\* other one's request masked.
Give(c) == <<Mux(MaskCmd(3 - c)), Cmd(c)>>
Await(c, n) == <<Mux(MaskData(3 - c)), Status(c, n)>>

ReadStart == Give(1) \o <<Exec(1)>>

\* Each codeword is started in one controller before the one before it is
\* fetched from the other.
ReadCodewordInterleave(n) ==
    IF n % 2 = 0 THEN Give(2) \o <<Exec(2)>> \o Await(1, n) \o <<Buffer(1, n)>>
    ELSE IF n = cwperpage - 1 THEN Await(2, n) \o <<Buffer(2, n), Do("spare")>>
    ELSE Give(1) \o <<Exec(1)>> \o Await(2, n) \o <<Buffer(2, n)>>

\* The transfer that should restore the ECC configuration is overwritten by
\* the one that resets the multiplexer, and its flag CMD_LC with it.
ReadPageInterleave == ReadSetup \o ReadStart \o ForCodewords(cwperpage, ReadCodewordInterleave)
                      \o <<Mux(DefaultMux), Do("cs1off")>>

\* The page size is doubled when interleaving is switched on, and once more here.
WriteCodewords == 2 * cwperpage

\* Fault: the mask for the other controller's status is taken to serve for the
\* command as well.
WriteCodewordInterleave_NoMask(n) == LET c == 1 + (n % 2) IN
    (IF n = 0 THEN Give(c) ELSE <<Cmd(c)>>) \o <<Buffer(c, n)>>
    \o (IF n = WriteCodewords - 1 THEN <<Do("spare")>> ELSE <<>>)
    \o <<Exec(c)>> \o (IF n = 0 THEN <<>> ELSE Await(3 - c, n - 1))

\* Behind the start of a codeword comes the status of the one before it.
WriteCodewordInterleave(n) == LET c == 1 + (n % 2) IN
    Give(c) \o <<Buffer(c, n)>> \o (IF n = WriteCodewords - 1 THEN <<Do("spare")>> ELSE <<>>)
    \o <<Exec(c)>> \o (IF n = 0 THEN <<>> ELSE Await(3 - c, n - 1))

WriteEnd == LET last == WriteCodewords - 1 IN
    (IF last < 0 THEN <<>> ELSE Await(2, last)) \o <<Mux(DefaultMux), Do("cs1off")>>

WritePageInterleave ==
    Flagged(WriteSetup \o ForCodewords(WriteCodewords, WriteCodewordInterleave) \o WriteEnd)

-----------------------------------------------------------------------------
(* OneNAND (nand.c): macro commands to the serial flash controller.  The    *)
(* page functions look for the mark of a bad block first; that is a list of *)
(* its own.                                                                 *)

OnenandReadId == Flagged(<<Do("cfg"), Do("cfg"), Cmd(1), Do("cfg"), Do("cfg"), Exec(1),
                           Status(1, 6), Buffer(1, 0)>>)

Macro(n) == <<Cmd(1), Exec(1), Status(1, n)>>
Address(n, own) == <<Cmd(1)>> \o FiveTimes("cfg")
                   \o <<IF own THEN Do("own") ELSE Do("cfg"), Exec(1), Status(1, n)>>
GetRegisters(n) == Macro(n) \o <<T("regs", 1, 0), T("regs", 1, 1)>>
Restore(n) == Flagged(<<Cmd(1), Do("restore"), Exec(1), Status(1, n)>>)

OnenandErase == <<Do("cfg")>> \o Address(0, FALSE) \o Macro(1) \o GetRegisters(2) \o Restore(3)

\* raw: the spare area follows, without error correction.
OnenandReadAddress(raw) == <<Do("cfg")>> \o Address(0, raw) \o Macro(1) \o GetRegisters(2)
OnenandReadData(i) == <<Cmd(1), Do("cfg"), Exec(1), Status(1, 3 + i), Buffer(1, i)>>
OnenandReadSpare(raw) == IF raw THEN <<Cmd(1), Do("cfg"), Exec(1), Status(1, 7), Buffer(1, 4)>>
                         ELSE <<>>
OnenandReadEnd == Restore(8)
OnenandRead(raw) == OnenandReadAddress(raw) \o ForCodewords(4, OnenandReadData)
                    \o OnenandReadSpare(raw) \o OnenandReadEnd

OnenandWriteData(i) == <<Cmd(1), Buffer(1, i), Do("cfg"), Exec(1), Status(1, i)>>
OnenandWriteSpare == <<Cmd(1), Do("spare"), Do("cfg"), Exec(1), Status(1, 4)>>
OnenandWriteAddress(raw) == Address(5, raw)
OnenandProgram == Macro(6) \o GetRegisters(7)
OnenandWriteEnd == Restore(8)
OnenandWrite(raw) == <<Do("cfg")>> \o ForCodewords(4, OnenandWriteData) \o OnenandWriteSpare
                     \o OnenandWriteAddress(raw) \o OnenandProgram
                     \o OnenandWriteEnd

\* The mark of a bad block is in the spare areas of its first page.
flash_onenand_block_isbad == OnenandRead(TRUE)

-----------------------------------------------------------------------------
(* Which list a function builds, the words it presets, and its verdict.     *)

Interleaved == interleaved /\ ~Onenand

\* The dispatchers: only whole pages are read and written in both chips.
flash_erase_block == IF Onenand THEN OnenandErase ELSE EraseBlock
_flash_block_isbad == IF Onenand THEN flash_onenand_block_isbad ELSE BlockIsBad
_flash_read_page == IF Onenand THEN OnenandRead(FALSE)
                    ELSE IF Interleaved THEN ReadPageInterleave
                    ELSE IF driver = "wince" THEN ReadPageWince ELSE ReadPageNand
_flash_write_page == IF Onenand THEN OnenandWrite(FALSE)
                     ELSE IF Interleaved THEN WritePageInterleave
                     ELSE IF driver = "wince" THEN WritePageWince ELSE WritePageNand
flash_mark_badblock == IF Onenand THEN OnenandWrite(TRUE)
                       ELSE IF driver = "wince" THEN WritePageWince ELSE WritePageNand

ListOf(f) == CASE f = "id" -> ReadId
               [] f = "onenand id" -> OnenandReadId
               [] f = "config" -> ReadConfig
               [] f = "isbad" -> _flash_block_isbad
               [] f = "erase" -> flash_erase_block
               [] f = "read" -> _flash_read_page
               [] f = "write" -> _flash_write_page
               [] f = "mark" -> flash_mark_badblock

Slots == 0 .. 32
StatusSlots(l) == {l[k].n : k \in {i \in DOMAIN l : l[i].do = "status"}}

\* 0xffffffff fails every test of a status word and 0xeeeeeeee passes them all;
\* words that are not preset hold what an earlier list left there.
Presets(f) ==
    IF Onenand \/ f \in {"isbad", "onenand id"} THEN {"error"}
    ELSE IF f \in {"id", "config", "erase"} \/ (Interleaved /\ f \in {"read", "write"}) THEN {"ok"}
    ELSE {"ok", "error"}

\* The status words a function looks at when the list is done: not those of
\* the spare area, nor that of a read's last step.
OnenandReadVerdict == 0 .. 6
OnenandEraseVerdict == 0 .. 3
OnenandWriteVerdict == (0 .. 8) \ {4}

onenand_verdict(f) == CASE f \in {"read", "isbad"} -> OnenandReadVerdict
                        [] f = "erase" -> OnenandEraseVerdict
                        [] OTHER -> OnenandWriteVerdict

\* Fault: the last codeword's status word is not looked at.
Looked_NotLast(f) == IF Onenand THEN onenand_verdict(f)
                     ELSE StatusSlots(list) \ {Cardinality(StatusSlots(list)) - 1}

Looked(f) == IF Onenand THEN onenand_verdict(f) ELSE StatusSlots(list)

\* Only the page read of nand_wince.c asks whether the data mover was content.
dmov_exec_cmdptr(f) == IF driver = "wince" /\ f = "read" /\ state = "aborted" THEN -1 ELSE 0

\* Both words of the configuration, or nothing of it.
flash_nand_read_config == {0, 1} \subseteq moved

Verdict(f) ==
    IF f = "config" THEN (IF flash_nand_read_config THEN 0 ELSE -1)
    ELSE IF \/ dmov_exec_cmdptr(f) # 0
            \/ \E n \in Looked(f) : result[n] = "error"
            \/ Onenand /\ result[9] = "error"     \* the chip's own status register
         THEN -1 ELSE 0

-----------------------------------------------------------------------------
(* Start-up: the chip is asked for its id, the NAND way and, by nand.c, the *)
(* OneNAND way; a chip that is in no table passes for a NAND chip.          *)

LInit ==
    /\ driver \in {"wince", "nand"} /\ fitted \in Chips
    /\ chip = None /\ interleaved = FALSE
    /\ fn = None /\ list = <<>> /\ pos = 0 /\ behind = <<>> /\ state = "idle"
    /\ ecc = "board" /\ saved = "none" /\ found = [ecc |-> "board", pending |-> {}] /\ broken = FALSE
    /\ mux = DefaultMux /\ cs1 = FALSE /\ pending = {}
    /\ result = [n \in Slots |-> "ok"]
    /\ moved = {} /\ errors = 0 /\ ret = 0

\* The memory of all the lists.
flash_cmdlist == list \o behind

Begin(f) ==
    /\ fn' = f /\ list' = ListOf(f) /\ pos' = 1 /\ state' = "running"
    /\ behind' = SubSeq(flash_cmdlist, Len(ListOf(f)) + 1, Len(flash_cmdlist))
    /\ \E preset \in Presets(f) : result' = [n \in Slots |-> preset]
    /\ moved' = {} /\ errors' = 0 /\ ret' = 0
    /\ found' = [ecc |-> ecc, pending |-> pending]
    /\ UNCHANGED <<driver, fitted, interleaved, controller, broken>>

flash_init == /\ fn = None /\ Begin("id") /\ UNCHANGED chip

\* What the board answers to either question.
Answered == 0 \in moved
IsNand == fitted \in {"nand2k", "nand4k"}

\* The NAND question is answered: the second one follows, or the configuration.
flash_read_id ==
    /\ fn \in {"id", "onenand id"} /\ state \in {"done", "aborted"}
    /\ IF fn = "id" /\ ~(Answered /\ IsNand) /\ driver = "nand"
       THEN Begin("onenand id") /\ UNCHANGED chip
       ELSE LET c == IF Answered /\ (IF fn = "id" THEN IsNand ELSE fitted = "onenand")
                     THEN fitted ELSE "unknown" IN
            /\ chip' = c
            /\ IF c = "onenand"
               THEN /\ state' = "idle"
                    /\ UNCHANGED <<driver, fitted, interleaved, fn, list, pos, behind, controller,
                                   found, broken, result, moved, errors, ret>>
               ELSE Begin("config")

\* For the start-up of a target, before its first page operation; none calls it.
enable_interleave_mode ==
    /\ driver = "nand" /\ chip \notin {None, "unknown"} /\ state = "idle" /\ ~interleaved
    /\ fn \in {"config", "onenand id"}
    /\ interleaved' = TRUE
    /\ UNCHANGED <<driver, fitted, chip, fn, list, pos, behind, state, controller, found, broken,
                   result, moved, errors, ret>>

\* A caller's operation on a page or block.
Operation(f) == chip # None /\ state = "idle" /\ Begin(f) /\ UNCHANGED chip

Next1 == flash_cmdlist[pos]

\* Whether the transfer's request line lets it through.
Ready == CASE Next1.do = "cmd" -> mux # MaskCmd(Next1.c)
           [] Next1.do = "status" -> Next1.c \in pending /\ mux # MaskData(Next1.c)
           [] OTHER -> TRUE

\* A list without an end: the data mover goes on into what longer ones left there,
\* and then into memory that nobody wrote.
AfterIt == /\ IF Next1.lc THEN state' = "done" /\ UNCHANGED pos
              ELSE IF pos = Len(flash_cmdlist) THEN state' = "ran on" /\ UNCHANGED pos
              ELSE pos' = pos + 1 /\ UNCHANGED state
           /\ broken' = (broken \/ pos' > Len(list))

\* Bound: an error may be reported as long as no list was broken.
MayFail == errors < MaxErrors /\ ~broken

Transfer ==
    /\ state = "running" /\ Ready
    /\ AfterIt
    /\ ecc' = CASE Next1.do = "own" -> "own"
                [] Next1.do = "restore" -> IF Onenand THEN "board" ELSE saved
                [] OTHER -> ecc
    /\ saved' = IF Next1.do = "save" THEN ecc ELSE saved
    /\ mux' = IF Next1.do = "mux" THEN Next1.n ELSE mux
    /\ cs1' = CASE Next1.do = "cs1on" -> TRUE [] Next1.do = "cs1off" -> FALSE [] OTHER -> cs1
    /\ pending' = CASE Next1.do = "exec" -> pending \cup {Next1.c}
                    [] Next1.do = "status" -> pending \ {Next1.c}
                    [] OTHER -> pending
    /\ moved' = IF Next1.do = "buffer" THEN moved \cup {Next1.n} ELSE moved
    /\ CASE Next1.do = "status" ->
              \/ result' = [result EXCEPT ![Next1.n] = "ok"] /\ UNCHANGED errors
              \/ /\ MayFail /\ errors' = errors + 1
                 /\ result' = [result EXCEPT ![Next1.n] = "error"]
         [] Next1.do = "regs" /\ Next1.n = 1 ->
              \/ result' = [result EXCEPT ![9] = "ok"] /\ UNCHANGED errors
              \/ /\ MayFail /\ errors' = errors + 1
                 /\ result' = [result EXCEPT ![9] = "error"]
         [] OTHER -> UNCHANGED <<result, errors>>
    /\ UNCHANGED <<driver, fitted, chip, interleaved, fn, list, behind, found, ret>>

\* The data mover meets an error and gives the list up.
Abort ==
    /\ state = "running"
    /\ state' = "aborted"
    /\ broken' = (broken \/ Interleaved)
    /\ UNCHANGED <<driver, fitted, chip, interleaved, fn, list, pos, behind, controller, found,
                   result, moved, errors, ret>>

\* Memory that nobody wrote is taken to end the list, as nothing is known of it.
\* Without the configuration the assertion in flash_init stops the machine.
Finish ==
    /\ state \in {"done", "aborted", "ran on"} /\ fn \notin {"id", "onenand id"}
    /\ ret' = Verdict(fn)
    /\ state' = IF fn = "config" /\ ret' # 0 THEN "stopped" ELSE "idle"
    /\ UNCHANGED <<driver, fitted, chip, interleaved, fn, list, pos, behind, controller, found,
                   broken, result, moved, errors>>

LNext == \/ flash_init \/ flash_read_id \/ enable_interleave_mode
         \/ \E f \in Functions : Operation(f)
         \/ Transfer \/ Abort \/ Finish

ListSpec == LInit /\ [][LNext]_lvars

-----------------------------------------------------------------------------
LTypeOK == /\ pos \in 0 .. Len(flash_cmdlist) /\ errors \in 0 .. MaxErrors
           /\ result \in [Slots -> {"ok", "error"}]
           /\ state \in {"idle", "running", "done", "aborted", "ran on", "stopped"}

\* No transfer waits for a request that cannot come: the operation was started
\* and the multiplexer lets the controller's line through; dmov_exec_cmdptr
\* would spin for ever.  After a list for two controllers was given up, nothing
\* resets the multiplexer, and the next one may; and so may the rest of another
\* list, behind one that has no end.
NeverStuck == (state = "running" /\ ~broken) => Ready

\* The data mover stops at the end of the list it is given, which no longer list
\* before it can prolong - but for the interleaved read, whose flag CMD_LC is
\* overwritten with the transfer that carries it.
StopsAtItsEnd == pos > Len(list) => Interleaved /\ fn = "read"

\* A list that was worked through leaves the ECC configuration, the multiplexer
\* and the second chip select as it found them, and no operation behind - but
\* for the ECC configuration of the interleaved read and write, whose transfer
\* that "restores saved ecc config" is overwritten by the next one (nand.c:1207,
\* 1656).
LeftAsFound ==
    (~broken /\ state \in {"done", "ran on"}) =>
        /\ mux = DefaultMux /\ ~cs1 /\ pending \subseteq found.pending
        /\ ecc \in {found.ecc, "board"} \/ (Interleaved /\ fn \in {"read", "write"})

\* Whether a list that was given up cannot pass for one that was worked
\* through: nand_wince.c's read asks the data mover, and the erase and the write
\* of OneNAND preset their last status word to fail.
Noticed == \/ driver = "wince" /\ fn = "read"
           \/ Onenand /\ fn \in {"erase", "write"}

\* A page function that returns 0 has moved every codeword of the page, and no
\* status word reported an error but those of OneNAND's spare area - if the
\* list was worked through, or would be noticed not to have been.
SuccessMeansDone ==
    [][(Finish /\ ret' = 0 /\ fn \in {"read", "write", "erase"} /\ flash_pagesize > 0
        /\ (state # "aborted" \/ Noticed))
       => /\ fn # "erase" => 0 .. (IF Onenand THEN 3 ELSE cwperpage - 1) \subseteq moved
          /\ \A n \in StatusSlots(list) : result[n] = "error" =>
                 Onenand /\ ((fn = "write" /\ n = 4) \/ (fn = "read" /\ n \in {7, 8}))]_lvars

\* A list fits into the 64 entries that are allocated for it: with one
\* controller for pages up to 4 KB, with two for the reads of 2 KB pages.
ListFits == ~(Interleaved /\ (fn = "write" \/ chip = "nand4k")) => Len(list) <= ListEntries

=============================================================================
