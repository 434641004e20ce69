------------------------------ MODULE MCStorage ------------------------------
(***************************************************************************)
(* The flash drivers for TLC, in three scenarios: the calls of nand_wince.c *)
(* on a partition whose blocks go bad and whose power is cut; the command   *)
(* lists of nand_wince.c and nand.c, transfer by transfer; and the layout   *)
(* of each board's partitions.                                              *)
(***************************************************************************)
EXTENDS Flash, TLC

VARIABLES
    scenario,
    driver, fitted, chip, interleaved, fn, list, pos, behind, state, ecc, saved, mux,
    cs1, pending, found, broken, result, moved, errors, ret,
    board, flash_ptable, i, in_use

listVars == <<driver, fitted, chip, interleaved, fn, list, pos, behind, state, ecc, saved,
              mux, cs1, pending, found, broken, result, moved, errors, ret>>
layoutVars == <<board, flash_ptable, i, in_use>>
storageVars == <<fvars, listVars, layoutVars, scenario>>

\* A block and a half.
TwoImages == 0 :> 3 @@ 1 :> 3

L == INSTANCE NandLists WITH
    Chips <- {"nand2k", "nand4k", "onenand", "unknown"},
    Functions <- {"isbad", "erase", "read", "write", "mark"},
    ListEntries <- 64, MaxErrors <- 1
P == INSTANCE Layout WITH
    Boards <- {"htckovsky", "htcphoton", "htcrhodium"}, NumBlocks <- 4096,
    MAX_PTABLE_PARTS <- 32

StorageInit ==
    /\ FlashInit /\ L!LInit /\ P!LayoutInit
    /\ scenario \in {"calls", "lists", "layout"}
    /\ scenario # "calls" => bad = {}
    /\ scenario # "lists" => driver = "wince" /\ fitted = "nand2k"
    /\ scenario # "layout" => board = "htckovsky"

Calls(A) == scenario = "calls" /\ A /\ UNCHANGED <<listVars, layoutVars, scenario>>

StorageNext ==
    \/ Calls(FlashNext)
    \/ scenario = "lists" /\ L!LNext /\ UNCHANGED <<fvars, layoutVars, scenario>>
    \/ scenario = "layout" /\ P!LayoutNext /\ UNCHANGED <<fvars, listVars, scenario>>

StorageDriverSpec == StorageInit /\ [][StorageNext]_storageVars /\ WF_storageVars(Calls(Driver))

-----------------------------------------------------------------------------
\* nand_wince.c: reads hand out the partition in order, and a write that is done
\* leaves nothing of an older image behind its own.  The boards' partitions lie
\* apart, on the chip and off the markers' blocks, but for two of them.  nand.c, nand_wince.c: no transfer waits for a request
\* that cannot come, a list leaves the controller as it found it, and fits into
\* the memory it is given.
StorageInv ==
    /\ FlashInv
    /\ P!PartsApart /\ P!OnTheChip /\ P!MarkersKept
    /\ L!LTypeOK /\ L!NeverStuck /\ L!StopsAtItsEnd /\ L!LeftAsFound /\ L!ListFits

\* nand.c, nand_wince.c: a page function that returns 0 did its work.
SuccessMeansDone == L!SuccessMeansDone

=============================================================================
