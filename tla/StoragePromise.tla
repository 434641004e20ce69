---------------------------- MODULE StoragePromise ----------------------------
(***************************************************************************)
(* What flash_write promises to those who store images and messages in a    *)
(* partition: while it runs the partition holds nothing of use, and when it *)
(* says that it is done, the partition holds what was asked - unless the    *)
(* chip failed in a way the driver does not see.                            *)
(***************************************************************************)
CONSTANTS Versions, Torn, Nothing

VARIABLES
    holds,    \* the version the partition holds, or Torn
    doing,    \* the version being written, Torn for an erase, or Nothing
    told,     \* what the last call said
    silent    \* the chip failed unseen since it began

pvars == <<holds, doing, told, silent>>

PromiseInit == holds \in Versions \cup {Torn} /\ doing = Nothing /\ told = "nothing" /\ silent = FALSE

Begin(v) ==
    /\ doing = Nothing
    /\ doing' = v /\ told' = "nothing" /\ silent' = FALSE
    /\ UNCHANGED holds

\* Even an older version may show through, once a block before it is marked bad.
Change == /\ doing # Nothing
          /\ holds' \in Versions \cup {Torn}
          /\ silent' \in {silent, TRUE}
          /\ UNCHANGED <<doing, told>>

Done == /\ doing \in Versions
        /\ holds = doing \/ silent
        /\ doing' = Nothing /\ told' = "done"
        /\ UNCHANGED <<holds, silent>>

\* An erase ends without saying anything, like a write that is refused.
Give == /\ doing # Nothing
        /\ doing' = Nothing /\ told' \in {"failed", "nothing"}
        /\ UNCHANGED <<holds, silent>>

Cut == /\ doing # Nothing
       /\ holds' \in {holds, Torn}
       /\ doing' = Nothing /\ told' = "nothing"
       /\ UNCHANGED silent

\* Somebody reads the partition, or asks for something that is refused.
Look == /\ doing = Nothing
        /\ told' \in {"nothing", "failed"} /\ silent' \in BOOLEAN
        /\ UNCHANGED <<holds, doing>>

PromiseNext == (\E v \in Versions \cup {Torn} : Begin(v)) \/ Change \/ Done \/ Give \/ Cut \/ Look

PromiseSpec == PromiseInit /\ [][PromiseNext]_pvars

=============================================================================
