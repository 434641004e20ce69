------------------------------- MODULE MCAboot -------------------------------
(***************************************************************************)
(* The boot loader application for TLC, in three scenarios: the fastboot    *)
(* thread with a host that resets and configures the device at any moment,  *)
(* and transfers that fail; the same with a patient host, where everything  *)
(* that was asked for is answered; and what is decided and done from        *)
(* power-on to the start of something, with power cuts.                     *)
(***************************************************************************)
EXTENDS Fastboot, Boot

VARIABLE scenario

abootVars == <<allVars, bvars, scenario>>

\* To this host flash is continue or unknown: it is answered as one of them.
Hasty == INSTANCE Fastboot WITH Commands <- Commands \ {"flash"}

Patient == INSTANCE Fastboot WITH
    Controls <- {"read", "clear_in", "config", "stall"},
    Commands <- {"download", "flash", "unknown"},
    MaxResets <- 2, Lengths <- {0, 3, 4}, PatientHost <- TRUE

AbootInit ==
    /\ Init /\ BInit
    /\ scenario \in {"hasty", "patient", "boot"}
    /\ scenario # "boot" => misc = Torn /\ image["boot"] = "good" /\ image["recovery"] = "good"

WithPatient(A) == scenario = "patient" /\ A /\ UNCHANGED <<bvars, scenario>>
Booting(A) == scenario = "boot" /\ A /\ UNCHANGED <<allVars, scenario>>

AbootNext ==
    \/ scenario = "hasty" /\ Hasty!Next /\ UNCHANGED <<bvars, scenario>>
    \/ WithPatient(Patient!Next)
    \/ Booting(BNext)

\* What Fastboot and Boot assume, where they run.  A behaviour stays in its
\* scenario, so each conjunct is the fairness of that scenario's disjunct.  (The
\* loader and the reset share one: BootSpec assumes more.)
AbootFairness ==
    /\ WF_abootVars(WithPatient(Patient!ThreadStep) \/ Booting(Loader \/ machine_reset))
    /\ WF_abootVars(WithPatient(Patient!FastbootIsr))
    /\ WF_abootVars(WithPatient(Patient!send_image \/ Patient!read_answer))
    /\ WF_abootVars(WithPatient(Patient!control_goes_on))

AbootSpec == AbootInit /\ [][AbootNext]_abootVars /\ AbootFairness

-----------------------------------------------------------------------------
\* hsusb.c, fastboot.c: with a patient host control transfers end, the interrupt
\* handler returns, the device listens whenever it was configured, every command
\* is answered, and what is taken for a download is all of it.
PatientHostServed ==
    /\ scenario = "patient" => ControlEnds /\ InterruptReturns
                               /\ OnlineListens /\ CommandAnswered
    /\ [](scenario = "patient" /\ download_size # 0 => memory = download_size)

\* aboot.c, recovery.c: every boot ends with something running.
EveryBootEnds == scenario = "boot" => BootEnds

=============================================================================
