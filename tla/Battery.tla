------------------------------- MODULE Battery -------------------------------
(***************************************************************************)
(* How the Xperia X1 waits for its battery before it boots: the loop        *)
(* htckovsky_wait_for_charge of board_htckovsky.c, which reads the voltage  *)
(* in two bytes (src/dev/battery/ds2746_battery.c), switches the charger    *)
(* and looks at the cable, while the battery drifts, the cable comes and    *)
(* goes, and reads of the I2C bus fail unnoticed.                           *)
(***************************************************************************)
EXTENDS Integers

CONSTANTS
    MaxLevel,        \* voltages are the levels 0 .. MaxLevel
    Byte,            \* levels to a step of the high byte
    Low, High,       \* the levels of 3600 and of 3700 mV
    Patience         \* looks without a cable that are not enough: 12

VARIABLES
    voltage, cable,         \* of the battery, and whether there is one
    drifted,                \* the voltage has changed in this round
    charger,                \* N_CHG_ENABLE is low
    at,                     \* where the loop is
    s0, s1, failed,         \* the bytes read; a read failed in this round
    power, no_charger_cycles,
    looks                   \* the looks in a row at which there was no cable

batvars == <<voltage, cable, drifted, charger, at, s0, s1, failed, power, no_charger_cycles, looks>>

Levels == 0 .. MaxLevel
HighBytes == 0 .. MaxLevel \div Byte

BatteryInit ==
    /\ voltage \in Levels /\ cable \in BOOLEAN /\ drifted = FALSE
    /\ charger \in BOOLEAN /\ at = "top"
    /\ s0 = 0 /\ s1 = 0 /\ failed = FALSE
    /\ power = FALSE /\ no_charger_cycles = 0 /\ looks = 0

-----------------------------------------------------------------------------
\* The charger is off while the voltage is measured.
top == /\ at = "top" /\ at' = "read MSB"
       /\ charger' = FALSE /\ failed' = FALSE /\ drifted' = FALSE
       /\ UNCHANGED <<voltage, cable, s0, s1, power, no_charger_cycles, looks>>

\* What a read returns is not looked at, and a byte that was not read holds
\* what was on the stack.
read_MSB == /\ at = "read MSB" /\ at' = "read LSB"
            /\ \/ s0' = voltage \div Byte /\ UNCHANGED failed
               \/ s0' \in HighBytes /\ failed' = TRUE
            /\ UNCHANGED <<voltage, cable, drifted, charger, s1, power, no_charger_cycles, looks>>
read_LSB == /\ at = "read LSB" /\ at' = "look"
            /\ \/ s1' = voltage % Byte /\ UNCHANGED failed
               \/ s1' \in 0 .. Byte - 1 /\ failed' = TRUE
            /\ UNCHANGED <<voltage, cable, drifted, charger, s0, power, no_charger_cycles, looks>>

ds2746_read_voltage == s0 * Byte + s1

\* Fault: a cable does not make up for the looks without one.
Counted_Always == no_charger_cycles + 1

\* A cable that is there makes the count start again.
Counted == IF cable THEN 0 ELSE no_charger_cycles + 1

\* htckovsky_set_charger
set_charger(on) == charger' = on

\* target_shutdown does not come back.
look == /\ at = "look"
        /\ power' = cable /\ set_charger(cable)
        /\ no_charger_cycles' = Counted
        /\ looks' = IF cable THEN 0 ELSE looks + 1
        /\ at' = IF ~cable /\ no_charger_cycles' > Patience THEN "shut down" ELSE "enough"
        /\ UNCHANGED <<voltage, cable, drifted, s0, s1, failed>>

Enough == IF power THEN High ELSE Low

\* A device that was started by its charger is started again for good.
enough == /\ at = "enough"
          /\ IF ds2746_read_voltage < Enough THEN at' = "top" ELSE at' \in {"boot", "reboot"}
          /\ UNCHANGED <<voltage, cable, drifted, charger, s0, s1, failed, power,
                         no_charger_cycles, looks>>

\* The battery: up only while it is charged, and not by more than a level in a
\* round of half a second.
Drift == /\ ~drifted /\ drifted' = TRUE
         /\ voltage' \in {voltage - 1} \cup (IF charger /\ cable THEN {voltage + 1} ELSE {})
         /\ voltage' \in Levels
         /\ UNCHANGED <<cable, charger, at, s0, s1, failed, power, no_charger_cycles, looks>>
Plug == /\ cable' = ~cable
        /\ UNCHANGED <<voltage, drifted, charger, at, s0, s1, failed, power,
                       no_charger_cycles, looks>>

Waits == at \notin {"boot", "reboot", "shut down"}
BatteryNext == Waits /\ (top \/ read_MSB \/ read_LSB \/ look \/ enough \/ Drift \/ Plug)

BatterySpec == BatteryInit /\ [][BatteryNext]_batvars

-----------------------------------------------------------------------------
\* The device boots only with a battery that has enough, or had within the one
\* step of the high byte by which its two bytes, read one after the other, may
\* be wrong together - unless a read failed.
BootsCharged == (at \in {"boot", "reboot"} /\ ~failed) => voltage + Byte >= Enough

\* It is shut down only if no look of the last Patience + 1 found a cable.
ShutDownIsAlone == at = "shut down" => looks > Patience

=============================================================================
