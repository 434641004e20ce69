----------------------------- MODULE DriverProofs -----------------------------
(***************************************************************************)
(* Theorems about the drivers of module Platform, for any numbers of        *)
(* callers, commands, delays and levels: a caller goes on only when what it *)
(* waited for has come, a USB host is served by a device that is whole, and *)
(* no key is taken for one that it is not.                                  *)
(***************************************************************************)
EXTENDS Platform, FiniteSetTheorems, WellFoundedInduction, TLAPS

-----------------------------------------------------------------------------
(* The composition: a step of the platform is one of each machine, or       *)
(* leaves it alone.                                                        *)

LEMMA EachMachineMoves ==
    [PlatformNext]_allvars =>
        /\ [D!DexNext]_dex /\ [P!PcomNext]_modems /\ [T!DelayNext]_delay
        /\ [B!BatteryNext]_battery /\ [U!UdcStartNext]_usb
        /\ [K!KeyNext]_keys /\ [M!KeypadNext]_keypad
<1> SUFFICES ASSUME [PlatformNext]_allvars
             PROVE  /\ [D!DexNext]_dex /\ [P!PcomNext]_modems /\ [T!DelayNext]_delay
                    /\ [B!BatteryNext]_battery /\ [U!UdcStartNext]_usb
                    /\ [K!KeyNext]_keys /\ [M!KeypadNext]_keypad
  OBVIOUS
<1>1. CASE UNCHANGED allvars
  BY <1>1 DEF allvars, dex, modems, delay, battery, usb, keys, keypad
<1>2. CASE PlatformNext
  <2> USE DEF Only, Still
  <2>1. CASE Only("dex") /\ D!DexNext
    BY <2>1
  <2>2. CASE Only("modem") /\ P!PcomNext
    BY <2>2
  <2>3. CASE Only("delay") /\ T!DelayNext
    BY <2>3
  <2>4. CASE Only("battery") /\ B!BatteryNext
    BY <2>4
  <2>5. CASE Only("usb") /\ U!UdcStartNext
    BY <2>5
  <2>6. CASE Only("keys") /\ K!KeyNext
    BY <2>6
  <2>7. CASE Only("keypad") /\ M!KeypadNext
    BY <2>7
  <2>8. CASE \E m \in Machines \ {"dex", "modem", "delay", "battery", "usb", "keys", "keypad"} :
                Only(m)
    BY <2>8
  <2> QED BY <1>2, <2>1, <2>2, <2>3, <2>4, <2>5, <2>6, <2>7, <2>8 DEF PlatformNext, Machines
<1> QED BY <1>1, <1>2

-----------------------------------------------------------------------------
(* The battery                                                             *)

\* What the bytes read so far say, against the battery as it is: they are not
\* more than a step of the high byte ahead of it, less the level that it can
\* still lose in this round.
BatteryTypes ==
    /\ voltage \in Nat /\ s0 \in Nat /\ s1 \in 0 .. LowBytes - 1
    /\ cycles \in Nat /\ looks = cycles
    /\ looping \in {"top", "read MSB", "read LSB", "look", "enough", "boot", "reboot", "shut down"}

Lost == IF drifted THEN 1 ELSE 0

BytesRead ==
    ~failed =>
        /\ looping = "read LSB" => s0 * LowBytes <= voltage + Lost
        /\ looping \in {"look", "enough", "boot", "reboot"} =>
               B!ds2746_read_voltage <= voltage + LowBytes - 1 + Lost

Decided ==
    /\ looping \in {"boot", "reboot"} => B!ds2746_read_voltage >= B!Enough
    /\ looping = "shut down" => looks > Patience

BatteryInv == BatteryTypes /\ BytesRead /\ Decided

LEMMA HighByte ==
    ASSUME NEW n \in Nat
    PROVE  n \div LowBytes \in Nat /\ (n \div LowBytes) * LowBytes <= n /\ n % LowBytes \in 0 .. LowBytes - 1
BY BatteryAssumption DEF BatteryAssumption

LEMMA Multiples ==
    ASSUME NEW n \in Nat, NEW k \in Nat
    PROVE  n * k \in Nat
OBVIOUS

LEMMA InitBattery == B!BatteryInit => BatteryInv
BY BatteryAssumption
   DEF BatteryAssumption, B!BatteryInit, B!Levels, BatteryInv, BatteryTypes, BytesRead, Decided

LEMMA NextBattery == BatteryInv /\ [B!BatteryNext]_battery => BatteryInv'
<1> SUFFICES ASSUME BatteryInv, [B!BatteryNext]_battery PROVE BatteryInv'
  OBVIOUS
<1>1. LowBytes \in Nat \ {0} /\ High \in Nat /\ Low \in Nat /\ Patience \in Nat
  BY BatteryAssumption DEF BatteryAssumption
<1>2. BatteryTypes /\ BytesRead /\ Decided
  BY DEF BatteryInv
<1>3. voltage \in Nat /\ s0 \in Nat /\ s1 \in 0 .. LowBytes - 1 /\ cycles \in Nat /\ looks = cycles
  BY <1>2 DEF BatteryTypes
<1>4. s0 * LowBytes \in Nat
  BY <1>1, <1>3, Multiples
<1>5. Lost \in 0 .. 1
  BY DEF Lost
<1>6. CASE B!top
  BY <1>2, <1>6 DEF B!top, BatteryInv, BatteryTypes, BytesRead, Decided
<1>7. CASE B!read_MSB
  <2>1. /\ UNCHANGED <<voltage, drifted, s1, cycles, looks>>
        /\ looping' = "read LSB"
    BY <1>7 DEF B!read_MSB
  <2>2. s0' = voltage \div LowBytes \/ (s0' \in B!HighBytes /\ failed' = TRUE)
    BY <1>7, Zenon DEF B!read_MSB
  <2>3. B!HighBytes \subseteq Nat /\ voltage \div LowBytes \in Nat
    BY <1>3, HighByte DEF B!HighBytes
  <2>4. s0' \in Nat
    BY <2>2, <2>3, Zenon
  <2>5. ASSUME ~failed' PROVE s0' * LowBytes <= voltage'
    <3>1. s0' = voltage \div LowBytes
      BY <2>2, <2>5, Zenon
    <3>2. (voltage \div LowBytes) * LowBytes <= voltage
      BY <1>3, HighByte
    <3> QED BY <2>1, <3>1, <3>2
  <2>6. BytesRead'
    <3> SUFFICES ASSUME ~failed' PROVE s0' * LowBytes <= voltage' + Lost'
      BY <2>1 DEF BytesRead
    <3>1. Lost' \in 0 .. 1 /\ s0' * LowBytes' \in Nat /\ voltage' \in Nat
      BY <1>1, <1>3, <1>5, <2>1, <2>4, Multiples DEF Lost
    <3> QED BY <2>5, <3>1
  <2> QED BY <1>2, <2>1, <2>4, <2>6 DEF BatteryInv, BatteryTypes, Decided
<1>8. CASE B!read_LSB
  <2>1. /\ UNCHANGED <<voltage, drifted, s0, cycles, looks>>
        /\ looping = "read LSB" /\ looping' = "look"
        /\ \/ s1' = voltage % LowBytes /\ UNCHANGED failed
           \/ s1' \in 0 .. LowBytes - 1 /\ failed' = TRUE
    BY <1>8 DEF B!read_LSB
  <2>2. s1' \in 0 .. LowBytes - 1
    BY <1>3, <2>1, HighByte
  <2>3. BytesRead'
    <3> SUFFICES ASSUME ~failed' PROVE s0 * LowBytes + s1' <= voltage + LowBytes - 1 + Lost
      BY <2>1 DEF BytesRead, Lost, B!ds2746_read_voltage
    <3>1. s0 * LowBytes <= voltage + Lost
      BY <1>2, <2>1 DEF BytesRead
    <3>2. \A high, low, lost, all \in Int :
             high <= all + lost /\ low <= LowBytes - 1 => high + low <= all + LowBytes - 1 + lost
      BY <1>1
    <3>3. s0 * LowBytes \in Int /\ s1' \in Int /\ Lost \in Int /\ voltage \in Int /\ s1' <= LowBytes - 1
      BY <1>1, <1>3, <1>4, <1>5, <2>2
    <3> QED BY <3>1, <3>2, <3>3
  <2> QED BY <1>2, <2>1, <2>2, <2>3 DEF BatteryInv, BatteryTypes, Decided
<1>9. CASE B!look
  <2>1. /\ UNCHANGED <<voltage, drifted, s0, s1, failed>>
        /\ looping = "look"
    BY <1>9 DEF B!look
  <2>2. cycles' \in Nat /\ looks' = cycles'
    <3>1. \/ cycles' = 0 /\ looks' = 0
          \/ cycles' = cycles + 1 /\ looks' = looks + 1
      BY <1>9, Zenon DEF B!look, B!Counted
    <3> QED BY <1>3, <3>1
  <2>3. looping' = IF ~cable /\ cycles' > Patience THEN "shut down" ELSE "enough"
    BY <1>9, Zenon DEF B!look
  <2>4. looping' = "enough" \/ (looping' = "shut down" /\ cycles' > Patience)
    BY <2>3, Zenon
  <2>5. BytesRead'
    BY <1>2, <2>1, <2>4 DEF BytesRead, Lost, B!ds2746_read_voltage
  <2> QED BY <1>2, <2>1, <2>2, <2>4, <2>5 DEF BatteryInv, BatteryTypes, Decided
<1>10. CASE B!enough
  <2>1. /\ UNCHANGED <<voltage, drifted, s0, s1, failed, cycles, looks, power>>
        /\ looping = "enough"
        /\ IF B!ds2746_read_voltage < B!Enough THEN looping' = "top" ELSE looping' \in {"boot", "reboot"}
    BY <1>10 DEF B!enough
  <2>2. B!ds2746_read_voltage \in Int /\ B!Enough \in Int
    BY <1>1, <1>3, <1>4 DEF B!ds2746_read_voltage, B!Enough
  <2>3. BytesRead'
    BY <1>2, <2>1 DEF BytesRead, Lost, B!ds2746_read_voltage
  <2>4. Decided'
    <3>1. B!ds2746_read_voltage' = B!ds2746_read_voltage /\ B!Enough' = B!Enough
      BY <2>1 DEF B!ds2746_read_voltage, B!Enough
    <3>2. B!ds2746_read_voltage >= B!Enough \/ B!ds2746_read_voltage < B!Enough
      BY <2>2
    <3> QED BY <2>1, <3>1, <3>2 DEF Decided
  <2> QED BY <1>2, <2>1, <2>3, <2>4 DEF BatteryInv, BatteryTypes
<1>11. CASE B!Drift /\ B!Waits
  <2>1. /\ UNCHANGED <<s0, s1, failed, cycles, looks, looping>>
        /\ looping \notin {"boot", "reboot", "shut down"}
    BY <1>11 DEF B!Drift, B!Waits
  <2>2. voltage' \in {voltage - 1, voltage + 1} /\ voltage' \in Nat
    <3>1. voltage' \in 0 .. MaxLevel /\ MaxLevel \in Nat
      BY <1>11, BatteryAssumption DEF BatteryAssumption, B!Drift, B!Levels
    <3>2. voltage' \in {voltage - 1} \cup (IF charger /\ cable THEN {voltage + 1} ELSE {})
      BY <1>11, Zenon DEF B!Drift
    <3>3. CASE charger /\ cable
      BY <3>1, <3>2, <3>3
    <3>4. CASE ~(charger /\ cable)
      BY <3>1, <3>2, <3>4
    <3> QED BY <3>3, <3>4
  <2>3. ~drifted /\ drifted'
    BY <1>11 DEF B!Drift
  <2>4. Lost = 0 /\ Lost' = 1
    BY <2>3 DEF Lost
  <2>5. voltage + Lost <= voltage' + Lost'
    <3>1. voltage \in Int
      BY <1>3
    <3>2. voltage' = voltage - 1 \/ voltage' = voltage + 1
      BY <2>2
    <3> QED BY <2>4, <3>1, <3>2
  <2>6. BytesRead'
    <3> SUFFICES ASSUME ~failed
                 PROVE  /\ looping = "read LSB" => s0 * LowBytes <= voltage' + Lost'
                        /\ looping \in {"look", "enough"} =>
                               s0 * LowBytes + s1 <= voltage' + LowBytes - 1 + Lost'
      BY <2>1 DEF BytesRead, B!ds2746_read_voltage
    <3>1. /\ looping = "read LSB" => s0 * LowBytes <= voltage + Lost
          /\ looping \in {"look", "enough"} => s0 * LowBytes + s1 <= voltage + LowBytes - 1 + Lost
      BY <1>2 DEF BytesRead, B!ds2746_read_voltage
    <3>2. \A high, low, a, b \in Int :
             /\ high <= a + 0 /\ a + 0 <= b + 1 => high <= b + 1
             /\ high + low <= a + LowBytes - 1 + 0 /\ a + 0 <= b + 1 => high + low <= b + LowBytes - 1 + 1
      BY <1>1
    <3>3. s0 * LowBytes \in Int /\ s1 \in Int /\ voltage \in Int /\ voltage' \in Int
      BY <1>1, <1>3, <1>4, <2>2
    <3> QED BY <2>4, <2>5, <3>1, <3>2, <3>3
  <2> QED BY <1>2, <2>1, <2>2, <2>6 DEF BatteryInv, BatteryTypes, Decided
<1>12. CASE B!Plug
  BY <1>2, <1>12 DEF B!Plug, BatteryInv, BatteryTypes, BytesRead, Decided, Lost,
                     B!ds2746_read_voltage, B!Enough
<1>13. CASE UNCHANGED battery
  BY <1>2, <1>13 DEF battery, BatteryInv, BatteryTypes, BytesRead, Decided, Lost,
                     B!ds2746_read_voltage, B!Enough
<1> QED BY <1>6, <1>7, <1>8, <1>9, <1>10, <1>11, <1>12, <1>13 DEF B!BatteryNext

LEMMA BatteryWaits == BatteryInv => B!BootsCharged /\ B!ShutDownIsAlone
<1> SUFFICES ASSUME BatteryInv PROVE B!BootsCharged /\ B!ShutDownIsAlone
  OBVIOUS
<1>1. LowBytes \in Nat /\ High \in Nat /\ Low \in Nat
  BY BatteryAssumption DEF BatteryAssumption
<1>2. voltage \in Nat /\ s0 \in Nat /\ s1 \in 0 .. LowBytes - 1
  BY DEF BatteryInv, BatteryTypes
<1>3. B!ds2746_read_voltage \in Int
  BY <1>1, <1>2, Multiples DEF B!ds2746_read_voltage
<1>4. B!Enough \in Int /\ Lost \in 0 .. 1
  BY <1>1 DEF B!Enough, Lost
<1>5. ASSUME looping \in {"boot", "reboot"}, ~failed PROVE voltage + LowBytes >= B!Enough
  <2>1. B!ds2746_read_voltage <= voltage + LowBytes - 1 + Lost
    BY <1>5 DEF BatteryInv, BytesRead
  <2>2. B!ds2746_read_voltage >= B!Enough
    BY <1>5 DEF BatteryInv, Decided
  <2> QED BY <1>1, <1>2, <1>3, <1>4, <2>1, <2>2
<1>6. B!ShutDownIsAlone
  BY DEF BatteryInv, Decided, B!ShutDownIsAlone
<1> QED BY <1>5, <1>6 DEF B!BootsCharged

-----------------------------------------------------------------------------
(* Delays                                                                  *)

Places == {"out", "clear", "disable", "zero", "enable", "count", "stop", "reset"}

DelayTypes ==
    /\ gpt \in Int /\ ticking \in BOOLEAN
    /\ until \in [T!Callers -> Int] /\ passed \in [T!Callers -> Nat]
    /\ within \in [T!Callers -> Places]

\* A handler leaves before another starts.
OneHandler == \A g, h \in DelayHandlers : within[g] # "out" /\ within[h] # "out" => g = h

\* Where no handler is inside, the counter is as its caller left it: a handler
\* leaves it stopped and at zero, as it was where it came in.
CounterLeft ==
    \A c \in T!Callers : (\A h \in DelayHandlers \ {c} : within[h] = "out") =>
        /\ within[c] \in {"zero", "enable", "reset"} => ~ticking
        /\ within[c] = "enable" => gpt = 0

\* The counter is never ahead of the clock.
CountedPeriods ==
    \A c \in T!Callers : within[c] = "count" => gpt <= passed[c] \/ passed[c] >= until[c]

DelayInv == DelayTypes /\ OneHandler /\ CounterLeft /\ CountedPeriods /\ T!DelayLongEnough

LEMMA InitDelay == T!DelayInit => DelayInv
<1> SUFFICES ASSUME T!DelayInit PROVE DelayInv
  OBVIOUS
<1>1. \A c \in T!Callers : within[c] = "out"
  BY DEF T!DelayInit
<1>2. DelayTypes
  <2>1. gpt \in Int
    BY DEF T!DelayInit
  <2>2. ticking \in BOOLEAN
    BY Zenon DEF T!DelayInit
  <2>3. until \in [T!Callers -> Int] /\ passed \in [T!Callers -> Nat]
    BY DEF T!DelayInit
  <2>4. within \in [T!Callers -> Places]
    BY DEF T!DelayInit, Places
  <2> QED BY <2>1, <2>2, <2>3, <2>4 DEF DelayTypes
<1>3. OneHandler
  BY <1>1 DEF OneHandler, T!Callers
<1>4. CounterLeft /\ CountedPeriods /\ T!DelayLongEnough
  BY <1>1 DEF CounterLeft, CountedPeriods, T!DelayLongEnough
<1> QED BY <1>2, <1>3, <1>4 DEF DelayInv

LEMMA CountsAreNumbers == T!Counts \subseteq Int
<1>1. \A m \in Msecs : T!mdelay(m) \in Int
  <2>1. ASSUME NEW m \in Msecs PROVE m * PerMsec \in Int
    <3>1. m \in Int /\ PerMsec \in Int
      BY DriversAssumption DEF DriversAssumption
    <3> QED BY <3>1
  <2> QED BY <2>1 DEF T!mdelay
<1>2. \A u \in Usecs : T!udelay(u) \in Int
  <2>1. ASSUME NEW u \in Usecs PROVE (u * PerMsec + 1000 - PerMsec) \div 1000 \in Int
    <3>1. u \in Int /\ PerMsec \in Int
      BY DriversAssumption DEF DriversAssumption
    <3>2. u * PerMsec \in Int
      BY <3>1
    <3> QED BY <3>1, <3>2
  <2> QED BY <2>1 DEF T!udelay
<1> QED BY <1>1, <1>2 DEF T!Counts

LEMMA StepsDelay ==
    ASSUME DelayInv, NEW c \in T!Callers, NEW from \in Places, NEW to \in Places, T!Steps(c, from, to)
    PROVE  /\ within' \in [T!Callers -> Places]
           /\ within[c] = from /\ within'[c] = to
           /\ \A o \in T!Callers \ {c} : within'[o] = within[o]
           /\ \A h \in DelayHandlers \ {c} : within[h] = "out"
           /\ OneHandler'
BY DEF DelayInv, DelayTypes, T!Steps, OneHandler, T!Callers

LEMMA NextDelay == DelayInv /\ [T!DelayNext]_delay => DelayInv'
<1> SUFFICES ASSUME DelayInv, [T!DelayNext]_delay PROVE DelayInv'
  OBVIOUS
<1>1. ASSUME NEW c \in T!Callers, NEW n \in T!Counts, T!Starts(c, n) PROVE DelayInv'
  <2>1. T!Steps(c, "out", "clear")
    BY <1>1 DEF T!Starts
  <2>2. /\ within' \in [T!Callers -> Places] /\ within'[c] = "clear"
        /\ \A o \in T!Callers \ {c} : within'[o] = within[o]
        /\ OneHandler'
    BY <2>1, StepsDelay DEF Places
  <2>3. n \in Int
    BY CountsAreNumbers
  <2>4. /\ until' \in [T!Callers -> Int] /\ passed' \in [T!Callers -> Nat]
        /\ \A o \in T!Callers \ {c} : until'[o] = until[o] /\ passed'[o] = passed[o]
        /\ UNCHANGED <<gpt, ticking>>
    BY <1>1, <2>3 DEF T!Starts, DelayInv, DelayTypes
  <2>5. CounterLeft'
    <3> SUFFICES ASSUME NEW o \in T!Callers, \A h \in DelayHandlers \ {o} : within'[h] = "out"
                 PROVE  /\ within'[o] \in {"zero", "enable", "reset"} => ~ticking'
                        /\ within'[o] = "enable" => gpt' = 0
      BY DEF CounterLeft
    <3>1. CASE o = c
      BY <2>2, <3>1
    <3>2. CASE o # c
      <4>1. \A h \in DelayHandlers \ {o} : within[h] = "out"
        BY <2>1, <2>2 DEF T!Steps, T!Callers
      <4> QED BY <2>2, <2>4, <3>2, <4>1 DEF DelayInv, CounterLeft
    <3> QED BY <3>1, <3>2
  <2> QED BY <2>2, <2>4, <2>5 DEF DelayInv, DelayTypes, CountedPeriods, T!DelayLongEnough
<1>2. ASSUME NEW c \in T!Callers, T!Delaying(c) PROVE DelayInv'
  <2>1. PICK from \in Places, to \in Places : T!Steps(c, from, to)
    BY <1>2 DEF T!Delaying, T!clear, T!disable, T!zero, T!enable, T!enough, T!stop, T!reset, Places
  <2>2. /\ within' \in [T!Callers -> Places]
        /\ within[c] = from /\ within'[c] = to
        /\ \A o \in T!Callers \ {c} : within'[o] = within[o]
        /\ \A h \in DelayHandlers \ {c} : within[h] = "out"
        /\ OneHandler'
    BY <2>1, StepsDelay
  <2>3. UNCHANGED <<until, passed>>
    BY <1>2 DEF T!Delaying, T!clear, T!disable, T!zero, T!enable, T!enough, T!stop, T!reset
  <2>4. /\ from \in {"zero", "enable", "reset"} => ~ticking
        /\ from = "enable" => gpt = 0
    BY <2>2 DEF DelayInv, CounterLeft
  <2>5. /\ gpt' \in {0, gpt} /\ ticking' \in {TRUE, FALSE, ticking}
        /\ to \in {"zero", "enable", "reset", "out"} => ~ticking'
        /\ to \in {"enable", "out"} => gpt' = 0
        /\ from # "out"
    <3> USE DEF T!Steps
    <3>1. CASE T!clear(c)
      BY <2>2, <3>1 DEF T!clear
    <3>2. CASE T!disable(c)
      BY <2>2, <3>2 DEF T!disable
    <3>3. CASE T!zero(c)
      BY <2>2, <2>4, <3>3 DEF T!zero
    <3>4. CASE T!enable(c)
      BY <2>2, <3>4 DEF T!enable
    <3>5. CASE T!enough(c)
      BY <2>2, <3>5 DEF T!enough
    <3>6. CASE T!stop(c)
      BY <2>2, <3>6 DEF T!stop
    <3>7. CASE T!reset(c)
      BY <2>2, <2>4, <3>7 DEF T!reset
    <3> QED BY <1>2, <3>1, <3>2, <3>3, <3>4, <3>5, <3>6, <3>7 DEF T!Delaying
  <2>6. CounterLeft'
    <3> SUFFICES ASSUME NEW o \in T!Callers, \A h \in DelayHandlers \ {o} : within'[h] = "out"
                 PROVE  /\ within'[o] \in {"zero", "enable", "reset"} => ~ticking'
                        /\ within'[o] = "enable" => gpt' = 0
      BY DEF CounterLeft
    <3>1. CASE o = c
      BY <2>2, <2>5, <3>1
    <3>2. CASE o # c /\ c \in DelayHandlers
      BY <2>2, <2>5, <3>2
    <3>3. CASE o # c /\ c \notin DelayHandlers
      BY <2>2, <3>3 DEF T!Callers
    <3> QED BY <3>1, <3>2, <3>3
  <2>7. CountedPeriods'
    <3> SUFFICES ASSUME NEW o \in T!Callers, within'[o] = "count"
                 PROVE  gpt' <= passed'[o] \/ passed'[o] >= until'[o]
      BY DEF CountedPeriods
    <3>1. passed[o] \in Nat
      BY DEF DelayInv, DelayTypes
    <3>2. CASE o # c
      BY <2>2, <2>3, <2>5, <3>1, <3>2 DEF DelayInv, CountedPeriods
    <3>3. CASE o = c
      <4>1. from = "enable" /\ gpt' = gpt
        BY <1>2, <2>2, <3>3 DEF T!Delaying, T!clear, T!disable, T!zero, T!enable, T!enough, T!stop,
           T!reset, T!Steps
      <4> QED BY <2>3, <2>4, <3>1, <4>1
    <3> QED BY <3>2, <3>3
  <2>8. T!DelayLongEnough'
    <3> SUFFICES ASSUME NEW o \in T!Callers, within'[o] \in {"stop", "reset"}
                 PROVE  passed'[o] >= until'[o]
      BY DEF T!DelayLongEnough
    <3>1. CASE o # c
      BY <2>2, <2>3, <3>1 DEF DelayInv, T!DelayLongEnough
    <3>2. CASE o = c /\ from = "stop"
      BY <2>2, <2>3, <3>2 DEF DelayInv, T!DelayLongEnough
    <3>3. CASE o = c /\ from # "stop"
      <4>1. T!enough(c)
        BY <1>2, <2>2, <3>3 DEF T!Delaying, T!clear, T!disable, T!zero, T!enable, T!enough, T!stop,
           T!reset, T!Steps
      <4>2. from = "count" /\ gpt >= until[c]
        BY <2>2, <4>1 DEF T!enough, T!Steps
      <4>3. gpt <= passed[c] \/ passed[c] >= until[c]
        BY <2>2, <4>2 DEF DelayInv, CountedPeriods
      <4>4. gpt \in Int /\ passed[c] \in Int /\ until[c] \in Int
        BY DEF DelayInv, DelayTypes
      <4> QED BY <2>3, <3>3, <4>2, <4>3, <4>4
    <3> QED BY <3>1, <3>2, <3>3
  <2>9. DelayTypes'
    <3>1. gpt' \in Int
      BY <2>5 DEF DelayInv, DelayTypes
    <3>2. ticking' \in BOOLEAN
      BY <2>5, Zenon DEF DelayInv, DelayTypes
    <3> QED BY <2>2, <2>3, <3>1, <3>2, Zenon DEF DelayInv, DelayTypes
  <2> QED BY <2>2, <2>6, <2>7, <2>8, <2>9 DEF DelayInv
<1>3. CASE T!period
  <2>1. /\ UNCHANGED <<ticking, until, within>>
        /\ gpt' = (IF ticking /\ \E n \in T!Counts : gpt < n THEN gpt + 1 ELSE gpt)
        /\ passed' = [c \in T!Callers |-> IF within[c] = "count" /\ passed[c] < until[c]
                                          THEN passed[c] + 1 ELSE passed[c]]
    BY <1>3 DEF T!period
  <2>2. /\ gpt' \in Int /\ gpt' <= gpt + 1 /\ ~ticking => gpt' = gpt
        /\ passed' \in [T!Callers -> Nat]
    BY <2>1 DEF DelayInv, DelayTypes
  <2>3. CountedPeriods' /\ T!DelayLongEnough'
    BY <2>1, <2>2 DEF DelayInv, DelayTypes, CountedPeriods, T!DelayLongEnough
  <2>4. CounterLeft' /\ OneHandler'
    BY <2>1, <2>2 DEF DelayInv, CounterLeft, OneHandler
  <2> QED BY <2>1, <2>2, <2>3, <2>4 DEF DelayInv, DelayTypes
<1>4. CASE UNCHANGED delay
  BY <1>4 DEF delay, DelayInv, DelayTypes, OneHandler, CounterLeft, CountedPeriods, T!DelayLongEnough
<1> QED BY <1>1, <1>2, <1>3, <1>4 DEF T!DelayNext

-----------------------------------------------------------------------------
(* The modem's clocks                                                      *)

PcomPlaces == {"rest", "ready", "command", "data1", "data2", "notify", "done", "end"}
PcomCommands == {"ENABLE", "DISABLE", "SET_RATE"}

PcomTypes ==
    /\ words \in [cmd : PcomCommands \cup {P!CMD_DONE}, data1 : ClockIds \cup {0}, data2 : 0 .. 2,
                  status : {"success", "fail"}]
    /\ modem \in [ready : BOOLEAN, notified : BOOLEAN]
    /\ asks \in [Drivers -> [at : PcomPlaces, cmd : PcomCommands \cup {P!CMD_DONE},
                             data1 : ClockIds \cup {0}, data2 : 0 .. 2, ret : {-1, 0}]]

\* The thread that asks has the mutex, and asks for something.
Asking ==
    \A t \in Drivers : asks[t].at # "rest" => holder = t /\ asks[t].cmd # P!CMD_DONE

\* The modem is notified only of a command that is written whole and waited for.
Notified == modem.notified => \E t \in Drivers : asks[t].at = "done"

\* What the words hold, from the first that is written to the answer.
WordsWritten ==
    \A t \in Drivers :
        /\ asks[t].at \in {"data1", "data2", "notify"} => words.cmd = asks[t].cmd
        /\ asks[t].at \in {"data2", "notify", "done"} => words.data1 = asks[t].data1
        /\ asks[t].at \in {"notify", "done"} => words.data2 = asks[t].data2
        /\ asks[t].at = "done" =>
               \/ modem.notified /\ words.cmd = asks[t].cmd
               \/ /\ ~modem.notified /\ words.cmd = P!CMD_DONE
                  /\ words.status = "fail" \/ t \in served

PcomInv == PcomTypes /\ Asking /\ Notified /\ WordsWritten /\ P!ClockCallDone

LEMMA InitPcom == P!PcomInit => PcomInv
<1> SUFFICES ASSUME P!PcomInit PROVE PcomInv
  OBVIOUS
<1>1. PcomTypes
  BY DEF P!PcomInit, P!Resting, P!CMD_DONE, PcomTypes, PcomPlaces, PcomCommands
<1>2. Asking /\ Notified /\ WordsWritten /\ P!ClockCallDone
  BY DEF P!PcomInit, P!Resting, Asking, Notified, WordsWritten, P!ClockCallDone, P!AsksAt
<1> QED BY <1>1, <1>2 DEF PcomInv

\* A thread moves on: the others rest, since it holds the mutex.
LEMMA MovesOn ==
    ASSUME PcomInv, NEW t \in Drivers, NEW p \in PcomPlaces, asks[t].at # "rest", P!Moves(t, p)
    PROVE  /\ asks' \in [Drivers -> [at : PcomPlaces, cmd : PcomCommands \cup {P!CMD_DONE},
                                     data1 : ClockIds \cup {0}, data2 : 0 .. 2, ret : {-1, 0}]]
           /\ asks'[t].at = p /\ asks'[t].cmd = asks[t].cmd /\ asks'[t].data1 = asks[t].data1
           /\ asks'[t].data2 = asks[t].data2 /\ asks'[t].ret = asks[t].ret
           /\ \A o \in Drivers \ {t} : asks'[o] = asks[o] /\ asks[o].at = "rest"
           /\ holder = t /\ asks[t].cmd # P!CMD_DONE
BY DEF P!Moves, PcomInv, PcomTypes, Asking

LEMMA NextPcom == PcomInv /\ [P!PcomNext]_modems => PcomInv'
<1> SUFFICES ASSUME PcomInv, [P!PcomNext]_modems PROVE PcomInv'
  OBVIOUS
<1> USE DEF P!AsksAt
<1>1. ASSUME NEW t \in Drivers, NEW cmd \in PcomCommands, NEW id \in ClockIds, NEW rate \in 0 .. 2,
             P!Asks(t, cmd, id, rate)
      PROVE  PcomInv'
  <2>1. \A o \in Drivers : asks[o].at = "rest"
    BY <1>1, DriversAssumption
       DEF DriversAssumption, P!Asks, P!clk_mutex_free, P!NoOne, PcomInv, Asking
  <2>2. /\ asks'[t] = [at |-> "ready", cmd |-> cmd, data1 |-> id, data2 |-> rate, ret |-> -1]
        /\ \A o \in Drivers \ {t} : asks'[o] = asks[o]
        /\ holder' = t /\ UNCHANGED <<words, modem>>
    BY <1>1 DEF P!Asks, PcomInv, PcomTypes
  <2>3. PcomTypes'
    BY <1>1 DEF P!Asks, PcomInv, PcomTypes, PcomPlaces, PcomCommands, P!CMD_DONE
  <2>4. ~modem.notified
    BY <2>1 DEF PcomInv, Notified
  <2>5. cmd # P!CMD_DONE
    BY DEF PcomCommands, P!CMD_DONE
  <2> QED BY <2>1, <2>2, <2>3, <2>4, <2>5
             DEF PcomInv, Asking, Notified, WordsWritten, P!ClockCallDone
<1>2. ASSUME NEW t \in Drivers, P!wait_ready(t) PROVE PcomInv'
  <2>1. /\ asks[t].at = "ready" /\ P!Moves(t, "command") /\ UNCHANGED <<words, modem, holder, served>>
    BY <1>2 DEF P!wait_ready
  <2>2. "command" \in PcomPlaces
    BY DEF PcomPlaces
  <2> QED BY <2>1, <2>2, MovesOn DEF PcomInv, PcomTypes, Asking, Notified, WordsWritten, P!ClockCallDone
<1>3. ASSUME NEW t \in Drivers, P!pcom_write(t) PROVE PcomInv'
  <2>1. PICK p \in PcomPlaces :
            /\ P!Moves(t, p) /\ UNCHANGED <<modem, holder, served>>
            /\ \/ asks[t].at = "command" /\ p = "data1" /\ words' = [words EXCEPT !.cmd = asks[t].cmd]
               \/ asks[t].at = "data1" /\ p = "data2" /\ words' = [words EXCEPT !.data1 = asks[t].data1]
               \/ asks[t].at = "data2" /\ p = "notify" /\ words' = [words EXCEPT !.data2 = asks[t].data2]
    BY <1>3 DEF P!pcom_write, PcomPlaces
  <2>2. asks[t].at # "rest"
    BY <2>1
  <2>3. ~modem.notified
    BY <2>1, <2>2, MovesOn DEF PcomInv, Notified
  <2>4. PcomTypes'
    BY <2>1, <2>2, MovesOn DEF PcomInv, PcomTypes
  <2>5. WordsWritten'
    BY <2>1, <2>2, MovesOn DEF PcomInv, PcomTypes, WordsWritten
  <2> QED BY <2>1, <2>2, <2>3, <2>4, <2>5, MovesOn
             DEF PcomInv, Asking, Notified, P!ClockCallDone
<1>4. ASSUME NEW t \in Drivers, P!notify_other_proc_comm(t) PROVE PcomInv'
  <2>1. /\ asks[t].at = "notify" /\ P!Moves(t, "done") /\ UNCHANGED <<words, holder, served>>
        /\ modem' = [modem EXCEPT !.notified = TRUE]
    BY <1>4 DEF P!notify_other_proc_comm
  <2>2. "done" \in PcomPlaces
    BY DEF PcomPlaces
  <2>3. modem' \in [ready : BOOLEAN, notified : BOOLEAN] /\ modem'.notified
    BY <2>1 DEF PcomInv, PcomTypes
  <2> QED BY <2>1, <2>2, <2>3, MovesOn
             DEF PcomInv, PcomTypes, Asking, Notified, WordsWritten, P!ClockCallDone
<1>5. ASSUME NEW t \in Drivers, P!wait_done(t) PROVE PcomInv'
  <2>1. /\ asks[t].at = "done" /\ words.cmd = P!CMD_DONE /\ UNCHANGED <<words, modem, holder, served>>
    BY <1>5 DEF P!wait_done
  <2>2. /\ asks'[t].at = "end" /\ asks'[t].cmd = asks[t].cmd
        /\ asks'[t].ret = (IF words.status = "fail" THEN -1 ELSE 0)
        /\ \A o \in Drivers \ {t} : asks'[o] = asks[o]
    BY <1>5 DEF P!wait_done, PcomInv, PcomTypes
  <2>3. PcomTypes'
    <3> DEFINE r == IF words.status = "fail" THEN -1 ELSE 0
    <3>1. asks' = [asks EXCEPT ![t].at = "end", ![t].ret = r]
      BY <1>5 DEF P!wait_done
    <3>2. r \in {-1, 0}
      OBVIOUS
    <3> HIDE DEF r
    <3> DEFINE Asked == [at : PcomPlaces, cmd : PcomCommands \cup {P!CMD_DONE},
                         data1 : ClockIds \cup {0}, data2 : 0 .. 2, ret : {-1, 0}]
    <3>3. asks \in [Drivers -> Asked] /\ "end" \in PcomPlaces
      BY DEF PcomInv, PcomTypes, PcomPlaces
    <3>4. [asks[t] EXCEPT !.at = "end", !.ret = r] \in Asked
      BY <3>2, <3>3
    <3>5. asks' = [asks EXCEPT ![t] = [asks[t] EXCEPT !.at = "end", !.ret = r]]
      BY <3>1, <3>3
    <3> HIDE DEF Asked
    <3>6. asks' \in [Drivers -> Asked]
      BY <3>3, <3>4, <3>5
    <3> QED BY <2>1, <3>6 DEF Asked, PcomInv, PcomTypes
  <2>4. ~modem.notified /\ (words.status = "fail" \/ t \in served)
    BY <2>1 DEF PcomInv, Asking, WordsWritten
  <2>5. \A o \in Drivers \ {t} : asks[o].at = "rest"
    BY <2>1 DEF PcomInv, Asking
  <2> QED BY <2>1, <2>2, <2>3, <2>4, <2>5
             DEF PcomInv, Asking, Notified, WordsWritten, P!ClockCallDone
<1>6. ASSUME NEW t \in Drivers, P!pcom_end(t) PROVE PcomInv'
  <2>1. /\ asks[t].at = "end" /\ UNCHANGED <<words, modem, served>>
    BY <1>6 DEF P!pcom_end
  <2>2. asks'[t] = P!Resting /\ \A o \in Drivers \ {t} : asks'[o] = asks[o]
    BY <1>6 DEF P!pcom_end, PcomInv, PcomTypes
  <2>3. PcomTypes'
    BY <1>6 DEF P!pcom_end, PcomInv, PcomTypes, P!Resting, PcomPlaces
  <2>4. \A o \in Drivers \ {t} : asks[o].at = "rest"
    BY <2>1 DEF PcomInv, Asking
  <2> QED BY <2>1, <2>2, <2>3, <2>4
             DEF P!Resting, PcomInv, Asking, Notified, WordsWritten, P!ClockCallDone
<1>7. CASE P!modem_starts
  <2>1. modem' \in [ready : BOOLEAN, notified : BOOLEAN] /\ modem'.notified = modem.notified
    BY <1>7 DEF P!modem_starts, PcomInv, PcomTypes
  <2> QED BY <1>7, <2>1 DEF P!modem_starts, PcomInv, PcomTypes, Asking, Notified, WordsWritten, P!ClockCallDone
<1>8. CASE P!modem_answers
  <2>1. PICK s \in {"success", "fail"} :
            /\ words' = [words EXCEPT !.cmd = P!CMD_DONE, !.status = s]
            /\ served' = IF s = "fail" THEN served
                         ELSE served \cup {t \in Drivers :
                                  <<asks[t].cmd, asks[t].data1, asks[t].data2>>
                                  = <<words.cmd, words.data1, words.data2>>}
    BY <1>8 DEF P!modem_answers
  <2>2. modem.notified /\ modem' = [modem EXCEPT !.notified = FALSE] /\ UNCHANGED <<holder, asks>>
    BY <1>8 DEF P!modem_answers
  <2>3. modem' \in [ready : BOOLEAN, notified : BOOLEAN] /\ ~modem'.notified
    BY <2>2 DEF PcomInv, PcomTypes
  <2>4. PcomTypes'
    BY <2>1, <2>2, <2>3 DEF PcomInv, PcomTypes
  <2>5. served \subseteq served'
    BY <2>1
  <2>6. PICK t \in Drivers : asks[t].at = "done"
    BY <2>2 DEF PcomInv, Notified
  <2>7. \A o \in Drivers \ {t} : asks[o].at = "rest"
    BY <2>6 DEF PcomInv, Asking
  <2>8. /\ words.cmd = asks[t].cmd /\ words.data1 = asks[t].data1 /\ words.data2 = asks[t].data2
    BY <2>2, <2>6 DEF PcomInv, WordsWritten
  <2>9. /\ words'.cmd = P!CMD_DONE /\ words'.status = s
        /\ words'.data1 = words.data1 /\ words'.data2 = words.data2
    BY <2>1 DEF PcomInv, PcomTypes
  <2>10. words'.status = "fail" \/ t \in served'
    BY <2>1, <2>8, <2>9
  <2>11. WordsWritten'
    BY <2>2, <2>3, <2>6, <2>7, <2>8, <2>9, <2>10 DEF WordsWritten
  <2> QED BY <2>2, <2>3, <2>4, <2>5, <2>11 DEF PcomInv, Asking, Notified, P!ClockCallDone
<1>9. CASE UNCHANGED modems
  BY <1>9 DEF modems, PcomInv, PcomTypes, Asking, Notified, WordsWritten, P!ClockCallDone
<1>10. CASE P!PcomNext
  <2>1. ASSUME NEW t \in Drivers, NEW id \in ClockIds,
               \/ P!pcom_clock_enable(t, id) \/ P!pcom_clock_disable(t, id)
               \/ \E rate \in 1 .. 2 : P!pcom_clock_set_rate(t, id, rate)
        PROVE  PcomInv'
    BY <1>1, <2>1 DEF P!pcom_clock_enable, P!pcom_clock_disable, P!pcom_clock_set_rate, PcomCommands
  <2> QED BY <1>2, <1>3, <1>4, <1>5, <1>6, <1>7, <1>8, <1>10, <2>1 DEF P!PcomNext
<1> QED BY <1>9, <1>10


-----------------------------------------------------------------------------
(* The DEX mailbox                                                         *)

Inside == {"ready", "command", "data", "post", "wait", "status", "end"}
DexPlaces == Inside \cup {"out", "acquire", "reset"}
DexCodes == {"none", "VIBRA", "REG_ON", "REG_OFF", "REG_VOLTAGE", "REBOOT", "POWER_OFF"}
DexData == {"0", "junk", "bit 0"}
DexCommands == {c \in [cmd : DexCodes, has : BOOLEAN, data : DexData] : c.has \/ c.data = "0"}
DexCalls == [pc : DexPlaces, in : DexCommands, vreg : Vregs \cup {0}, num : Nat]
InBox == D!Command(box.cmd, box.has, box.data)

DexTypes ==
    /\ box \in [cmd : DexCodes, has : BOOLEAN, data : DexData, serial : Nat, check : Nat,
                status : DexCodes \cup {"0", "failed"}]
    /\ call \in [DexCallers -> DexCalls]
    /\ a9 \in [init : BOOLEAN, irq : BOOLEAN, job : DexCommands, num : Nat]
    /\ done \in SUBSET [in : DexCommands, num : Nat]
    /\ halt \in [done : BOOLEAN, pulled : BOOLEAN]

\* The mutex lets one caller at a time to the words of the mailbox.
OneInside == \A t \in DexCallers : call[t].pc \in Inside => dex_mutex = t

\* Before it is ready the ARM9 has done nothing, so that clearing the words then
\* does not bring back a number that was used.
Young == ~a9.init => done = {} /\ a9.job = D!Idle9 /\ box.check = 0

\* What the ARM9 took and what it answered bear numbers given before.
Numbers ==
    /\ \A d \in done : d.num <= box.serial
    /\ a9.job # D!Idle9 => \E d \in done : d.num = a9.num
    /\ box.check # 0 => \E d \in done : d.num = box.check

CommandWritten ==
    ~halt.pulled =>
        \A t \in DexCallers :
            /\ call[t].pc \in {"data", "post"} => box.cmd = call[t].in.cmd
            /\ call[t].pc = "post" => box.has = call[t].in.has /\ box.data = call[t].in.data

\* While a caller waits, its own command stands in the mailbox under its number.
CommandStands ==
    ~halt.pulled =>
        \A t \in DexCallers :
            call[t].pc = "wait" =>
                /\ call[t].num = box.serial /\ box.serial # 0 /\ InBox = call[t].in
                /\ \A d \in done : d.num = box.serial => d.in = call[t].in

DexInv ==
    /\ DexTypes /\ OneInside /\ Young /\ Numbers /\ CommandWritten /\ CommandStands
    /\ D!AnsweredWasDone

LEMMA IdleIsCommand ==
    D!Idle9 \in DexCommands /\ D!Away \in DexCalls
<1>1. D!Idle9 \in DexCommands
  BY DEF D!Idle9, D!Command, DexCommands, DexCodes, DexData
<1> QED BY <1>1 DEF D!Away, DexCalls, DexPlaces

LEMMA InitDex == D!DexInit => DexInv
<1> SUFFICES ASSUME D!DexInit PROVE DexInv
  OBVIOUS
<1>1. /\ box = [cmd |-> "none", has |-> FALSE, data |-> "0", serial |-> 0, check |-> 0, status |-> "0"]
      /\ call = [t \in DexCallers |-> D!Away]
      /\ done = {}
      /\ halt = [done |-> FALSE, pulled |-> FALSE]
  BY DEF D!DexInit
<1>2. /\ a9 \in [init : {target = "msm7200a"}, irq : {FALSE}, job : {D!Idle9}, num : {0}]
      /\ {target = "msm7200a"} \subseteq BOOLEAN
      /\ a9.job = D!Idle9
  BY DEF D!DexInit
<1>3. a9 \in [init : BOOLEAN, irq : BOOLEAN, job : DexCommands, num : Nat]
  <2>1. {FALSE} \subseteq BOOLEAN /\ {D!Idle9} \subseteq DexCommands /\ {0} \subseteq Nat
    BY IdleIsCommand
  <2> HIDE DEF DexCommands
  <2> DEFINE ready == {target = "msm7200a"}
             idle == {D!Idle9}
  <2>2. ready \subseteq BOOLEAN
    OBVIOUS
  <2>3. a9 \in [init : ready, irq : {FALSE}, job : idle, num : {0}]
    BY <1>2
  <2>4. idle \subseteq DexCommands
    BY <2>1
  <2> HIDE DEF ready, idle
  <2> QED BY <2>1, <2>2, <2>3, <2>4
<1>4. DexTypes
  BY <1>1, <1>3, IdleIsCommand DEF DexTypes, DexCodes, DexData
<1>5. \A t \in DexCallers : call[t].pc = "out"
  BY <1>1 DEF D!Away
<1> QED BY <1>1, <1>2, <1>4, <1>5 DEF DexInv, OneInside, Young, Numbers, CommandWritten,
                                     CommandStands, D!AnsweredWasDone, Inside

LEMMA OthersOutside ==
    ASSUME DexInv, NEW t \in DexCallers, call[t].pc \in Inside
    PROVE  \A u \in DexCallers \ {t} : call[u].pc \notin Inside
BY DEF DexInv, OneInside

LEMMA OutsideIsNowhere ==
    \A p : p \notin Inside => p \notin {"data", "post", "wait", "status"}
BY DEF Inside

LEMMA BoxIsCommand ==
    ASSUME NEW c \in DexCommands, NEW cmd, NEW has, NEW data,
           cmd = c.cmd, has = c.has, data = c.data
    PROVE  D!Command(cmd, has, data) = c
<1>1. c = [cmd |-> c.cmd, has |-> c.has, data |-> c.data]
  BY DEF DexCommands
<1>2. has \in BOOLEAN /\ (has \/ data = "0")
  BY DEF DexCommands
<1>3. CASE has
  BY <1>1, <1>3 DEF D!Command
<1>4. CASE ~has
  BY <1>1, <1>2, <1>4 DEF D!Command
<1> QED BY <1>3, <1>4

LEMMA BoxHoldsCommand ==
    ASSUME DexTypes
    PROVE  InBox \in DexCommands
<1>1. box.cmd \in DexCodes /\ box.has \in BOOLEAN /\ box.data \in DexData /\ "0" \in DexData
  BY DEF DexTypes, DexData
<1>2. CASE box.has
  BY <1>1, <1>2 DEF InBox, D!Command, DexCommands
<1>3. CASE ~box.has
  BY <1>1, <1>3 DEF InBox, D!Command, DexCommands
<1> QED BY <1>2, <1>3

LEMMA GoesOn ==
    ASSUME DexInv, NEW t \in DexCallers, NEW c \in DexCalls, call' = [call EXCEPT ![t] = c]
    PROVE  /\ call' \in [DexCallers -> DexCalls] /\ call'[t] = c
           /\ \A u \in DexCallers \ {t} : call'[u] = call[u]
BY DEF DexInv, DexTypes

\* One caller moves and the words keep what they say, but for the status.
SameWords == box' = box \/ box' = [box EXCEPT !.status = "0"]

LEMMA WordsKept ==
    ASSUME DexTypes, SameWords
    PROVE  /\ box' \in [cmd : DexCodes, has : BOOLEAN, data : DexData, serial : Nat, check : Nat,
                        status : DexCodes \cup {"0", "failed"}]
           /\ box'.cmd = box.cmd /\ box'.has = box.has /\ box'.data = box.data
           /\ box'.serial = box.serial /\ box'.check = box.check
BY DEF DexTypes, SameWords

\* A caller that is not in the mailbox after its step disturbs nobody who is.
LEMMA StaysOutside ==
    ASSUME DexInv, NEW t \in DexCallers, NEW c \in DexCalls, c.pc \notin Inside,
           call' = [call EXCEPT ![t] = c], SameWords, UNCHANGED <<a9, done>>,
           \/ UNCHANGED dex_mutex
           \/ call[t].pc \in Inside,
           halt' \in [done : BOOLEAN, pulled : BOOLEAN], halt.pulled => halt'.pulled
    PROVE  DexInv'
<1>1. DexTypes'
  BY GoesOn, WordsKept DEF DexInv, DexTypes
<1>2. /\ call'[t] = c
      /\ \A u \in DexCallers \ {t} : call'[u] = call[u]
  BY GoesOn
<1>3. OneInside'
  <2>1. CASE UNCHANGED dex_mutex
    BY <1>2, <2>1 DEF DexInv, OneInside
  <2>2. CASE call[t].pc \in Inside
    BY <1>2, <2>2, OthersOutside DEF OneInside
  <2> QED BY <2>1, <2>2
<1>4. c.pc \notin {"data", "post", "wait", "status"}
  BY OutsideIsNowhere
<1>5. /\ box'.cmd = box.cmd /\ box'.has = box.has /\ box'.data = box.data
      /\ box'.serial = box.serial /\ box'.check = box.check
      /\ InBox' = InBox
  BY WordsKept DEF DexInv, InBox
<1>6. Young' /\ Numbers'
  BY <1>5 DEF DexInv, Young, Numbers
<1>7. CommandWritten'
  BY <1>2, <1>4, <1>5 DEF DexInv, CommandWritten
<1>8. CommandStands'
  BY <1>2, <1>4, <1>5 DEF DexInv, CommandStands
<1>9. D!AnsweredWasDone'
  BY <1>2, <1>4 DEF DexInv, D!AnsweredWasDone
<1> QED BY <1>1, <1>3, <1>6, <1>7, <1>8, <1>9 DEF DexInv

\* A caller within the mailbox goes on to a place where nothing is claimed of it.
LEMMA MovesWithin ==
    ASSUME DexInv, NEW t \in DexCallers, NEW p \in {"ready", "command", "end"},
           D!Goes(t, p), SameWords, UNCHANGED <<a9, done, halt>>,
           \/ call[t].pc \in Inside /\ UNCHANGED dex_mutex
           \/ dex_mutex = "free" /\ dex_mutex' = t
    PROVE  DexInv'
<1> DEFINE c == [call[t] EXCEPT !.pc = p]
<1>1. c \in DexCalls /\ c.pc = p
  BY DEF DexInv, DexTypes, DexCalls, DexPlaces, Inside
<1>2. call' = [call EXCEPT ![t] = c]
  BY DEF D!Goes
<1> HIDE DEF c
<1>3. /\ call' \in [DexCallers -> DexCalls] /\ call'[t] = c
      /\ \A u \in DexCallers \ {t} : call'[u] = call[u]
  BY <1>1, <1>2, GoesOn
<1>4. DexTypes'
  BY <1>3, WordsKept DEF DexInv, DexTypes
<1>5. OneInside'
  <2>1. CASE call[t].pc \in Inside /\ UNCHANGED dex_mutex
    BY <1>3, <2>1 DEF DexInv, OneInside
  <2>2. CASE dex_mutex = "free" /\ dex_mutex' = t
    BY <1>3, <2>2, DriversAssumption DEF DexInv, OneInside, DriversAssumption
  <2> QED BY <2>1, <2>2
<1>6. c.pc \notin {"data", "post", "wait", "status"}
  BY <1>1
<1>7. /\ box'.cmd = box.cmd /\ box'.has = box.has /\ box'.data = box.data
      /\ box'.serial = box.serial /\ box'.check = box.check
      /\ InBox' = InBox
  BY WordsKept DEF DexInv, InBox
<1>8. Young' /\ Numbers'
  BY <1>7 DEF DexInv, Young, Numbers
<1>9. CommandWritten'
  BY <1>3, <1>6, <1>7 DEF DexInv, CommandWritten
<1>10. CommandStands'
  BY <1>3, <1>6, <1>7 DEF DexInv, CommandStands
<1>11. D!AnsweredWasDone'
  BY <1>3, <1>6 DEF DexInv, D!AnsweredWasDone
<1> QED BY <1>4, <1>5, <1>8, <1>9, <1>10, <1>11 DEF DexInv

LEMMA Sends ==
    ASSUME DexInv, NEW t \in DexCallers, call[t].pc = "out",
           NEW c \in DexCommands, NEW id \in Vregs \cup {0}, D!Send(t, c, id),
           UNCHANGED <<box, dex_mutex, a9, done>>,
           halt' \in [done : BOOLEAN, pulled : BOOLEAN], halt.pulled => halt'.pulled
    PROVE  DexInv'
<1> DEFINE new == [D!Away EXCEPT !.pc = "acquire", !.in = c, !.vreg = id]
<1>1. new \in DexCalls /\ new.pc = "acquire"
  BY IdleIsCommand DEF DexCalls, DexPlaces, D!Away
<1>2. new.pc \notin Inside
  BY <1>1 DEF Inside
<1>3. call' = [call EXCEPT ![t] = new]
  BY DEF D!Send
<1> HIDE DEF new
<1> QED BY <1>1, <1>2, <1>3, StaysOutside DEF SameWords

LEMMA NobodyMoves ==
    ASSUME DexInv, UNCHANGED <<box, dex_mutex, call, a9, done>>,
           halt' \in [done : BOOLEAN, pulled : BOOLEAN], halt.pulled => halt'.pulled
    PROVE  DexInv'
<1>1. DexTypes'
  BY DEF DexInv, DexTypes
<1>2. OneInside' /\ Young' /\ Numbers' /\ D!AnsweredWasDone'
  BY DEF DexInv, OneInside, Young, Numbers, D!AnsweredWasDone
<1>3. CommandWritten' /\ CommandStands'
  BY DEF DexInv, CommandWritten, CommandStands, InBox
<1> QED BY <1>1, <1>2, <1>3 DEF DexInv

LEMMA CommandsAreTyped ==
    /\ D!REG_ON \in DexCommands /\ D!REG_OFF \in DexCommands /\ D!Reboot \in DexCommands
    /\ D!Command("REG_VOLTAGE", TRUE, "bit 0") \in DexCommands
    /\ D!Plain \subseteq DexCommands
<1>1. /\ D!REG_ON \in DexCommands /\ D!REG_OFF \in DexCommands /\ D!Reboot \in DexCommands
      /\ D!Command("REG_VOLTAGE", TRUE, "bit 0") \in DexCommands
  BY DEF D!REG_ON, D!REG_OFF, D!Reboot, D!Command, DexCommands, DexCodes, DexData
<1>2. /\ D!Command("VIBRA", TRUE, "junk") \in DexCommands
      /\ D!Command("VIBRA", FALSE, "junk") \in DexCommands
  BY DEF D!Command, DexCommands, DexCodes, DexData
<1> QED BY <1>1, <1>2 DEF D!Plain

LEMMA HaltKept ==
    ASSUME DexTypes,
           \/ UNCHANGED halt
           \/ halt' = [halt EXCEPT !.done = TRUE]
           \/ halt' = [halt EXCEPT !.pulled = TRUE]
           \/ halt' = [done |-> TRUE, pulled |-> TRUE]
    PROVE  halt' \in [done : BOOLEAN, pulled : BOOLEAN] /\ (halt.pulled => halt'.pulled)
<1>1. halt \in [done : BOOLEAN, pulled : BOOLEAN]
  BY DEF DexTypes
<1>2. CASE UNCHANGED halt
  BY <1>1, <1>2
<1>3. CASE halt' = [halt EXCEPT !.done = TRUE]
  BY <1>1, <1>3
<1>4. CASE halt' = [halt EXCEPT !.pulled = TRUE]
  BY <1>1, <1>4
<1>5. CASE halt' = [done |-> TRUE, pulled |-> TRUE]
  BY <1>5
<1> QED BY <1>2, <1>3, <1>4, <1>5

\* A command begins: it is sent, or there is nothing to send.
LEMMA Calls ==
    ASSUME DexInv, NEW t \in DexCallers,
           \/ D!dex_set_vibrate(t) \/ D!dex_reboot(t)
           \/ \E id \in Vregs : \/ D!dex_vreg_enable(t, id) \/ D!dex_vreg_disable(t, id)
                                \/ D!dex_vreg_set_level(t, id)
    PROVE  DexInv'
<1>1. DexTypes
  BY DEF DexInv
<1>2. CASE D!dex_set_vibrate(t)
  <2>1. PICK c \in D!Plain : D!Send(t, c, 0)
    BY <1>2 DEF D!dex_set_vibrate
  <2>2. c \in DexCommands
    BY <2>1, CommandsAreTyped
  <2>3. UNCHANGED <<box, dex_mutex, a9, done, halt>> /\ call[t].pc = "out"
    BY <1>2 DEF D!dex_set_vibrate, D!Start, D!DexAt
  <2>4. halt' \in [done : BOOLEAN, pulled : BOOLEAN] /\ (halt.pulled => halt'.pulled)
    BY <1>1, <2>3, HaltKept
  <2> QED BY <2>1, <2>2, <2>3, <2>4, Sends
<1>3. CASE D!dex_reboot(t)
  <2>1. UNCHANGED <<box, dex_mutex, a9, done>> /\ call[t].pc = "out"
    BY <1>3 DEF D!dex_reboot, D!Start, D!DexAt
  <2>2. /\ \/ UNCHANGED halt
           \/ halt' = [halt EXCEPT !.done = TRUE]
           \/ halt' = [done |-> TRUE, pulled |-> TRUE]
        /\ UNCHANGED call \/ D!Send(t, D!Reboot, 0)
    BY <1>3, Zenon DEF D!dex_reboot
  <2>3. halt' \in [done : BOOLEAN, pulled : BOOLEAN] /\ (halt.pulled => halt'.pulled)
    BY <1>1, <2>2, HaltKept
  <2> QED BY <2>1, <2>2, <2>3, Sends, NobodyMoves, CommandsAreTyped
<1>4. ASSUME NEW id \in Vregs,
             D!dex_vreg_enable(t, id) \/ D!dex_vreg_disable(t, id) \/ D!dex_vreg_set_level(t, id)
      PROVE  DexInv'
  <2>1. UNCHANGED <<box, dex_mutex, a9, done, halt>> /\ call[t].pc = "out"
    BY <1>4 DEF D!dex_vreg_enable, D!dex_vreg_disable, D!dex_vreg_set_level, D!Start, D!DexAt
  <2>2. \/ UNCHANGED call
        \/ D!Send(t, D!REG_ON, id)
        \/ D!Send(t, D!REG_OFF, id)
        \/ D!Send(t, D!Command("REG_VOLTAGE", TRUE, "bit 0"), id)
    BY <1>4 DEF D!dex_vreg_enable, D!dex_vreg_disable, D!dex_vreg_set_level
  <2>3. halt' \in [done : BOOLEAN, pulled : BOOLEAN] /\ (halt.pulled => halt'.pulled)
    BY <1>1, <2>1, HaltKept
  <2> QED BY <2>1, <2>2, <2>3, Sends, NobodyMoves, CommandsAreTyped
<1> QED BY <1>2, <1>3, <1>4

LEMMA PowersOff ==
    ASSUME DexInv, NEW t \in DexCallers, D!dex_power_off(t)
    PROVE  DexInv'
<1>1. DexTypes
  BY DEF DexInv
<1>2. UNCHANGED <<dex_mutex, call, done>>
  BY DEF D!dex_power_off
<1>3. CASE UNCHANGED <<box, a9, halt>>
  BY <1>1, <1>2, <1>3, NobodyMoves, HaltKept
<1>4. CASE /\ box' = [box EXCEPT !.cmd = "POWER_OFF", !.serial = @ + 1]
           /\ a9' = [a9 EXCEPT !.irq = TRUE]
           /\ halt' = [done |-> TRUE, pulled |-> TRUE]
  <2>1. box.serial \in Nat /\ box.serial + 1 \in Nat /\ "POWER_OFF" \in DexCodes
    BY <1>1 DEF DexTypes, DexCodes
  <2>2. /\ box' \in [cmd : DexCodes, has : BOOLEAN, data : DexData, serial : Nat, check : Nat,
                     status : DexCodes \cup {"0", "failed"}]
        /\ box'.serial = box.serial + 1 /\ box'.check = box.check
    BY <1>1, <1>4, <2>1 DEF DexTypes
  <2>3. /\ a9' \in [init : BOOLEAN, irq : BOOLEAN, job : DexCommands, num : Nat]
        /\ a9'.init = a9.init /\ a9'.job = a9.job /\ a9'.num = a9.num
    BY <1>1, <1>4 DEF DexTypes
  <2>4. DexTypes' /\ halt'.pulled
    BY <1>1, <1>2, <1>4, <2>2, <2>3 DEF DexTypes
  <2>5. OneInside' /\ Young' /\ D!AnsweredWasDone'
    BY <1>2, <2>2, <2>3 DEF DexInv, OneInside, Young, D!AnsweredWasDone
  <2>6. \A d \in done : d.num \in Nat /\ d.num <= box.serial
    BY <1>1 DEF DexInv, DexTypes, Numbers
  <2>7. Numbers'
    BY <1>2, <2>1, <2>2, <2>3, <2>6 DEF DexInv, Numbers
  <2> QED BY <2>4, <2>5, <2>7 DEF DexInv, CommandWritten, CommandStands
<1> QED BY <1>3, <1>4 DEF D!dex_power_off

LEMMA Answers ==
    ASSUME DexInv, D!Arm9
    PROVE  DexInv'
<1>1. DexTypes
  BY DEF DexInv
<1>2. CASE D!a9_init
  <2>1. UNCHANGED <<box, dex_mutex, call, done, halt>>
    BY <1>2 DEF D!a9_init
  <2>2. /\ a9' \in [init : BOOLEAN, irq : BOOLEAN, job : DexCommands, num : Nat]
        /\ a9'.init /\ a9'.job = a9.job /\ a9'.num = a9.num
    BY <1>1, <1>2 DEF DexTypes, D!a9_init
  <2>3. DexTypes'
    BY <1>1, <2>1, <2>2 DEF DexTypes
  <2>4. OneInside' /\ Young' /\ Numbers' /\ D!AnsweredWasDone'
    BY <2>1, <2>2 DEF DexInv, OneInside, Young, Numbers, D!AnsweredWasDone
  <2>5. CommandWritten' /\ CommandStands'
    BY <2>1 DEF DexInv, CommandWritten, CommandStands, InBox
  <2> QED BY <2>3, <2>4, <2>5 DEF DexInv
<1>3. CASE D!a9_take
  <2> DEFINE taken == [in |-> InBox, num |-> box.serial]
  <2>1. /\ UNCHANGED <<box, dex_mutex, call, halt>>
        /\ a9.init
        /\ a9' = [a9 EXCEPT !.irq = FALSE, !.job = InBox, !.num = box.serial]
        /\ done' = done \cup {taken}
    BY <1>3 DEF D!a9_take, InBox
  <2>2. InBox \in DexCommands /\ box.serial \in Nat
    BY <1>1, BoxHoldsCommand DEF DexTypes
  <2>3. taken \in [in : DexCommands, num : Nat] /\ taken.in = InBox /\ taken.num = box.serial
    BY <2>2
  <2>4. /\ a9' \in [init : BOOLEAN, irq : BOOLEAN, job : DexCommands, num : Nat]
        /\ a9'.init /\ a9'.num = box.serial
    BY <1>1, <2>1, <2>2 DEF DexTypes
  <2> HIDE DEF taken
  <2>5. DexTypes'
    BY <1>1, <2>1, <2>3, <2>4 DEF DexTypes
  <2>6. OneInside' /\ Young' /\ D!AnsweredWasDone'
    BY <2>1, <2>4 DEF DexInv, OneInside, Young, D!AnsweredWasDone
  <2>7. Numbers'
    <3>1. \A d \in done' : d.num <= box'.serial
      BY <2>1, <2>2, <2>3 DEF DexInv, Numbers
    <3>2. \E d \in done' : d.num = a9'.num
      BY <2>1, <2>3, <2>4
    <3>3. box'.check # 0 => \E d \in done' : d.num = box'.check
      BY <2>1 DEF DexInv, Numbers
    <3> QED BY <3>1, <3>2, <3>3 DEF Numbers
  <2>8. CommandWritten'
    BY <2>1 DEF DexInv, CommandWritten
  <2>9. CommandStands'
    <3>1. InBox' = InBox
      BY <2>1 DEF InBox
    <3> QED BY <2>1, <2>3, <3>1 DEF DexInv, CommandStands
  <2> QED BY <2>5, <2>6, <2>7, <2>8, <2>9 DEF DexInv
<1>4. CASE D!a9_answer
  <2>1. /\ UNCHANGED <<dex_mutex, call, done, halt>>
        /\ a9.job # D!Idle9
        /\ a9' = [a9 EXCEPT !.job = D!Idle9, !.num = 0]
    BY <1>4 DEF D!a9_answer
  <2>2. PICK s \in {a9.job.cmd, "failed"} : box' = [box EXCEPT !.status = s, !.check = a9.num]
    BY <1>4 DEF D!a9_answer
  <2>3. a9.num \in Nat /\ s \in DexCodes \cup {"0", "failed"}
    BY <1>1, <2>2 DEF DexTypes, DexCommands
  <2>4. /\ box' \in [cmd : DexCodes, has : BOOLEAN, data : DexData, serial : Nat, check : Nat,
                     status : DexCodes \cup {"0", "failed"}]
        /\ box'.cmd = box.cmd /\ box'.has = box.has /\ box'.data = box.data
        /\ box'.serial = box.serial /\ box'.check = a9.num
    BY <1>1, <2>2, <2>3 DEF DexTypes
  <2>5. /\ a9' \in [init : BOOLEAN, irq : BOOLEAN, job : DexCommands, num : Nat]
        /\ a9'.init = a9.init /\ a9'.job = D!Idle9
    BY <1>1, <2>1, IdleIsCommand DEF DexTypes
  <2>6. DexTypes'
    BY <1>1, <2>1, <2>4, <2>5 DEF DexTypes
  <2>7. OneInside' /\ D!AnsweredWasDone'
    BY <2>1 DEF DexInv, OneInside, D!AnsweredWasDone
  <2>8. Young'
    BY <2>1, <2>5 DEF DexInv, Young
  <2>9. Numbers'
    BY <2>1, <2>4, <2>5 DEF DexInv, Numbers
  <2>10. InBox' = InBox
    BY <2>4 DEF InBox
  <2>11. CommandWritten' /\ CommandStands'
    BY <2>1, <2>4, <2>10 DEF DexInv, CommandWritten, CommandStands
  <2> QED BY <2>6, <2>7, <2>8, <2>9, <2>11 DEF DexInv
<1> QED BY <1>2, <1>3, <1>4 DEF D!Arm9

\* A caller in the mailbox writes a word of its command.
LEMMA Writes ==
    ASSUME DexInv, NEW t \in DexCallers, D!write_command(t) \/ D!write_data(t)
    PROVE  DexInv'
<1>1. DexTypes /\ call[t] \in DexCalls /\ call[t].in \in DexCommands
  BY DEF DexInv, DexTypes, DexCalls
<1>2. /\ call[t].pc \in {"command", "data"} /\ ~halt.pulled
      /\ UNCHANGED <<dex_mutex, a9, done, halt>>
  BY DEF D!write_command, D!write_data, D!DexAt
<1>3. \A u \in DexCallers \ {t} : call[u].pc \notin Inside
  BY <1>2, OthersOutside DEF Inside
<1> DEFINE p == IF call[t].pc = "command" THEN "data" ELSE "post"
           c == [call[t] EXCEPT !.pc = p]
<1>4. /\ c \in DexCalls /\ c.pc = p /\ c.in = call[t].in
      /\ p \in {"data", "post"} /\ (p = "post" => call[t].pc = "data")
  BY <1>1, <1>2 DEF DexCalls, DexPlaces, Inside
<1>5. call' = [call EXCEPT ![t] = c]
  BY DEF D!write_command, D!write_data, D!Goes, D!DexAt
<1> HIDE DEF c, p
<1>6. /\ call' \in [DexCallers -> DexCalls] /\ call'[t] = c
      /\ \A u \in DexCallers \ {t} : call'[u] = call[u]
  BY <1>4, <1>5, GoesOn
<1>7. c.in.cmd \in DexCodes /\ c.in.has \in BOOLEAN /\ c.in.data \in DexData
  BY <1>1, <1>4 DEF DexCommands
<1>8. /\ box' \in [cmd : DexCodes, has : BOOLEAN, data : DexData, serial : Nat, check : Nat,
                   status : DexCodes \cup {"0", "failed"}]
      /\ box'.serial = box.serial /\ box'.check = box.check
      /\ box'.cmd = c.in.cmd
      /\ p = "post" => box'.has = c.in.has /\ box'.data = c.in.data
  <2>1. CASE D!write_command(t)
    <3>1. box' = [box EXCEPT !.cmd = c.in.cmd] /\ p # "post"
      BY <1>4, <2>1 DEF D!write_command, D!DexAt
    <3> QED BY <1>1, <1>7, <3>1 DEF DexTypes
  <2>2. CASE D!write_data(t)
    <3>1. /\ box' = [box EXCEPT !.has = c.in.has, !.data = c.in.data]
          /\ call[t].pc = "data"
      BY <1>4, <2>2 DEF D!write_data, D!DexAt
    <3>2. box.cmd = c.in.cmd
      BY <1>2, <1>4, <3>1 DEF DexInv, CommandWritten
    <3> QED BY <1>1, <1>7, <3>1, <3>2 DEF DexTypes
  <2> QED BY <2>1, <2>2
<1>9. DexTypes'
  BY <1>1, <1>2, <1>6, <1>8 DEF DexTypes
<1>10. OneInside'
  BY <1>2, <1>6 DEF DexInv, OneInside, Inside
<1>11. Young' /\ Numbers'
  BY <1>2, <1>8 DEF DexInv, Young, Numbers
<1>12. \A u \in DexCallers \ {t} : call'[u].pc \notin {"data", "post", "wait", "status"}
  BY <1>3, <1>6, OutsideIsNowhere
<1>13. CommandWritten' /\ CommandStands' /\ D!AnsweredWasDone'
  BY <1>4, <1>6, <1>8, <1>12 DEF CommandWritten, CommandStands, D!AnsweredWasDone
<1> QED BY <1>9, <1>10, <1>11, <1>13 DEF DexInv

\* It raises the number once they are all there, and the ARM9 is interrupted.
LEMMA Posts ==
    ASSUME DexInv, NEW t \in DexCallers, D!post(t)
    PROVE  DexInv'
<1>1. DexTypes /\ call[t] \in DexCalls /\ call[t].in \in DexCommands /\ box.serial \in Nat
  BY DEF DexInv, DexTypes, DexCalls
<1>2. /\ call[t].pc = "post" /\ ~halt.pulled
      /\ UNCHANGED <<dex_mutex, done, halt>>
  BY DEF D!post, D!DexAt
<1>3. \A u \in DexCallers \ {t} : call[u].pc \notin Inside
  BY <1>2, OthersOutside DEF Inside
<1> DEFINE n == box.serial + 1
           c == [call[t] EXCEPT !.pc = "wait", !.num = n]
<1>4. n \in Nat /\ n # 0 /\ \A k \in Nat : k <= box.serial => k # n /\ k <= n
  BY <1>1
<1>5. box' = [box EXCEPT !.serial = n] /\ a9' = [a9 EXCEPT !.irq = TRUE]
  BY DEF D!post
<1>6. call' = [call EXCEPT ![t] = c]
  BY DEF D!post
<1> HIDE DEF n
<1>7. c \in DexCalls /\ c.pc = "wait" /\ c.num = n /\ c.in = call[t].in
  BY <1>1, <1>4 DEF DexCalls, DexPlaces, Inside
<1> HIDE DEF c
<1>8. /\ call' \in [DexCallers -> DexCalls] /\ call'[t] = c
      /\ \A u \in DexCallers \ {t} : call'[u] = call[u]
  BY <1>6, <1>7, GoesOn
<1>9. /\ box' \in [cmd : DexCodes, has : BOOLEAN, data : DexData, serial : Nat, check : Nat,
                   status : DexCodes \cup {"0", "failed"}]
      /\ box'.serial = n /\ box'.check = box.check
      /\ box'.cmd = box.cmd /\ box'.has = box.has /\ box'.data = box.data
  BY <1>1, <1>4, <1>5 DEF DexTypes
<1>10. /\ a9' \in [init : BOOLEAN, irq : BOOLEAN, job : DexCommands, num : Nat]
       /\ a9'.init = a9.init /\ a9'.job = a9.job /\ a9'.num = a9.num
  BY <1>1, <1>5 DEF DexTypes
<1>11. DexTypes'
  BY <1>1, <1>2, <1>8, <1>9, <1>10 DEF DexTypes
<1>12. OneInside'
  BY <1>2, <1>8 DEF DexInv, OneInside, Inside
<1>13. Young'
  BY <1>2, <1>9, <1>10 DEF DexInv, Young
<1>14. \A d \in done : d.num \in Nat /\ d.num <= box.serial
  BY <1>1 DEF DexInv, DexTypes, Numbers
<1>15. \A d \in done : d.num # n /\ d.num <= n
  BY <1>4, <1>14
<1>16. Numbers'
  BY <1>2, <1>9, <1>10, <1>15 DEF DexInv, Numbers
<1>17. \A u \in DexCallers \ {t} : call'[u].pc \notin {"data", "post", "wait", "status"}
  BY <1>3, <1>8, OutsideIsNowhere
<1>18. CommandWritten' /\ D!AnsweredWasDone'
  BY <1>7, <1>8, <1>17 DEF CommandWritten, D!AnsweredWasDone
<1>19. InBox' = c.in
  <2>1. box'.cmd = c.in.cmd /\ box'.has = c.in.has /\ box'.data = c.in.data
    BY <1>2, <1>7, <1>9 DEF DexInv, CommandWritten
  <2>2. c.in \in DexCommands
    BY <1>1, <1>7
  <2> QED BY <2>1, <2>2, BoxIsCommand DEF InBox
<1>20. CommandStands'
  BY <1>2, <1>4, <1>7, <1>8, <1>9, <1>15, <1>17, <1>19 DEF CommandStands
<1> QED BY <1>11, <1>12, <1>13, <1>16, <1>18, <1>20 DEF DexInv

\* It sees its own number come back: what was answered is its own command.
LEMMA SeesAnswer ==
    ASSUME DexInv, NEW t \in DexCallers, D!wait_answer(t)
    PROVE  DexInv'
<1>1. DexTypes /\ call[t] \in DexCalls
  BY DEF DexInv, DexTypes
<1>2. /\ call[t].pc = "wait" /\ ~halt.pulled /\ box.check = call[t].num
      /\ UNCHANGED <<box, dex_mutex, a9, done, halt>>
  BY DEF D!wait_answer, D!DexAt
<1> DEFINE c == [call[t] EXCEPT !.pc = "status"]
<1>3. /\ c \in DexCalls /\ c.pc = "status" /\ c.num = call[t].num /\ c.in = call[t].in
      /\ call' = [call EXCEPT ![t] = c]
  BY <1>1 DEF D!wait_answer, D!Goes, DexCalls, DexPlaces, Inside
<1> HIDE DEF c
<1>4. /\ call' \in [DexCallers -> DexCalls] /\ call'[t] = c
      /\ \A u \in DexCallers \ {t} : call'[u] = call[u]
  BY <1>3, GoesOn
<1>5. DexTypes'
  BY <1>1, <1>2, <1>4 DEF DexTypes
<1>6. OneInside'
  BY <1>2, <1>4 DEF DexInv, OneInside, Inside
<1>7. Young' /\ Numbers'
  BY <1>2 DEF DexInv, Young, Numbers
<1>8. CommandWritten'
  BY <1>2, <1>3, <1>4 DEF DexInv, CommandWritten
<1>9. CommandStands'
  BY <1>2, <1>3, <1>4 DEF DexInv, CommandStands, InBox
<1>10. [in |-> c.in, num |-> c.num] \in done
  <2>1. box.check = box.serial /\ box.check # 0
    BY <1>2 DEF DexInv, CommandStands
  <2>2. PICK d \in done : d.num = box.serial
    BY <2>1 DEF DexInv, Numbers
  <2>3. d.in = c.in /\ d.num = c.num
    BY <1>2, <1>3, <2>1, <2>2 DEF DexInv, CommandStands
  <2>4. d = [in |-> d.in, num |-> d.num]
    BY <1>1, <2>2 DEF DexTypes
  <2> QED BY <2>2, <2>3, <2>4
<1>11. D!AnsweredWasDone'
  BY <1>2, <1>4, <1>10 DEF DexInv, D!AnsweredWasDone
<1> QED BY <1>5, <1>6, <1>7, <1>8, <1>9, <1>11 DEF DexInv

\* Before the ARM9 is ready the words are cleared, its numbers with them.
LEMMA Readies ==
    ASSUME DexInv, NEW t \in DexCallers, D!dex_ready(t)
    PROVE  DexInv'
<1>1. DexTypes
  BY DEF DexInv
<1>2. /\ call[t].pc = "ready" /\ D!Goes(t, "command")
      /\ UNCHANGED <<dex_mutex, a9, done, halt>>
  BY DEF D!dex_ready, D!DexAt
<1>3. call[t].pc \in Inside
  BY <1>2 DEF Inside
<1>4. CASE UNCHANGED box
  BY <1>2, <1>3, <1>4, MovesWithin DEF SameWords
<1>5. CASE ~a9.init /\ box' = D!Cleared
  <2> DEFINE c == [call[t] EXCEPT !.pc = "command"]
  <2>1. c \in DexCalls /\ c.pc = "command" /\ call' = [call EXCEPT ![t] = c]
    BY <1>1, <1>2 DEF DexTypes, DexCalls, DexPlaces, Inside, D!Goes
  <2> HIDE DEF c
  <2>2. /\ call' \in [DexCallers -> DexCalls] /\ call'[t] = c
        /\ \A u \in DexCallers \ {t} : call'[u] = call[u]
    BY <2>1, GoesOn
  <2>3. "0" \in DexData
    BY DEF DexData
  <2>4. /\ box' \in [cmd : DexCodes, has : BOOLEAN, data : DexData, serial : Nat, check : Nat,
                     status : DexCodes \cup {"0", "failed"}]
        /\ box'.serial = 0 /\ box'.check = 0
    BY <1>1, <1>5, <2>3 DEF DexTypes, D!Cleared
  <2>5. DexTypes'
    BY <1>1, <1>2, <2>2, <2>4 DEF DexTypes
  <2>6. OneInside'
    BY <1>2, <1>3, <2>2 DEF DexInv, OneInside
  <2>7. done = {} /\ a9.job = D!Idle9
    BY <1>5 DEF DexInv, Young
  <2>8. Young' /\ Numbers'
    BY <1>2, <2>4, <2>7 DEF Young, Numbers
  <2>9. \A u \in DexCallers : call'[u].pc \notin {"data", "post", "wait", "status"}
    BY <1>3, <2>1, <2>2, OthersOutside, OutsideIsNowhere
  <2>10. CommandWritten' /\ CommandStands' /\ D!AnsweredWasDone'
    BY <2>9 DEF CommandWritten, CommandStands, D!AnsweredWasDone
  <2> QED BY <2>5, <2>6, <2>8, <2>10 DEF DexInv
<1> QED BY <1>4, <1>5 DEF D!dex_ready

\* It leaves the mailbox, for the reset if its command was that.
LEMMA Leaves ==
    ASSUME DexInv, NEW t \in DexCallers, D!dex_end(t)
    PROVE  DexInv'
<1>1. DexTypes /\ call[t] \in DexCalls
  BY DEF DexInv, DexTypes
<1>2. /\ call[t].pc = "end"
      /\ box' = [box EXCEPT !.status = "0"]
      /\ UNCHANGED <<a9, done, halt>>
  BY DEF D!dex_end, D!DexAt
<1> DEFINE c == IF call[t].in = D!Reboot THEN [call[t] EXCEPT !.pc = "reset"] ELSE D!Away
<1>3. call' = [call EXCEPT ![t] = c]
  BY DEF D!dex_end
<1>4. c \in DexCalls /\ c.pc \in {"reset", "out"}
  <2>1. CASE call[t].in = D!Reboot
    BY <1>1, <2>1 DEF DexCalls, DexPlaces
  <2>2. CASE call[t].in # D!Reboot
    BY <2>2, IdleIsCommand DEF D!Away
  <2> QED BY <2>1, <2>2
<1>5. call[t].pc \in Inside /\ c.pc \notin Inside
  BY <1>2, <1>4 DEF Inside
<1>6. halt' \in [done : BOOLEAN, pulled : BOOLEAN] /\ (halt.pulled => halt'.pulled)
  BY <1>1, <1>2, HaltKept
<1> HIDE DEF c
<1> QED BY <1>2, <1>3, <1>4, <1>5, <1>6, StaysOutside DEF SameWords

LEMMA NextDex == DexInv /\ [D!DexNext]_dex => DexInv'
<1> SUFFICES ASSUME DexInv, [D!DexNext]_dex PROVE DexInv'
  OBVIOUS
<1>1. DexTypes
  BY DEF DexInv
<1>2. CASE UNCHANGED dex
  <2>1. UNCHANGED <<box, dex_mutex, call, a9, done, halt>>
    BY <1>2 DEF dex
  <2> QED BY <1>1, <2>1, NobodyMoves, HaltKept
<1>3. ASSUME NEW t \in DexCallers, D!Calling(t) \/ D!wait_times_out(t) PROVE DexInv'
  <2>1. CASE D!dex_acquire(t)
    BY <2>1, MovesWithin DEF D!dex_acquire, SameWords
  <2>2. CASE D!wait_times_out(t)
    <3>1. call[t].pc \in Inside
      BY <2>2 DEF D!wait_times_out, D!DexAt, Inside
    <3> QED BY <2>2, <3>1, MovesWithin DEF D!wait_times_out, SameWords
  <2>3. CASE D!read_status(t)
    <3>1. call[t].pc \in Inside
      BY <2>3 DEF D!read_status, D!DexAt, Inside
    <3> QED BY <2>3, <3>1, MovesWithin DEF D!read_status, SameWords
  <2>4. CASE D!reset_line(t)
    <3>1. halt' = [halt EXCEPT !.pulled = TRUE] /\ UNCHANGED <<box, dex_mutex, call, a9, done>>
      BY <2>4 DEF D!reset_line
    <3>2. halt' \in [done : BOOLEAN, pulled : BOOLEAN] /\ (halt.pulled => halt'.pulled)
      BY <1>1, <3>1, HaltKept
    <3> QED BY <3>1, <3>2, NobodyMoves
  <2> QED BY <1>3, <2>1, <2>2, <2>3, <2>4, Readies, Writes, Posts, SeesAnswer, Leaves DEF D!Calling
<1> QED BY <1>2, <1>3, Calls, PowersOff, Answers DEF D!DexNext

-----------------------------------------------------------------------------
(* The USB device controller                                               *)

Bringing == {"clocks off", "clocks on", "clocks off again", "clocks on again", "reset",
             "control endpoint"}
Starting == {"device strings", "interface string", "configuration", "handler", "enable",
             "unmask", "run"}
Endpoints == (0 .. MaxEndpoint) \X {"in", "out"}
Wording == ToSet(Strings) \cup {"interface", "languages"}
Named == [string : Wording, index : Nat]
Described == {"STRING", "DEVICE", "CONFIGURATION"} \X Nat
Descriptors == [tag : Described, says : Wording \cup Seq(Named)]
LanguagesTag == <<"STRING", 0>>
DeviceTag == <<"DEVICE", 0>>
ConfigurationTag == <<"CONFIGURATION", 0>>

Registered == ToSet(desc_list)
HasTag(tag) == \E d \in Registered : d.tag = tag

UsbTypes ==
    /\ the_device \in BOOLEAN
    /\ desc_list \in Seq(Descriptors) /\ desc \in Seq(Named)
    /\ next_string_id \in Nat \ {0}
    /\ ept_list \in Seq(Endpoints)
    /\ ept_alloc_table \subseteq Endpoints
    /\ bringup \in Bringing \cup Starting \cup {"out", "mask", "stop"}

\* The controller is brought up once, and from then on it has its clocks and the
\* descriptor of the languages.
Brought ==
    /\ ~the_device => bringup \in Bringing \cup {"out"} /\ ~unmasked /\ ept_list = <<>>
    /\ bringup \in Bringing => ~the_device
    /\ bringup \in {"reset", "control endpoint"} => usb_clocks
    /\ the_device => usb_clocks /\ HasTag(LanguagesTag)

\* What is there at each step of a start.
Started ==
    /\ bringup \in Starting => the_device /\ the_gadget # NULL
    /\ bringup \in Starting \ {"device strings"} => HasTag(DeviceTag)
    /\ bringup \in {"handler", "enable", "unmask", "run"} => HasTag(ConfigurationTag)
    /\ bringup \in {"enable", "unmask", "run"} => int_handler

LetIn == unmasked => /\ the_gadget # NULL /\ int_handler
                     /\ HasTag(DeviceTag) /\ HasTag(ConfigurationTag)

\* Each string that is named with a number is among the registered.
Names(says, among) ==
    \A i \in DOMAIN says :
        says[i].index # 0 =>
            \E d \in among : d.tag = <<"STRING", says[i].index>> /\ d.says = says[i].string

\* The numbers of strings are given once.
Numbered ==
    /\ \A d \in Registered : d.tag[1] = "STRING" => d.tag[2] < next_string_id
    /\ \A d, e \in Registered :
          d.tag = e.tag /\ d.tag[1] = "STRING" /\ d.tag[2] # 0 => d.says = e.says

Spelled ==
    /\ \A d \in Registered : d.tag \in {DeviceTag, ConfigurationTag} => Names(d.says, Registered)
    /\ Names(desc, Registered)

Allocated ==
    /\ {<<0, "in">>, <<0, "out">>} \subseteq ept_alloc_table
    /\ ToSet(ept_list) \subseteq ept_alloc_table
    /\ U!EndpointsApart

UsbInv == UsbTypes /\ Brought /\ Started /\ LetIn /\ Numbered /\ Spelled /\ Allocated

LEMMA Prepended ==
    ASSUME NEW S, NEW s \in Seq(S), NEW e \in S
    PROVE  /\ <<e>> \o s \in Seq(S)
           /\ ToSet(<<e>> \o s) = ToSet(s) \cup {e}
<1> DEFINE t == <<e>> \o s
<1>1. /\ t \in Seq(S) /\ Len(t) = Len(s) + 1 /\ t[1] = e
      /\ \A i \in 1 .. Len(s) : t[i + 1] = s[i]
  OBVIOUS
<1>2. DOMAIN t = 1 .. Len(s) + 1 /\ DOMAIN s = 1 .. Len(s) /\ Len(s) \in Nat
  BY <1>1
<1> HIDE DEF t
<1>3. \A i \in DOMAIN t : t[i] \in ToSet(s) \cup {e}
  <2> SUFFICES ASSUME NEW i \in DOMAIN t, i # 1 PROVE t[i] \in ToSet(s)
    BY <1>1
  <2>1. i - 1 \in 1 .. Len(s) /\ i = (i - 1) + 1
    BY <1>2
  <2> QED BY <1>1, <1>2, <2>1 DEF ToSet
<1>4. \A i \in DOMAIN s : s[i] \in ToSet(t)
  <2> SUFFICES ASSUME NEW i \in DOMAIN s PROVE s[i] \in ToSet(t)
    OBVIOUS
  <2>1. i + 1 \in DOMAIN t /\ t[i + 1] = s[i]
    BY <1>1, <1>2
  <2> QED BY <2>1 DEF ToSet
<1>5. e \in ToSet(t)
  BY <1>1, <1>2 DEF ToSet
<1>6. ToSet(t) = ToSet(s) \cup {e}
  BY <1>3, <1>4, <1>5 DEF ToSet
<1> QED BY <1>1, <1>6 DEF t

LEMMA LeastNumber ==
    ASSUME NEW S, S \subseteq Nat, S # {}
    PROVE  \E i \in S : \A j \in S : i <= j
<1>1. \E i \in S : \A j \in S : ~ (<<j, i>> \in OpToRel(<, Nat))
  BY WFMin, NatLessThanWellFounded, Zenon
<1>2. PICK i \in S : \A j \in S : ~ (<<j, i>> \in OpToRel(<, Nat))
  BY <1>1
<1>3. \A j \in S : ~ (j < i)
  BY <1>2 DEF OpToRel
<1> QED BY <1>3

LEMMA HavingIsRegistered ==
    ASSUME UsbTypes, NEW tag
    PROVE  /\ U!Having(tag) \subseteq Nat
           /\ (U!Having(tag) # {}) = HasTag(tag)
<1>1. DOMAIN desc_list \subseteq Nat
  BY DEF UsbTypes
<1> QED BY <1>1 DEF U!Having, HasTag, Registered, ToSet

LEMMA FoundIsRegistered ==
    ASSUME UsbTypes, NEW tag, HasTag(tag)
    PROVE  U!Found(tag) \in Registered /\ U!Found(tag).tag = tag
<1>1. U!Having(tag) \subseteq Nat /\ U!Having(tag) # {}
  BY HavingIsRegistered
<1>2. \E i \in U!Having(tag) : \A j \in U!Having(tag) : i <= j
  BY <1>1, LeastNumber
<1> DEFINE k == CHOOSE i \in U!Having(tag) : \A j \in U!Having(tag) : i <= j
<1>3. k \in U!Having(tag) /\ U!Found(tag) = desc_list[k]
  BY <1>2 DEF U!Found
<1> HIDE DEF k
<1> QED BY <1>3 DEF U!Having, Registered, ToSet

LEMMA UsbInvServes == UsbInv => UsbServed
<1> SUFFICES ASSUME UsbInv PROVE UsbServed
  OBVIOUS
<1>1. UsbTypes
  BY DEF UsbInv
<1>2. U!ServedWhenReady
  <2> SUFFICES ASSUME unmasked
               PROVE  /\ int_handler /\ usb_clocks /\ the_gadget # NULL
                      /\ \A tag \in {<<"STRING", 0>>, <<"DEVICE", 0>>, <<"CONFIGURATION", 0>>} :
                             U!Having(tag) # {}
    BY DEF U!ServedWhenReady
  <2>1. the_device
    BY DEF UsbInv, Brought
  <2>2. usb_clocks /\ HasTag(LanguagesTag)
    BY <2>1 DEF UsbInv, Brought
  <2>3. int_handler /\ the_gadget # NULL /\ HasTag(DeviceTag) /\ HasTag(ConfigurationTag)
    BY DEF UsbInv, LetIn
  <2>4. \A tag : HasTag(tag) => U!Having(tag) # {}
    BY <1>1, HavingIsRegistered
  <2> QED BY <2>2, <2>3, <2>4 DEF LanguagesTag, DeviceTag, ConfigurationTag
<1>3. U!StringsFound
  <2> SUFFICES ASSUME NEW tag \in {<<"DEVICE", 0>>, <<"CONFIGURATION", 0>>}, U!Having(tag) # {},
                      NEW i \in DOMAIN U!Found(tag).says, U!Found(tag).says[i].index # 0
               PROVE  U!Found(<<"STRING", U!Found(tag).says[i].index>>).says
                          = U!Found(tag).says[i].string
    BY DEF U!StringsFound
  <2> DEFINE name == U!Found(tag).says[i]
             own == <<"STRING", name.index>>
  <2>1. U!Found(tag) \in Registered /\ U!Found(tag).tag = tag
    BY <1>1, HavingIsRegistered, FoundIsRegistered
  <2>2. Names(U!Found(tag).says, Registered)
    BY <2>1 DEF UsbInv, Spelled, DeviceTag, ConfigurationTag
  <2>3. PICK d \in Registered : d.tag = own /\ d.says = name.string
    BY <2>2 DEF Names
  <2>4. U!Found(own) \in Registered /\ U!Found(own).tag = own
    BY <1>1, <2>3, FoundIsRegistered DEF HasTag
  <2>5. own[1] = "STRING" /\ own[2] = name.index
    OBVIOUS
  <2> QED BY <2>3, <2>4, <2>5 DEF UsbInv, Numbered
<1> QED BY <1>2, <1>3 DEF UsbInv, Allocated, UsbServed

LEMMA InitUsb == U!UdcStartInit => UsbInv
<1> SUFFICES ASSUME U!UdcStartInit PROVE UsbInv
  OBVIOUS
<1>1. /\ the_device = FALSE /\ desc_list = <<>> /\ next_string_id = 1 /\ desc = <<>>
      /\ ept_alloc_table = {<<0, "in">>, <<0, "out">>} /\ ept_list = <<>>
      /\ unmasked = FALSE /\ bringup = "out"
  BY DEF U!UdcStartInit
<1>2. Registered = {} /\ ToSet(ept_list) = {}
  BY <1>1 DEF Registered, ToSet
<1>3. ept_alloc_table \subseteq Endpoints
  <2>1. 0 \in 0 .. MaxEndpoint
    BY UsbAssumption DEF UsbAssumption
  <2> QED BY <1>1, <2>1 DEF Endpoints
<1>4. UsbTypes
  <2>1. desc_list \in Seq(Descriptors) /\ desc \in Seq(Named) /\ ept_list \in Seq(Endpoints)
    BY <1>1
  <2>2. next_string_id \in Nat \ {0}
    BY <1>1
  <2>3. the_device \in BOOLEAN
    BY <1>1, Zenon
  <2>4. bringup \in Bringing \cup Starting \cup {"out", "mask", "stop"}
    BY <1>1
  <2> QED BY <1>3, <2>1, <2>2, <2>3, <2>4, Zenon DEF UsbTypes
<1>5. Brought /\ Started /\ LetIn
  BY <1>1 DEF Brought, Started, LetIn, Bringing, Starting
<1>6. Numbered /\ Spelled /\ Allocated
  BY <1>1, <1>2 DEF Numbered, Spelled, Names, Allocated, U!EndpointsApart
<1> QED BY <1>4, <1>5, <1>6 DEF UsbInv

LEMMA Registers ==
    ASSUME UsbTypes, NEW d \in Descriptors, U!udc_descriptor_register(d)
    PROVE  desc_list' \in Seq(Descriptors) /\ Registered' = Registered \cup {d}
<1>1. desc_list \in Seq(Descriptors) /\ desc_list' = <<d>> \o desc_list
  BY DEF UsbTypes, U!udc_descriptor_register
<1>2. /\ <<d>> \o desc_list \in Seq(Descriptors)
      /\ ToSet(<<d>> \o desc_list) = ToSet(desc_list) \cup {d}
  BY <1>1, Prepended
<1> QED BY <1>1, <1>2, Zenon DEF Registered

LEMMA NamesStay ==
    ASSUME NEW says, NEW few, NEW many, few \subseteq many, Names(says, few)
    PROVE  Names(says, many)
BY DEF Names

LEMMA TagsStay ==
    ASSUME Registered \subseteq Registered'
    PROVE  \A tag : HasTag(tag) => HasTag(tag)'
BY DEF HasTag

\* A string is described: it is given the next number, or none.
LEMMA DescribesString ==
    ASSUME UsbInv, NEW string \in Wording, U!udc_string_desc_alloc(string)
    PROVE  /\ desc_list' \in Seq(Descriptors) /\ desc' \in Seq(Named)
           /\ next_string_id' \in Nat \ {0}
           /\ Registered \subseteq Registered'
           /\ Numbered' /\ Spelled'
<1>1. /\ UsbTypes /\ desc_list \in Seq(Descriptors) /\ desc \in Seq(Named)
      /\ next_string_id \in Nat \ {0}
  BY DEF UsbInv, UsbTypes
<1>2. Registered \subseteq Descriptors
  BY <1>1 DEF Registered, ToSet
<1>3. CASE /\ U!udc_descriptor_register(U!Descriptor("STRING", next_string_id, string))
           /\ desc' = Append(desc, [string |-> string, index |-> next_string_id])
           /\ next_string_id' = U!NextId
  <2> DEFINE d == U!Descriptor("STRING", next_string_id, string)
             named == [string |-> string, index |-> next_string_id]
  <2>1. /\ d \in Descriptors /\ d.tag = <<"STRING", next_string_id>> /\ d.says = string
        /\ d.tag[1] = "STRING" /\ d.tag[2] = next_string_id
        /\ d.tag \notin {DeviceTag, ConfigurationTag}
    BY <1>1 DEF U!Descriptor, Descriptors, Described, DeviceTag, ConfigurationTag
  <2>2. named \in Named /\ named.string = string /\ named.index = next_string_id
    BY <1>1 DEF Named
  <2>3. U!udc_descriptor_register(d) /\ desc' = Append(desc, named)
    BY <1>3
  <2> HIDE DEF d, named
  <2>4. desc_list' \in Seq(Descriptors) /\ Registered' = Registered \cup {d}
    BY <1>1, <2>1, <2>3, Registers
  <2>5. next_string_id' = next_string_id + 1 /\ next_string_id' \in Nat \ {0}
    BY <1>1, <1>3 DEF U!NextId
  <2>6. desc' \in Seq(Named)
    BY <1>1, <2>2, <2>3
  <2>7. \A e \in Registered : e.tag[1] = "STRING" =>
            e.tag[2] \in Nat /\ e.tag[2] < next_string_id /\ e.tag # d.tag
    <3> SUFFICES ASSUME NEW e \in Registered, e.tag[1] = "STRING"
                 PROVE  e.tag[2] \in Nat /\ e.tag[2] < next_string_id /\ e.tag # d.tag
      OBVIOUS
    <3>1. e.tag[2] \in Nat
      BY <1>2 DEF Descriptors, Described
    <3>2. e.tag[2] < next_string_id
      BY DEF UsbInv, Numbered
    <3> QED BY <1>1, <2>1, <3>1, <3>2
  <2>8. Numbered'
    <3>1. \A e \in Registered' : e.tag[1] = "STRING" => e.tag[2] < next_string_id'
      BY <1>1, <2>1, <2>4, <2>5, <2>7
    <3>2. \A e, f \in Registered' :
             e.tag = f.tag /\ e.tag[1] = "STRING" /\ e.tag[2] # 0 => e.says = f.says
      <4> SUFFICES ASSUME NEW e \in Registered', NEW f \in Registered',
                          e.tag = f.tag, e.tag[1] = "STRING", e.tag[2] # 0
                   PROVE  e.says = f.says
        OBVIOUS
      <4>1. CASE e = d \/ f = d
        BY <2>4, <2>7, <4>1
      <4>2. CASE e \in Registered /\ f \in Registered
        BY <4>2 DEF UsbInv, Numbered
      <4> QED BY <2>4, <4>1, <4>2
    <3> QED BY <3>1, <3>2 DEF Numbered
  <2>9. Names(desc, Registered')
    BY <2>4, NamesStay DEF UsbInv, Spelled
  <2>10. Names(desc', Registered')
    <3> SUFFICES ASSUME NEW i \in DOMAIN desc', desc'[i].index # 0
                 PROVE  \E e \in Registered' :
                           e.tag = <<"STRING", desc'[i].index>> /\ e.says = desc'[i].string
      BY DEF Names
    <3>1. CASE i \in DOMAIN desc
      <4>1. desc'[i] = desc[i]
        BY <1>1, <2>2, <2>3, <3>1
      <4> QED BY <2>9, <3>1, <4>1 DEF Names
    <3>2. CASE i \notin DOMAIN desc
      <4>1. desc'[i] = named
        BY <1>1, <2>2, <2>3, <3>2
      <4> QED BY <2>1, <2>2, <2>4, <4>1
    <3> QED BY <3>1, <3>2
  <2>11. Spelled'
    <3> SUFFICES ASSUME NEW e \in Registered', e.tag \in {DeviceTag, ConfigurationTag}
                 PROVE  Names(e.says, Registered')
      BY <2>10 DEF Spelled
    <3>1. e \in Registered
      BY <2>1, <2>4
    <3> QED BY <2>4, <3>1, NamesStay DEF UsbInv, Spelled
  <2> QED BY <2>4, <2>5, <2>6, <2>8, <2>11
<1>4. CASE /\ desc' = Append(desc, [string |-> string, index |-> 0])
           /\ UNCHANGED <<desc_list, next_string_id>>
  <2> DEFINE named == [string |-> string, index |-> 0]
  <2>1. named \in Named /\ named.index = 0 /\ desc' = Append(desc, named)
    BY <1>4 DEF Named
  <2> HIDE DEF named
  <2>2. desc' \in Seq(Named) /\ Registered' = Registered
    BY <1>1, <1>4, <2>1 DEF Registered
  <2>3. Numbered'
    BY <1>4, <2>2 DEF UsbInv, Numbered
  <2>4. Names(desc', Registered')
    <3> SUFFICES ASSUME NEW i \in DOMAIN desc', desc'[i].index # 0
                 PROVE  i \in DOMAIN desc /\ desc'[i] = desc[i]
      BY <2>2 DEF Names, UsbInv, Spelled
    <3> QED BY <1>1, <2>1
  <2>5. Spelled'
    BY <2>2, <2>4 DEF UsbInv, Spelled
  <2> QED BY <1>1, <1>4, <2>2, <2>3, <2>5
<1> QED BY <1>3, <1>4 DEF U!udc_string_desc_alloc

\* A descriptor that is not a string, or the languages, joins the list.
LEMMA DescribesAll ==
    ASSUME UsbInv, NEW d \in Descriptors, U!udc_descriptor_register(d),
           d.tag[1] # "STRING" \/ d.tag[2] = 0,
           d.tag \in {DeviceTag, ConfigurationTag} => Names(d.says, Registered),
           UNCHANGED next_string_id, desc' = desc \/ desc' = <<>>
    PROVE  /\ desc_list' \in Seq(Descriptors) /\ desc' \in Seq(Named)
           /\ Registered' = Registered \cup {d}
           /\ Numbered' /\ Spelled'
<1>1. UsbTypes /\ desc \in Seq(Named) /\ next_string_id \in Nat \ {0}
  BY DEF UsbInv, UsbTypes
<1>2. desc_list' \in Seq(Descriptors) /\ Registered' = Registered \cup {d}
  BY <1>1, Registers
<1>3. Numbered'
  <2>1. \A e \in Registered' : e.tag[1] = "STRING" => e.tag[2] < next_string_id'
    BY <1>1, <1>2 DEF UsbInv, Numbered
  <2>2. \A e, f \in Registered' :
           e.tag = f.tag /\ e.tag[1] = "STRING" /\ e.tag[2] # 0 => e.says = f.says
    BY <1>2 DEF UsbInv, Numbered
  <2> QED BY <2>1, <2>2 DEF Numbered
<1>4. Names(desc', Registered')
  <2>1. CASE desc' = desc
    BY <1>2, <2>1, NamesStay DEF UsbInv, Spelled
  <2>2. CASE desc' = <<>>
    BY <2>2 DEF Names
  <2> QED BY <2>1, <2>2
<1>5. Spelled'
  <2> SUFFICES ASSUME NEW e \in Registered', e.tag \in {DeviceTag, ConfigurationTag}
               PROVE  Names(e.says, Registered')
    BY <1>4 DEF Spelled
  <2>1. Names(e.says, Registered)
    BY <1>2 DEF UsbInv, Spelled
  <2> QED BY <1>2, <2>1, NamesStay
<1>6. desc' \in Seq(Named)
  <2>1. <<>> \in Seq(Named)
    OBVIOUS
  <2> QED BY <1>1, <2>1
<1> QED BY <1>2, <1>3, <1>5, <1>6

LEMMA DescribesNothing ==
    ASSUME UsbInv, UNCHANGED <<desc_list, next_string_id>>, desc' = desc \/ desc' = <<>>
    PROVE  /\ desc_list' \in Seq(Descriptors) /\ desc' \in Seq(Named)
           /\ next_string_id' \in Nat \ {0}
           /\ Registered' = Registered /\ Numbered' /\ Spelled'
<1>1. desc_list \in Seq(Descriptors) /\ desc \in Seq(Named) /\ next_string_id \in Nat \ {0}
  BY DEF UsbInv, UsbTypes
<1>2. <<>> \in Seq(Named) /\ Names(<<>>, Registered)
  BY DEF Names
<1>3. Registered' = Registered
  BY DEF Registered
<1>4. Numbered'
  BY <1>3 DEF UsbInv, Numbered
<1>5. Names(desc', Registered)
  BY <1>2 DEF UsbInv, Spelled
<1>6. Spelled'
  BY <1>3, <1>5 DEF UsbInv, Spelled
<1> QED BY <1>1, <1>2, <1>3, <1>4, <1>6

LEMMA EndpointsStay ==
    ASSUME UsbInv, UNCHANGED <<ept_alloc_table, ept_list>>
    PROVE  /\ ept_list' \in Seq(Endpoints) /\ ept_alloc_table' \subseteq Endpoints
           /\ Allocated'
<1>1. Allocated'
  BY DEF UsbInv, Allocated, U!EndpointsApart
<1> QED BY <1>1 DEF UsbInv, UsbTypes

\* What is put before a list without repetitions and is not in it leaves it so.
LEMMA PrependedApart ==
    ASSUME NEW S, NEW s \in Seq(S), NEW e \in S, e \notin ToSet(s), IsInjective(s)
    PROVE  IsInjective(<<e>> \o s)
<1> DEFINE t == <<e>> \o s
<1>1. /\ t \in Seq(S) /\ Len(t) = Len(s) + 1 /\ t[1] = e
      /\ \A i \in 1 .. Len(s) : t[i + 1] = s[i]
  OBVIOUS
<1>2. DOMAIN t = 1 .. Len(s) + 1 /\ DOMAIN s = 1 .. Len(s) /\ Len(s) \in Nat
  BY <1>1
<1> HIDE DEF t
<1>3. \A i \in DOMAIN t : i # 1 => /\ i - 1 \in DOMAIN s /\ t[i] = s[i - 1]
                                   /\ t[i] \in ToSet(s)
  <2> SUFFICES ASSUME NEW i \in DOMAIN t, i # 1
               PROVE  i - 1 \in DOMAIN s /\ t[i] = s[i - 1] /\ t[i] \in ToSet(s)
    OBVIOUS
  <2>1. i - 1 \in 1 .. Len(s) /\ i = (i - 1) + 1
    BY <1>2
  <2>2. i - 1 \in DOMAIN s /\ t[i] = s[i - 1]
    BY <1>1, <1>2, <2>1
  <2> QED BY <2>2 DEF ToSet
<1> SUFFICES ASSUME NEW i \in DOMAIN t, NEW j \in DOMAIN t, t[i] = t[j] PROVE i = j
  BY DEF t, IsInjective
<1>4. CASE i = 1 \/ j = 1
  BY <1>1, <1>3, <1>4
<1>5. CASE i # 1 /\ j # 1
  <2>1. i - 1 = j - 1
    BY <1>3, <1>5 DEF IsInjective
  <2> QED BY <1>2, <2>1
<1> QED BY <1>4, <1>5

LEMMA EndpointTaken ==
    ASSUME UsbInv, NEW dir \in {"in", "out"}, U!udc_endpoint_alloc(dir)
    PROVE  UsbInv'
<1>1. /\ UsbTypes /\ ept_list \in Seq(Endpoints) /\ ept_alloc_table \subseteq Endpoints
  BY DEF UsbInv, UsbTypes
<1>2. /\ bringup = "out" /\ bringup' = "out" /\ the_device
      /\ UNCHANGED <<the_device, the_gadget, desc_list, next_string_id, desc, usb_clocks,
                     int_handler, USB_USBINTR, unmasked, pullup>>
  BY DEF U!udc_endpoint_alloc, U!Enter, U!Steps, U!control
<1>3. PICK n \in U!FreeEndpoints(dir) :
          ept_list' = <<<<n, dir>>>> \o ept_list /\ ept_alloc_table' = U!Taken(<<n, dir>>)
  <2> DEFINE free == U!FreeEndpoints(dir)
             k == CHOOSE n \in free : \A o \in free : n <= o
  <2>1. free \subseteq Nat /\ free # {}
    <3>1. free # {}
      BY DEF U!udc_endpoint_alloc
    <3>2. U!FreeEndpoints(dir) \subseteq 1 .. MaxEndpoint
      BY DEF U!FreeEndpoints
    <3> QED BY <3>1, <3>2, UsbAssumption DEF UsbAssumption
  <2>2. ept_list' = <<<<k, dir>>>> \o ept_list /\ ept_alloc_table' = U!Taken(<<k, dir>>)
    BY DEF U!udc_endpoint_alloc
  <2>3. \E n \in free : \A o \in free : n <= o
    <3> HIDE DEF free
    <3> QED BY <2>1, LeastNumber
  <2>4. k \in free
    BY <2>3
  <2> QED BY <2>2, <2>4
<1> DEFINE e == <<n, dir>>
<1>4. e \in Endpoints /\ e \notin ept_alloc_table
  BY UsbAssumption DEF UsbAssumption, U!FreeEndpoints, Endpoints
<1>5. ept_list' = <<e>> \o ept_list /\ ept_alloc_table' = ept_alloc_table \cup {e}
  BY <1>3 DEF U!Taken
<1> HIDE DEF e
<1>6. ept_list' \in Seq(Endpoints) /\ ToSet(ept_list') = ToSet(ept_list) \cup {e}
  BY <1>1, <1>4, <1>5, Prepended
<1>7. IsInjective(ept_list) /\ ToSet(ept_list) \subseteq ept_alloc_table
  BY DEF UsbInv, Allocated, U!EndpointsApart, IsInjective
<1>8. U!EndpointsApart'
  <2>1. e \notin ToSet(ept_list)
    BY <1>4, <1>7
  <2>2. IsInjective(<<e>> \o ept_list)
    BY <1>1, <1>4, <1>7, <2>1, PrependedApart
  <2>3. IsInjective(ept_list')
    BY <1>5, <2>2
  <2> QED BY <2>3 DEF U!EndpointsApart, IsInjective
<1>9. Allocated'
  BY <1>5, <1>6, <1>7, <1>8 DEF UsbInv, Allocated
<1>10. /\ desc_list' \in Seq(Descriptors) /\ desc' \in Seq(Named) /\ next_string_id' \in Nat \ {0}
       /\ Registered' = Registered /\ Numbered' /\ Spelled'
  BY <1>2, DescribesNothing
<1>11. UsbTypes'
  <2>1. ept_alloc_table' \subseteq Endpoints
    BY <1>1, <1>4, <1>5
  <2> QED BY <1>1, <1>2, <1>6, <1>10, <2>1 DEF UsbTypes
<1>12. Brought' /\ Started' /\ LetIn'
  <2>1. \A tag : HasTag(tag) => HasTag(tag)'
    BY <1>10, TagsStay
  <2>2. "out" \notin Bringing /\ "out" \notin Starting
    BY DEF Bringing, Starting
  <2> QED BY <1>2, <2>1, <2>2 DEF UsbInv, Brought, Started, LetIn
<1> QED BY <1>9, <1>10, <1>11, <1>12 DEF UsbInv

\* A step that leaves the descriptors and the endpoints alone.
LEMMA ListsStay ==
    ASSUME UsbInv, UNCHANGED <<the_device, desc_list, next_string_id, ept_alloc_table, ept_list>>,
           desc' = desc \/ desc' = <<>>,
           bringup' \in Bringing \cup Starting \cup {"out", "mask", "stop"},
           Brought', Started', LetIn'
    PROVE  UsbInv'
<1>1. /\ desc_list' \in Seq(Descriptors) /\ desc' \in Seq(Named) /\ next_string_id' \in Nat \ {0}
      /\ Numbered' /\ Spelled'
  BY DescribesNothing
<1>2. ept_list' \in Seq(Endpoints) /\ ept_alloc_table' \subseteq Endpoints /\ Allocated'
  BY EndpointsStay
<1>3. UsbTypes'
  BY <1>1, <1>2 DEF UsbInv, UsbTypes
<1> QED BY <1>1, <1>2, <1>3 DEF UsbInv

LEMMA ControlSteps ==
    ASSUME UsbInv, UNCHANGED U!lists,
           \/ U!udc_init \/ U!msm_otg_xceiv_off \/ U!msm_otg_xceiv_on \/ U!udc_reset
           \/ U!start_handler \/ U!start_enable \/ U!start_unmask \/ U!enable_pullup
           \/ U!udc_stop \/ U!stop_mask \/ U!disable_pullup
    PROVE  UsbInv'
<1>1. UNCHANGED <<the_device, the_gadget, desc_list, next_string_id, desc, ept_alloc_table, ept_list>>
  BY DEF U!lists
<1>2. \A tag : HasTag(tag)' <=> HasTag(tag)
  BY <1>1 DEF HasTag, Registered
<1>3. UsbTypes /\ Brought /\ Started /\ LetIn
  BY DEF UsbInv
<1>4. bringup' \in Bringing \cup Starting \cup {"out", "mask", "stop"}
  BY DEF U!udc_init, U!msm_otg_xceiv_off, U!msm_otg_xceiv_on, U!udc_reset, U!start_handler,
         U!start_enable, U!start_unmask, U!enable_pullup, U!udc_stop, U!stop_mask,
         U!disable_pullup, U!Enter, U!Steps, Bringing, Starting
<1>5. Brought' /\ Started' /\ LetIn'
  <2> USE <1>1, <1>2, <1>3 DEF Brought, Started, LetIn, Bringing, Starting, U!Steps
  <2>1. CASE U!udc_init
    BY <2>1 DEF U!udc_init, U!Enter, U!control
  <2>2. CASE U!msm_otg_xceiv_off
    BY <2>2 DEF U!msm_otg_xceiv_off
  <2>3. CASE U!msm_otg_xceiv_on
    BY <2>3 DEF U!msm_otg_xceiv_on
  <2>4. CASE U!udc_reset
    BY <2>4 DEF U!udc_reset
  <2>5. CASE U!start_handler
    BY <2>5 DEF U!start_handler
  <2>6. CASE U!start_enable
    BY <2>6 DEF U!start_enable
  <2>7. CASE U!start_unmask
    BY <2>7 DEF U!start_unmask
  <2>8. CASE U!enable_pullup
    BY <2>8 DEF U!enable_pullup
  <2>9. CASE U!udc_stop
    BY <2>9 DEF U!udc_stop, U!Enter
  <2>10. CASE U!stop_mask
    BY <2>10 DEF U!stop_mask
  <2>11. CASE U!disable_pullup
    BY <2>11 DEF U!disable_pullup
  <2> QED BY <2>1, <2>2, <2>3, <2>4, <2>5, <2>6, <2>7, <2>8, <2>9, <2>10, <2>11
<1> QED BY <1>1, <1>4, <1>5, ListsStay

LEMMA DescribingSteps ==
    ASSUME UsbInv,
           \/ U!device_string \/ U!device_descriptor \/ U!interface_string
           \/ U!configuration_descriptor
    PROVE  UsbInv'
<1>1. /\ UNCHANGED <<the_device, the_gadget, ept_alloc_table, ept_list>>
      /\ UNCHANGED <<usb_clocks, int_handler, USB_USBINTR, unmasked, pullup>>
  BY DEF U!device_string, U!device_descriptor, U!interface_string, U!configuration_descriptor,
         U!control
<1>2. /\ ept_list' \in Seq(Endpoints) /\ ept_alloc_table' \subseteq Endpoints /\ Allocated'
  BY <1>1, EndpointsStay
<1>3. UsbTypes /\ desc \in Seq(Named) /\ next_string_id \in Nat \ {0}
  BY DEF UsbInv, UsbTypes
<1>4. ASSUME desc_list' \in Seq(Descriptors), desc' \in Seq(Named), next_string_id' \in Nat \ {0},
             Registered \subseteq Registered', Numbered', Spelled',
             bringup \in Starting, bringup' \in Starting,
             bringup = "device strings" => bringup' = "device strings" \/ HasTag(DeviceTag)',
             bringup' \notin {"enable", "unmask", "run"},
             bringup' # "handler" \/ HasTag(ConfigurationTag)'
      PROVE  UsbInv'
  <2>1. UsbTypes'
    BY <1>1, <1>2, <1>3, <1>4 DEF UsbTypes
  <2>2. \A tag : HasTag(tag) => HasTag(tag)'
    BY <1>4, TagsStay
  <2>3. bringup \notin Bringing /\ bringup' \notin Bringing /\ bringup' \notin {"reset", "control endpoint"}
    BY <1>4 DEF Bringing, Starting
  <2>4. Brought'
    BY <1>1, <1>4, <2>2, <2>3 DEF UsbInv, Brought, Started
  <2>5. Started'
    <3>1. the_device' /\ the_gadget' # NULL
      BY <1>1, <1>4 DEF UsbInv, Started
    <3>2. bringup' # "device strings" => HasTag(DeviceTag)'
      BY <1>4, <2>2 DEF UsbInv, Started
    <3> QED BY <1>4, <3>1, <3>2 DEF Started
  <2>6. LetIn'
    BY <1>1, <2>2 DEF UsbInv, LetIn
  <2> QED BY <1>2, <1>4, <2>1, <2>4, <2>5, <2>6 DEF UsbInv
<1>5. CASE U!device_string
  <2>1. /\ bringup = "device strings" /\ bringup' = "device strings"
        /\ Len(desc) < Len(Strings)
        /\ U!udc_string_desc_alloc(Strings[Len(desc) + 1])
    BY <1>5 DEF U!device_string
  <2>2. Strings[Len(desc) + 1] \in Wording
    <3>1. Strings \in Seq(STRING)
      BY UsbAssumption DEF UsbAssumption
    <3>2. Len(desc) \in Nat /\ Len(Strings) \in Nat
      BY <1>3, <3>1
    <3>3. Len(desc) < Len(Strings)
      BY <1>5 DEF U!device_string
    <3>4. Len(desc) + 1 \in DOMAIN Strings
      BY <3>1, <3>2, <3>3
    <3> QED BY <3>4 DEF Wording, ToSet
  <2>3. /\ desc_list' \in Seq(Descriptors) /\ desc' \in Seq(Named) /\ next_string_id' \in Nat \ {0}
        /\ Registered \subseteq Registered' /\ Numbered' /\ Spelled'
    BY <2>1, <2>2, DescribesString
  <2> QED BY <1>4, <2>1, <2>3 DEF Starting
<1>6. CASE U!interface_string
  <2>1. /\ bringup = "interface string" /\ bringup' = "configuration"
        /\ U!udc_string_desc_alloc("interface") /\ "interface" \in Wording
    BY <1>6 DEF U!interface_string, U!Steps, Wording
  <2>2. /\ desc_list' \in Seq(Descriptors) /\ desc' \in Seq(Named) /\ next_string_id' \in Nat \ {0}
        /\ Registered \subseteq Registered' /\ Numbered' /\ Spelled'
    BY <2>1, DescribesString
  <2> QED BY <1>4, <2>1, <2>2 DEF Starting
<1>7. CASE U!device_descriptor
  <2> DEFINE d == U!Descriptor("DEVICE", 0, desc)
  <2>1. /\ d \in Descriptors /\ d.tag = DeviceTag /\ d.tag[1] # "STRING" /\ d.says = desc
    BY <1>3 DEF U!Descriptor, Descriptors, Described, DeviceTag
  <2>2. /\ bringup = "device strings" /\ bringup' = "interface string"
        /\ U!udc_descriptor_register(d) /\ desc' = <<>> /\ UNCHANGED next_string_id
    BY <1>7 DEF U!device_descriptor, U!Steps
  <2> HIDE DEF d
  <2>3. Names(d.says, Registered)
    BY <2>1 DEF UsbInv, Spelled
  <2>4. /\ desc_list' \in Seq(Descriptors) /\ desc' \in Seq(Named)
        /\ Registered' = Registered \cup {d} /\ Numbered' /\ Spelled'
    BY <2>1, <2>2, <2>3, DescribesAll
  <2>5. HasTag(DeviceTag)'
    BY <2>1, <2>4 DEF HasTag, DeviceTag
  <2> QED BY <1>3, <1>4, <2>2, <2>4, <2>5 DEF Starting
<1>8. CASE U!configuration_descriptor
  <2> DEFINE d == U!Descriptor("CONFIGURATION", 0, desc)
  <2>1. /\ d \in Descriptors /\ d.tag = ConfigurationTag /\ d.tag[1] # "STRING" /\ d.says = desc
    BY <1>3 DEF U!Descriptor, Descriptors, Described, ConfigurationTag
  <2>2. /\ bringup = "configuration" /\ bringup' = "handler"
        /\ U!udc_descriptor_register(d) /\ desc' = <<>> /\ UNCHANGED next_string_id
    BY <1>8 DEF U!configuration_descriptor, U!Steps
  <2> HIDE DEF d
  <2>3. Names(d.says, Registered)
    BY <2>1 DEF UsbInv, Spelled
  <2>4. /\ desc_list' \in Seq(Descriptors) /\ desc' \in Seq(Named)
        /\ Registered' = Registered \cup {d} /\ Numbered' /\ Spelled'
    BY <2>1, <2>2, <2>3, DescribesAll
  <2>5. HasTag(ConfigurationTag)'
    BY <2>1, <2>4 DEF HasTag, ConfigurationTag
  <2> QED BY <1>3, <1>4, <2>2, <2>4, <2>5 DEF Starting
<1> QED BY <1>5, <1>6, <1>7, <1>8

\* The bring-up ends with the control endpoint and the languages.
LEMMA InitEnds ==
    ASSUME UsbInv, U!udc_init_ends
    PROVE  UsbInv'
<1> DEFINE d == U!Descriptor("STRING", 0, "languages")
           control == <<<<0, "in">>, <<0, "out">>>>
<1>1. /\ bringup = "control endpoint" /\ bringup' = "out"
      /\ ept_list' = control \o ept_list
      /\ U!udc_descriptor_register(d) /\ the_device'
      /\ UNCHANGED <<the_gadget, next_string_id, desc, ept_alloc_table>>
      /\ UNCHANGED <<usb_clocks, int_handler, USB_USBINTR, unmasked, pullup>>
  BY DEF U!udc_init_ends, U!Steps, U!control
<1>2. UsbTypes /\ Brought /\ Started /\ LetIn /\ Allocated
  BY DEF UsbInv
<1>3. ~the_device /\ ~unmasked /\ ept_list = <<>> /\ usb_clocks
  BY <1>1, <1>2 DEF Brought, Bringing
<1>4. /\ d \in Descriptors /\ d.tag = LanguagesTag /\ d.tag[2] = 0
      /\ d.tag \notin {DeviceTag, ConfigurationTag}
  <2>1. "languages" \in Wording \cup Seq(Named)
    BY DEF Wording
  <2>2. LanguagesTag \in Described
    BY DEF LanguagesTag, Described
  <2> QED BY <2>1, <2>2 DEF U!Descriptor, Descriptors, LanguagesTag, DeviceTag, ConfigurationTag
<1> HIDE DEF d
<1>5. /\ desc_list' \in Seq(Descriptors) /\ desc' \in Seq(Named)
      /\ Registered' = Registered \cup {d} /\ Numbered' /\ Spelled'
  BY <1>1, <1>4, DescribesAll
<1>6. HasTag(LanguagesTag)'
  BY <1>4, <1>5 DEF HasTag, LanguagesTag
<1>7. /\ <<0, "in">> \in Endpoints /\ <<0, "out">> \in Endpoints
      /\ {<<0, "in">>, <<0, "out">>} \subseteq ept_alloc_table
  BY <1>2 DEF UsbTypes, Allocated
<1>8. /\ ept_list' = control /\ ept_list' \in Seq(Endpoints)
      /\ ToSet(ept_list') = {<<0, "in">>, <<0, "out">>}
      /\ U!EndpointsApart'
  <2>1. control \in Seq(Endpoints) /\ Len(control) = 2 /\ DOMAIN control = {1, 2}
        /\ control[1] = <<0, "in">> /\ control[2] = <<0, "out">> /\ control[1] # control[2]
    BY <1>7
  <2>2. control \o <<>> = control
    BY <2>1
  <2> HIDE DEF control
  <2>3. ept_list' = control
    BY <1>1, <1>3, <2>2
  <2> QED BY <2>1, <2>3 DEF ToSet, U!EndpointsApart
<1>9. Allocated'
  BY <1>1, <1>7, <1>8 DEF Allocated
<1>10. UsbTypes'
  <2>1. next_string_id' \in Nat \ {0} /\ ept_alloc_table' \subseteq Endpoints
    BY <1>1, <1>2 DEF UsbTypes
  <2>2. the_device' \in BOOLEAN
    BY DEF U!udc_init_ends
  <2> QED BY <1>1, <1>5, <1>8, <2>1, <2>2 DEF UsbTypes
<1>11. Brought' /\ Started' /\ LetIn'
  <2>1. "out" \notin Bringing /\ "out" \notin Starting
    BY DEF Bringing, Starting
  <2> QED BY <1>1, <1>3, <1>6, <2>1 DEF Brought, Started, LetIn
<1> QED BY <1>5, <1>9, <1>10, <1>11 DEF UsbInv

LEMMA GadgetSteps ==
    ASSUME UsbInv, U!udc_register_gadget \/ U!udc_start
    PROVE  UsbInv'
<1>1. /\ bringup = "out" /\ UNCHANGED <<the_device, desc_list, next_string_id, ept_alloc_table, ept_list>>
      /\ UNCHANGED <<usb_clocks, int_handler, USB_USBINTR, unmasked, pullup>>
      /\ desc' = desc \/ desc' = <<>>
  BY DEF U!udc_register_gadget, U!udc_start, U!Enter, U!Steps, U!control
<1>2. UsbTypes /\ Brought /\ Started /\ LetIn
  BY DEF UsbInv
<1>3. \A tag : HasTag(tag)' <=> HasTag(tag)
  BY <1>1 DEF HasTag, Registered
<1>4. CASE U!udc_register_gadget
  <2>1. bringup' = "out"
    BY <1>4 DEF U!udc_register_gadget, U!Enter, U!Steps
  <2>2. the_gadget' # NULL
    <3>1. PICK i \in ToSet(ept_list), o \in ToSet(ept_list) :
              i[2] = "in" /\ o[2] = "out" /\ the_gadget' = <<i, o>>
      BY <1>4 DEF U!udc_register_gadget, ToSet
    <3>2. ToSet(ept_list) \subseteq Endpoints
      BY <1>2 DEF UsbTypes, ToSet
    <3>3. <<i, o>> \in Endpoints \X Endpoints
      BY <3>1, <3>2
    <3> QED BY <3>1, <3>3, UsbAssumption DEF UsbAssumption, Endpoints
  <2>3. Brought' /\ Started' /\ LetIn'
    BY <1>1, <1>2, <1>3, <2>1, <2>2 DEF Brought, Started, LetIn, Bringing, Starting
  <2> QED BY <1>1, <2>1, <2>3, ListsStay
<1>5. CASE U!udc_start
  <2>1. bringup' = "device strings" /\ the_device /\ the_gadget # NULL /\ UNCHANGED the_gadget
    BY <1>5 DEF U!udc_start, U!Enter, U!Steps
  <2>2. Brought' /\ Started' /\ LetIn'
    BY <1>1, <1>2, <1>3, <2>1 DEF Brought, Started, LetIn, Bringing, Starting
  <2>3. bringup' \in Starting
    BY <2>1 DEF Starting
  <2> QED BY <1>1, <2>2, <2>3, ListsStay
<1> QED BY <1>4, <1>5

LEMMA NextUsb == UsbInv /\ [U!UdcStartNext]_usb => UsbInv'
<1> SUFFICES ASSUME UsbInv, [U!UdcStartNext]_usb PROVE UsbInv'
  OBVIOUS
<1>1. CASE UNCHANGED usb
  <2>1. UNCHANGED <<the_device, the_gadget, desc_list, next_string_id, desc, ept_alloc_table,
                    ept_list, usb_clocks, int_handler, USB_USBINTR, unmasked, pullup, bringup>>
    BY <1>1 DEF usb
  <2>2. \A tag : HasTag(tag)' <=> HasTag(tag)
    BY <2>1 DEF HasTag, Registered
  <2>3. Brought' /\ Started' /\ LetIn'
    BY <2>1, <2>2 DEF UsbInv, Brought, Started, LetIn
  <2> QED BY <2>1, <2>3, ListsStay DEF UsbInv, UsbTypes
<1>2. ASSUME \/ U!udc_init \/ U!msm_otg_xceiv_off \/ U!msm_otg_xceiv_on \/ U!udc_reset
             \/ U!start_handler \/ U!start_enable \/ U!start_unmask \/ U!enable_pullup
             \/ U!udc_stop \/ U!stop_mask \/ U!disable_pullup
      PROVE  UsbInv'
  <2>1. UNCHANGED U!lists
    BY <1>2 DEF U!udc_init, U!msm_otg_xceiv_off, U!msm_otg_xceiv_on, U!udc_reset,
                U!start_handler, U!start_enable, U!start_unmask, U!enable_pullup, U!udc_stop,
                U!stop_mask, U!disable_pullup
  <2> QED BY <1>2, <2>1, ControlSteps
<1> QED BY <1>1, <1>2, DescribingSteps, InitEnds, GadgetSteps, EndpointTaken DEF U!UdcStartNext

-----------------------------------------------------------------------------
(* Keys on pins                                                            *)

KeyPlaces == {"idle", "ack", "val", "pol", "stat", "val2", "sample"}

KeyTypes ==
    /\ in \subseteq Pins /\ int_pos \subseteq Pins /\ int_status \subseteq Pins
    /\ int_en \subseteq Pins /\ key_bitmap \subseteq int_en
    /\ isr \in [at : KeyPlaces, todo : SUBSET Pins, pending : SUBSET Pins, val : SUBSET Pins,
                stat : SUBSET Pins, round : Nat, state : BOOLEAN, n : 0 .. Samples]
    /\ isr.todo \subseteq int_en /\ isr.pending \subseteq int_en

\* What the handler has on its list where it is.
HandlerAt ==
    /\ isr.at = "idle" => isr.todo = {} /\ isr.pending = {}
    /\ isr.at \in {"val", "pol", "stat", "val2"} => isr.todo # {}
    /\ isr.at = "sample" => isr.todo = {} /\ isr.pending # {}

\* The rise of a pin that is low will be latched, or an edge of it is on its way.
LowLatched == \A p \in int_en \ in : p \in int_pos \cup int_status \cup isr.todo

\* The same of the pin whose latch was just cleared, from the moment its polarity
\* is right.
Detected ==
    LET p == K!Min(isr.todo) IN
    /\ isr.at = "pol" /\ p \in isr.val \ in => p \in int_pos \cup int_status
    /\ isr.at \in {"stat", "val2"} /\ p \notin in => p \in int_pos \cup int_status

\* A pin that was low when the handler looked and is high now was latched.
Sampled ==
    LET p == K!Min(isr.pending) IN
    isr.at = "sample" /\ isr.n > 0 /\ ~isr.state /\ p \in in => p \in int_status

\* The release of a key that was posted as held is latched, or on its way.
ReleaseComes == \A p \in key_bitmap \cap in : p \in int_status \cup isr.todo \cup isr.pending

KeysInv == KeyTypes /\ HandlerAt /\ LowLatched /\ Detected /\ Sampled /\ ReleaseComes

\* With one key, the line is up only when it interrupted, and the handler has not
\* cleared the pin yet.
LineKept ==
    K!OneKey /\ K!Line(int_status, int_en) => vic \/ (isr.at = "ack" /\ isr.todo # {})

LEMMA MinIsOne ==
    ASSUME NEW S, S \subseteq Pins, S # {}
    PROVE  K!Min(S) \in S
<1>1. S \subseteq Nat
  BY KeysAssumption DEF KeysAssumption
<1>2. \E i \in S : \A j \in S : i <= j
  BY <1>1, LeastNumber
<1> QED BY <1>2 DEF K!Min

LEMMA KeysWait == KeysInv /\ LineKept => K!NoStuckKey
<1> SUFFICES ASSUME KeysInv, LineKept PROVE K!NoStuckKey
  OBVIOUS
<1>1. K!Quiet => isr.at = "idle" /\ ~vic /\ isr.todo = {} /\ isr.pending = {}
  BY DEF KeysInv, HandlerAt, K!Quiet, K!At
<1>2. K!Quiet => key_bitmap \cap in \subseteq int_status \cap int_en
  BY <1>1 DEF KeysInv, KeyTypes, ReleaseComes
<1>3. K!Settled => key_bitmap \cap in = {}
  BY <1>2 DEF K!Settled, K!LineLost, K!Line
<1>4. K!LineLost => key_bitmap \cap in \subseteq int_status
  BY <1>2 DEF K!LineLost
<1>5. K!OneKey => ~K!LineLost
  BY <1>1 DEF LineKept, K!LineLost
<1> QED BY <1>3, <1>4, <1>5 DEF K!NoStuckKey

LEMMA InitKeys == K!KeyInit => KeysInv /\ LineKept
<1> SUFFICES ASSUME K!KeyInit PROVE KeysInv /\ LineKept
  OBVIOUS
<1>1. Samples \in Nat
  BY KeysAssumption DEF KeysAssumption
<1>2. KeyTypes /\ HandlerAt
  BY <1>1 DEF K!KeyInit, K!Idle, KeyTypes, KeyPlaces, HandlerAt
<1>3. LineKept
  BY DEF K!KeyInit, K!Line, LineKept
<1> QED BY <1>2, <1>3
        DEF K!KeyInit, K!Idle, KeysInv, LowLatched, Detected, Sampled, ReleaseComes

\* A step of the handler that only reads, with what is to be shown of each pin.
LEMMA KeyMoves ==
    ASSUME KeysInv, NEW p \in Pins, K!Move(p)
    PROVE  KeysInv'
<1>1. /\ in' = IF p \in in THEN in \ {p} ELSE in \cup {p}
      /\ int_status' = IF (p \in in') = (p \in int_pos) THEN int_status \cup {p} ELSE int_status
      /\ UNCHANGED <<int_pos, int_en, isr, key_bitmap>>
  BY DEF K!Move
<1>2. int_status \subseteq int_status' /\ int_status' \subseteq int_status \cup {p}
  BY <1>1
<1>3. \A q \in Pins \ {p} : q \in in' <=> q \in in
  BY <1>1
<1>4. p \in in' => p \notin in /\ (p \in int_pos => p \in int_status')
  BY <1>1
<1>5. p \notin in' => p \in in /\ (p \notin int_pos => p \in int_status')
  BY <1>1
<1>6. KeyTypes'
  BY <1>1, <1>2 DEF KeysInv, KeyTypes
<1>7. HandlerAt'
  BY <1>1 DEF KeysInv, HandlerAt
<1>8. LowLatched'
  BY <1>1, <1>2, <1>3, <1>5 DEF KeysInv, KeyTypes, LowLatched
<1>9. Detected'
  <2> DEFINE q == K!Min(isr.todo)
  <2>1. isr.at \in {"pol", "stat", "val2"} => q \in Pins
    BY MinIsOne DEF KeysInv, KeyTypes, HandlerAt
  <2>2. isr' = isr /\ K!Min(isr'.todo) = q
    BY <1>1
  <2> HIDE DEF q
  <2>3. /\ isr.at = "pol" /\ q \in isr.val \ in => q \in int_pos \cup int_status
        /\ isr.at \in {"stat", "val2"} /\ q \notin in => q \in int_pos \cup int_status
    BY DEF KeysInv, Detected, q
  <2>4. /\ isr.at = "pol" /\ q \in isr.val \ in' => q \in int_pos \cup int_status'
        /\ isr.at \in {"stat", "val2"} /\ q \notin in' => q \in int_pos \cup int_status'
    BY <1>2, <1>3, <1>5, <2>1, <2>3
  <2> QED BY <1>1, <2>2, <2>4 DEF Detected
<1>10. Sampled'
  <2> DEFINE q == K!Min(isr.pending)
  <2>1. isr.at = "sample" => q \in int_en /\ q \notin isr.todo
    BY MinIsOne DEF KeysInv, KeyTypes, HandlerAt
  <2>2. isr' = isr /\ K!Min(isr'.pending) = q
    BY <1>1
  <2>3. isr.at = "sample" /\ isr.n > 0 /\ ~isr.state /\ q \in in => q \in int_status
    BY DEF KeysInv, Sampled
  <2> HIDE DEF q
  <2>4. isr.at = "sample" /\ q \notin in => q \in int_pos \cup int_status
    BY <2>1 DEF KeysInv, LowLatched
  <2>5. isr.at = "sample" /\ isr.n > 0 /\ ~isr.state /\ q \in in' => q \in int_status'
    BY <1>2, <1>3, <1>4, <2>1, <2>3, <2>4 DEF KeysInv, KeyTypes
  <2> QED BY <1>1, <2>2, <2>5 DEF Sampled
<1>11. ReleaseComes'
  <2> SUFFICES ASSUME NEW q \in key_bitmap, q \in in'
               PROVE  q \in int_status' \cup isr.todo \cup isr.pending
    BY <1>1 DEF ReleaseComes
  <2>1. CASE q \in in
    BY <1>2, <2>1 DEF KeysInv, ReleaseComes
  <2>2. CASE q \notin in
    <3>1. q = p /\ q \in int_pos \cup int_status \cup isr.todo
      BY <1>3, <2>2 DEF KeysInv, KeyTypes, LowLatched
    <3> QED BY <1>2, <1>4, <3>1
  <2> QED BY <2>1, <2>2
<1> QED BY <1>6, <1>7, <1>8, <1>9, <1>10, <1>11 DEF KeysInv

\* The handler takes note of what is latched, and clears one pin's latch.
LEMMA KeyClears ==
    ASSUME KeysInv,
           K!platform_irq \/ K!msm_gpio_irq_clear \/ \E p \in Pins : K!gpio_keys_init(p)
    PROVE  KeysInv'
<1>1. CASE K!platform_irq
  <2>1. /\ isr.at = "idle" /\ isr' = [K!Idle EXCEPT !.at = "ack", !.todo = int_status \cap int_en]
        /\ UNCHANGED <<in, int_pos, int_status, int_en, key_bitmap>>
    BY <1>1 DEF K!platform_irq, K!At
  <2>2. isr.todo = {} /\ isr.pending = {}
    BY <2>1 DEF KeysInv, HandlerAt
  <2>3. /\ isr'.at = "ack" /\ isr'.todo = int_status \cap int_en /\ isr'.pending = {}
        /\ isr' \in [at : KeyPlaces, todo : SUBSET Pins, pending : SUBSET Pins, val : SUBSET Pins,
                     stat : SUBSET Pins, round : Nat, state : BOOLEAN, n : 0 .. Samples]
    <3>1. 0 \in 0 .. Samples /\ int_status \cap int_en \in SUBSET Pins /\ "ack" \in KeyPlaces
      BY KeysAssumption DEF KeysAssumption, KeysInv, KeyTypes, KeyPlaces
    <3> DEFINE latched == int_status \cap int_en
    <3> HIDE DEF latched
    <3>2. isr' = [at |-> "ack", todo |-> latched, pending |-> {}, val |-> {}, stat |-> {},
                  round |-> 0, state |-> FALSE, n |-> 0]
      BY <2>1 DEF K!Idle, latched
    <3> QED BY <3>1, <3>2 DEF latched
  <2>4. KeyTypes'
    BY <2>1, <2>3 DEF KeysInv, KeyTypes
  <2> QED BY <2>1, <2>2, <2>3, <2>4
          DEF KeysInv, HandlerAt, LowLatched, Detected, Sampled, ReleaseComes
<1>2. CASE K!msm_gpio_irq_clear
  <2> DEFINE p == K!Min(isr.todo)
  <2>1. /\ isr.at = "ack" /\ isr.todo # {}
        /\ int_status' = int_status \ {p}
        /\ isr' = [isr EXCEPT !.at = "val", !.round = 0]
        /\ UNCHANGED <<in, int_pos, int_en, key_bitmap>>
    BY <1>2 DEF K!msm_gpio_irq_clear, K!At
  <2>2. p \in isr.todo
    BY <2>1, MinIsOne DEF KeysInv, KeyTypes
  <2> HIDE DEF p
  <2>3. /\ isr'.at = "val" /\ isr'.todo = isr.todo /\ isr'.pending = isr.pending
        /\ isr' \in [at : KeyPlaces, todo : SUBSET Pins, pending : SUBSET Pins, val : SUBSET Pins,
                     stat : SUBSET Pins, round : Nat, state : BOOLEAN, n : 0 .. Samples]
    BY <2>1 DEF KeysInv, KeyTypes, KeyPlaces
  <2>4. KeyTypes'
    BY <2>1, <2>3 DEF KeysInv, KeyTypes
  <2> QED BY <2>1, <2>2, <2>3, <2>4
          DEF KeysInv, HandlerAt, LowLatched, Detected, Sampled, ReleaseComes
<1>3. ASSUME NEW p \in Pins, K!gpio_keys_init(p) PROVE KeysInv'
  <2>1. /\ isr.at = "idle" /\ int_pos' = int_pos \cup (Pins \ in) /\ int_en' = int_en \cup {p}
        /\ UNCHANGED <<in, int_status, isr, key_bitmap>>
    BY <1>3 DEF K!gpio_keys_init, K!At
  <2>2. KeyTypes'
    BY <2>1 DEF KeysInv, KeyTypes
  <2> QED BY <2>1, <2>2 DEF KeysInv, KeyTypes, HandlerAt, LowLatched, Detected, Sampled, ReleaseComes
<1> QED BY <1>1, <1>2, <1>3

\* The detection of both edges, one register at a time.
LEMMA KeyDetects ==
    ASSUME KeysInv, K!read_val \/ K!write_pol \/ K!read_stat \/ K!read_val2
    PROVE  KeysInv'
<1> DEFINE p == K!Min(isr.todo)
<1>1. /\ UNCHANGED <<in, int_status, int_en, key_bitmap>>
      /\ isr.at \in {"val", "pol", "stat", "val2"}
  BY DEF K!read_val, K!write_pol, K!read_stat, K!read_val2, K!At
<1>2. /\ KeyTypes
      /\ isr \in [at : KeyPlaces, todo : SUBSET Pins, pending : SUBSET Pins, val : SUBSET Pins,
                  stat : SUBSET Pins, round : Nat, state : BOOLEAN, n : 0 .. Samples]
  BY DEF KeysInv, KeyTypes
<1>3. p \in isr.todo /\ isr.todo # {}
  BY <1>1, MinIsOne DEF KeysInv, KeyTypes, HandlerAt
<1>4. CASE K!read_val
  <2>1. isr.at = "val" /\ isr' = [isr EXCEPT !.at = "pol", !.val = in] /\ UNCHANGED int_pos
    BY <1>4 DEF K!read_val, K!At
  <2>2. KeyTypes'
    BY <1>1, <1>2, <2>1 DEF KeyTypes, KeyPlaces
  <2>3. isr'.at = "pol" /\ isr'.todo = isr.todo /\ isr'.pending = isr.pending /\ isr'.val = in
    BY <1>2, <2>1
  <2> QED BY <1>1, <1>3, <2>1, <2>2, <2>3
          DEF KeysInv, HandlerAt, LowLatched, Detected, Sampled, ReleaseComes
<1>5. CASE K!write_pol
  <2>1. /\ isr.at = "pol" /\ isr' = [isr EXCEPT !.at = "stat"]
        /\ int_pos' = int_pos \cup (Pins \ isr.val)
    BY <1>5 DEF K!write_pol, K!At
  <2>2. KeyTypes'
    BY <1>1, <1>2, <2>1 DEF KeyTypes, KeyPlaces
  <2>3. isr'.at = "stat" /\ isr'.todo = isr.todo /\ isr'.pending = isr.pending
    BY <1>2, <2>1
  <2>4. HandlerAt' /\ LowLatched' /\ Sampled' /\ ReleaseComes'
    BY <1>1, <1>3, <2>1, <2>3 DEF KeysInv, HandlerAt, LowLatched, Sampled, ReleaseComes
  <2>5. p \notin in => p \in int_pos' \cup int_status
    BY <1>2, <1>3, <2>1 DEF KeysInv, Detected
  <2>6. Detected'
    BY <1>1, <2>3, <2>5 DEF Detected
  <2> QED BY <2>2, <2>4, <2>6 DEF KeysInv
<1>6. CASE K!read_stat
  <2>1. /\ isr.at = "stat" /\ isr' = [isr EXCEPT !.at = "val2", !.stat = int_status]
        /\ UNCHANGED int_pos
    BY <1>6 DEF K!read_stat, K!At
  <2>2. KeyTypes'
    BY <1>1, <1>2, <2>1 DEF KeyTypes, KeyPlaces
  <2>3. isr'.at = "val2" /\ isr'.todo = isr.todo /\ isr'.pending = isr.pending
    BY <1>2, <2>1
  <2> QED BY <1>1, <1>3, <2>1, <2>2, <2>3
          DEF KeysInv, HandlerAt, LowLatched, Detected, Sampled, ReleaseComes
<1>7. CASE K!read_val2
  <2>1. /\ isr.at = "val2" /\ UNCHANGED int_pos
        /\ \/ isr' = [isr EXCEPT !.at = "ack", !.todo = @ \ {p}, !.pending = @ \cup {p}]
           \/ isr' = [isr EXCEPT !.at = "val", !.round = @ + 1]
    BY <1>7 DEF K!read_val2, K!At
  <2>2. CASE isr' = [isr EXCEPT !.at = "ack", !.todo = @ \ {p}, !.pending = @ \cup {p}]
    <3>1. p \notin in => p \in int_pos \cup int_status
      BY <2>1 DEF KeysInv, Detected
    <3>2. p \in Pins /\ p \in int_en
      BY <1>2, <1>3 DEF KeyTypes
    <3> HIDE DEF p
    <3>3. /\ isr'.at = "ack" /\ isr'.todo = isr.todo \ {p} /\ isr'.pending = isr.pending \cup {p}
          /\ isr' \in [at : KeyPlaces, todo : SUBSET Pins, pending : SUBSET Pins, val : SUBSET Pins,
                       stat : SUBSET Pins, round : Nat, state : BOOLEAN, n : 0 .. Samples]
      BY <1>2, <2>2, <3>2 DEF KeyPlaces
    <3>4. KeyTypes'
      BY <1>1, <1>2, <2>1, <3>2, <3>3 DEF KeyTypes
    <3> QED BY <1>1, <2>1, <3>1, <3>3, <3>4
            DEF KeysInv, HandlerAt, LowLatched, Detected, Sampled, ReleaseComes
  <2>3. CASE isr' = [isr EXCEPT !.at = "val", !.round = @ + 1]
    <3>1. /\ isr'.at = "val" /\ isr'.todo = isr.todo /\ isr'.pending = isr.pending
          /\ isr' \in [at : KeyPlaces, todo : SUBSET Pins, pending : SUBSET Pins, val : SUBSET Pins,
                       stat : SUBSET Pins, round : Nat, state : BOOLEAN, n : 0 .. Samples]
      <4>1. isr.round + 1 \in Nat
        BY <1>2
      <4> DEFINE next == isr.round + 1
      <4> HIDE DEF next
      <4>2. isr' = [isr EXCEPT !.at = "val", !.round = next] /\ next \in Nat
        BY <2>3, <4>1 DEF next
      <4> QED BY <1>2, <4>2 DEF KeyPlaces
    <3>2. KeyTypes'
      BY <1>1, <1>2, <2>1, <3>1 DEF KeyTypes
    <3> QED BY <1>1, <1>3, <2>1, <3>1, <3>2
            DEF KeysInv, HandlerAt, LowLatched, Detected, Sampled, ReleaseComes
  <2> QED BY <2>1, <2>2, <2>3
<1> QED BY <1>4, <1>5, <1>6, <1>7

\* The pins that were found are looked at one after the other.
LEMMA KeySamples ==
    ASSUME KeysInv, K!call_handler \/ K!gpio_key_irq
    PROVE  KeysInv'
<1>1. UNCHANGED <<in, int_pos, int_status, int_en>>
  BY DEF K!call_handler, K!gpio_key_irq
<1>2. /\ KeyTypes /\ isr.pending \subseteq int_en /\ key_bitmap \subseteq int_en
      /\ isr \in [at : KeyPlaces, todo : SUBSET Pins, pending : SUBSET Pins, val : SUBSET Pins,
                  stat : SUBSET Pins, round : Nat, state : BOOLEAN, n : 0 .. Samples]
      /\ Samples \in Nat \ {0}
  BY KeysAssumption DEF KeysAssumption, KeysInv, KeyTypes
<1>3. CASE K!call_handler
  <2>1. /\ isr.at = "ack" /\ isr.todo = {} /\ UNCHANGED key_bitmap
        /\ isr' = IF isr.pending = {} THEN K!Idle ELSE [isr EXCEPT !.at = "sample", !.n = 0]
    BY <1>3 DEF K!call_handler, K!At
  <2>2. CASE isr.pending = {}
    <3>1. isr' = K!Idle
      BY <2>1, <2>2
    <3>2. 0 \in 0 .. Samples /\ "idle" \in KeyPlaces
      BY <1>2 DEF KeyPlaces
    <3>3. /\ isr'.at = "idle" /\ isr'.todo = {} /\ isr'.pending = {}
          /\ isr' \in [at : KeyPlaces, todo : SUBSET Pins, pending : SUBSET Pins, val : SUBSET Pins,
                       stat : SUBSET Pins, round : Nat, state : BOOLEAN, n : 0 .. Samples]
      BY <3>1, <3>2 DEF K!Idle
    <3>4. KeyTypes'
      BY <1>1, <1>2, <2>1, <3>3 DEF KeyTypes
    <3> QED BY <1>1, <2>1, <2>2, <3>3, <3>4
            DEF KeysInv, HandlerAt, LowLatched, Detected, Sampled, ReleaseComes
  <2>3. CASE isr.pending # {}
    <3>1. isr' = [isr EXCEPT !.at = "sample", !.n = 0] /\ 0 \in 0 .. Samples
      BY <1>2, <2>1, <2>3
    <3>2. /\ isr'.at = "sample" /\ isr'.todo = {} /\ isr'.pending = isr.pending /\ isr'.n = 0
          /\ isr' \in [at : KeyPlaces, todo : SUBSET Pins, pending : SUBSET Pins, val : SUBSET Pins,
                       stat : SUBSET Pins, round : Nat, state : BOOLEAN, n : 0 .. Samples]
      BY <1>2, <2>1, <3>1 DEF KeyPlaces
    <3>3. KeyTypes'
      BY <1>1, <1>2, <2>1, <3>2 DEF KeyTypes
    <3> QED BY <1>1, <2>1, <2>3, <3>2, <3>3
            DEF KeysInv, HandlerAt, LowLatched, Detected, Sampled, ReleaseComes
  <2> QED BY <2>2, <2>3
<1>4. CASE K!gpio_key_irq
  <2> DEFINE p == K!Min(isr.pending)
             now == p \in in
  <2>1. isr.at = "sample" /\ isr.todo = {} /\ isr.pending # {} /\ p \in isr.pending
    <3>1. isr.at = "sample"
      BY <1>4 DEF K!gpio_key_irq, K!At
    <3>2. isr.todo = {} /\ isr.pending # {}
      BY <3>1 DEF KeysInv, HandlerAt
    <3> QED BY <1>2, <3>1, <3>2, MinIsOne DEF KeyTypes
  <2>2. p \notin in => p \in int_pos \cup int_status
    BY <1>2, <2>1 DEF KeysInv, LowLatched
  <2>3. isr.n > 0 /\ ~isr.state /\ p \in in => p \in int_status
    BY <2>1 DEF KeysInv, Sampled
  <2>4. isr.n \in 0 .. Samples
    BY <1>2
  <2>5. CASE isr.n = 0
    <3>1. isr' = [isr EXCEPT !.state = now, !.n = 1] /\ UNCHANGED key_bitmap
      <4>1. ~(isr.n > 0) /\ ~(isr.n \in 1 .. Samples - 1) /\ isr.n # Samples
        BY <1>2, <2>5
      <4> QED BY <1>4, <2>5, <4>1 DEF K!gpio_key_irq
    <3>2. 1 \in 0 .. Samples
      BY <1>2
    <3>3. /\ isr'.at = "sample" /\ isr'.todo = {} /\ isr'.pending = isr.pending
          /\ isr'.state = (p \in in)
          /\ isr' \in [at : KeyPlaces, todo : SUBSET Pins, pending : SUBSET Pins, val : SUBSET Pins,
                       stat : SUBSET Pins, round : Nat, state : BOOLEAN, n : 0 .. Samples]
      <4>1. now \in BOOLEAN /\ now = (p \in in)
        OBVIOUS
      <4> HIDE DEF now
      <4>2. /\ isr'.at = "sample" /\ isr'.todo = {} /\ isr'.pending = isr.pending
            /\ isr'.state = now
        BY <1>2, <2>1, <3>1
      <4>3. isr' \in [at : KeyPlaces, todo : SUBSET Pins, pending : SUBSET Pins, val : SUBSET Pins,
                      stat : SUBSET Pins, round : Nat, state : BOOLEAN, n : 0 .. Samples]
        BY <1>2, <3>1, <3>2, <4>1
      <4> QED BY <4>1, <4>2, <4>3
    <3>4. KeyTypes'
      BY <1>1, <1>2, <2>1, <3>1, <3>3 DEF KeyTypes
    <3> QED BY <1>1, <2>1, <3>1, <3>3, <3>4
            DEF KeysInv, HandlerAt, LowLatched, Detected, Sampled, ReleaseComes
  <2>6. CASE isr.n \in 1 .. Samples - 1 /\ now = isr.state
    <3>1. isr' = [isr EXCEPT !.n = @ + 1] /\ UNCHANGED key_bitmap
      <4>1. isr.n # 0 /\ isr.n # Samples /\ ~(now # isr.state)
        BY <1>2, <2>6
      <4> QED BY <1>4, <2>6, <4>1 DEF K!gpio_key_irq
    <3>2. isr.n + 1 \in 0 .. Samples /\ isr.n > 0
      BY <1>2, <2>6
    <3>3. /\ isr'.at = "sample" /\ isr'.todo = {} /\ isr'.pending = isr.pending
          /\ isr'.state = isr.state
          /\ isr' \in [at : KeyPlaces, todo : SUBSET Pins, pending : SUBSET Pins, val : SUBSET Pins,
                       stat : SUBSET Pins, round : Nat, state : BOOLEAN, n : 0 .. Samples]
      BY <1>2, <2>1, <3>1, <3>2
    <3>4. KeyTypes'
      BY <1>1, <1>2, <2>1, <3>1, <3>3 DEF KeyTypes
    <3>5. Sampled'
      BY <1>1, <2>3, <3>2, <3>3 DEF Sampled
    <3> QED BY <1>1, <2>1, <3>1, <3>3, <3>4, <3>5
            DEF KeysInv, HandlerAt, LowLatched, Detected, ReleaseComes
  <2>7. CASE isr' = K!handled /\ key_bitmap' \in {key_bitmap, key_bitmap \cup {p}, key_bitmap \ {p}}
             /\ (p \in key_bitmap' \cap in => p \in int_status)
    <3>1. isr' = [isr EXCEPT !.at = "ack", !.pending = @ \ {p}]
      BY <2>7 DEF K!handled
    <3> HIDE DEF p
    <3>2. /\ isr'.at = "ack" /\ isr'.todo = {} /\ isr'.pending = isr.pending \ {p}
          /\ isr' \in [at : KeyPlaces, todo : SUBSET Pins, pending : SUBSET Pins, val : SUBSET Pins,
                       stat : SUBSET Pins, round : Nat, state : BOOLEAN, n : 0 .. Samples]
      BY <1>2, <2>1, <3>1 DEF KeyPlaces
    <3>3. KeyTypes'
      BY <1>1, <1>2, <2>1, <2>7, <3>2 DEF KeyTypes
    <3>4. ReleaseComes'
      BY <1>1, <2>1, <2>7, <3>2 DEF KeysInv, ReleaseComes
    <3> QED BY <1>1, <2>1, <3>2, <3>3, <3>4
            DEF KeysInv, HandlerAt, LowLatched, Detected, Sampled
  <2>8. CASE isr.n > 0 /\ now # isr.state
    <3>1. isr' = K!handled /\ UNCHANGED key_bitmap
      <4>1. isr.n # 0 /\ ~(now = isr.state)
        BY <1>2, <2>8
      <4> QED BY <1>4, <2>8, <4>1 DEF K!gpio_key_irq
    <3>2. isr.state \in BOOLEAN
      BY <1>2
    <3>3. p \in in => p \in int_status
      BY <2>3, <2>8, <3>2
    <3> QED BY <2>7, <3>1, <3>3
  <2>9. CASE isr.n = Samples /\ now = isr.state
    <3>1. isr.n > 0 /\ ~(isr.n = 0) /\ ~(isr.n \in 1 .. Samples - 1)
      BY <1>2, <2>9
    <3>2. isr' = K!handled /\ K!keys_post_event(p, ~isr.state)
      BY <1>4, <2>9, <3>1 DEF K!gpio_key_irq
    <3>3. CASE isr.state
      <4>1. key_bitmap' = key_bitmap \ {p}
        BY <3>2, <3>3 DEF K!keys_post_event
      <4> QED BY <2>7, <3>2, <4>1
    <3>4. CASE ~isr.state
      <4>1. key_bitmap' = key_bitmap \cup {p} /\ p \notin in
        BY <2>9, <3>2, <3>4 DEF K!keys_post_event
      <4> QED BY <2>7, <3>2, <4>1
    <3> QED BY <3>3, <3>4
  <2>10. isr.n = 0 \/ isr.n \in 1 .. Samples - 1 \/ isr.n = Samples
    BY <1>2, <2>4
  <2>11. isr.n # 0 => isr.n > 0
    BY <2>4
  <2> QED BY <2>5, <2>6, <2>8, <2>9, <2>10, <2>11
<1> QED BY <1>3, <1>4

LEMMA NextKeys == KeysInv /\ [K!KeyNext]_keys => KeysInv'
<1> SUFFICES ASSUME KeysInv, [K!KeyNext]_keys PROVE KeysInv'
  OBVIOUS
<1>1. CASE UNCHANGED keys
  BY <1>1 DEF keys, KeysInv, KeyTypes, HandlerAt, LowLatched, Detected, Sampled, ReleaseComes
<1> QED BY <1>1, KeyMoves, KeyClears, KeyDetects, KeySamples DEF K!KeyNext

\* A rising line interrupts; a line that is up leaves the controller only with the
\* pin on the handler's list, and that pin is the only one.
LEMMA NextLine == KeysInv /\ LineKept /\ [K!KeyNext]_keys => LineKept'
<1> SUFFICES ASSUME KeysInv, LineKept, [K!KeyNext]_keys PROVE LineKept'
  OBVIOUS
<1>1. CASE UNCHANGED keys
  BY <1>1 DEF keys, LineKept, K!Line, K!OneKey
<1>2. ASSUME NEW p \in Pins, K!gpio_keys_init(p) \/ K!Move(p) PROVE LineKept'
  <2>1. /\ vic' = (vic \/ (K!Line(int_status', int_en') /\ ~K!Line(int_status, int_en)))
        /\ isr' = isr /\ int_en \subseteq int_en'
    BY <1>2 DEF K!gpio_keys_init, K!Move, K!Latch
  <2>2. K!OneKey' => K!OneKey
    BY <2>1 DEF K!OneKey
  <2>3. K!Line(int_status', int_en') => vic' \/ K!Line(int_status, int_en)
    BY <2>1
  <2>4. vic => vic'
    BY <2>1
  <2> QED BY <2>1, <2>2, <2>3, <2>4 DEF LineKept
<1>3. CASE K!platform_irq
  <2>1. /\ int_status' = int_status /\ int_en' = int_en
        /\ isr'.at = "ack" /\ isr'.todo = int_status \cap int_en
    BY <1>3 DEF K!platform_irq, K!Idle
  <2> QED BY <2>1 DEF LineKept, K!Line
<1>4. CASE K!msm_gpio_irq_clear
  <2> DEFINE p == K!Min(isr.todo)
  <2>1. int_status' = int_status \ {p} /\ int_en' = int_en /\ isr.todo # {}
    BY <1>4 DEF K!msm_gpio_irq_clear
  <2>2. p \in int_en
    BY <2>1, MinIsOne DEF KeysInv, KeyTypes
  <2> HIDE DEF p
  <2>3. K!OneKey' => ~K!Line(int_status', int_en')
    BY <2>1, <2>2 DEF K!OneKey, K!Line
  <2> QED BY <2>3 DEF LineKept
<1>5. ASSUME UNCHANGED <<int_status, int_en, vic>>, ~(isr.at = "ack" /\ isr.todo # {})
      PROVE  LineKept'
  BY <1>5 DEF LineKept, K!OneKey, K!Line
<1>6. CASE \/ K!read_val \/ K!write_pol \/ K!read_stat \/ K!read_val2 \/ K!call_handler
           \/ K!gpio_key_irq
  <2>1. UNCHANGED <<int_status, int_en, vic>> /\ ~(isr.at = "ack" /\ isr.todo # {})
    BY <1>6 DEF K!read_val, K!write_pol, K!read_stat, K!read_val2, K!call_handler,
                K!gpio_key_irq, K!At
  <2> QED BY <1>5, <2>1
<1> QED BY <1>1, <1>2, <1>3, <1>4, <1>6 DEF K!KeyNext

-----------------------------------------------------------------------------
(* The key matrix                                                          *)

Row(k) == k \div ninputs

\* A whole scan lies behind, or one is under way.
Scanning == current_output < noutputs \/ full_scan \/ init = "returned"

\* What the scan has passed is known, but for the keys that moved.
Scanned ==
    Scanning => \A k \in Wired \ moved :
                    Row(k) < current_output => (k \in keys_pressed <=> k \in pressed)

KeypadInv ==
    /\ pressed \subseteq Wired /\ keys_pressed \subseteq Wired
    /\ current_output \in 0 .. noutputs
    /\ init = "called" => ~timer /\ ~full_scan
    /\ init # "called" => gpio_out = IF current_output = noutputs THEN {} ELSE {current_output}
    /\ Scanned

\* Each crossing lies in the row its number was made from.
LEMMA Crossing ==
    ASSUME NEW o \in Nat, NEW i \in 0 .. ninputs - 1
    PROVE  Row(o * ninputs + i) = o
<1> PICK n, k, q, m : n = ninputs /\ k = o * n + i /\ q = k \div n /\ m = k % n
  OBVIOUS
<1>1. n \in Nat /\ n >= 1 /\ i \in Nat /\ i < n
  BY KeysAssumption DEF KeysAssumption
<1>2. o * n \in Nat /\ k \in Nat /\ k = o * n + i
  BY <1>1
<1>3. q \in Int /\ m \in Int /\ 0 <= m /\ m < n /\ k = n * q + m
  BY <1>1, <1>2
<1>4. ~ (q > o)
  <2>1. q >= o + 1 => n * q >= o * n + n
    BY <1>1, <1>3
  <2> QED BY <1>1, <1>2, <1>3, <2>1
<1>5. ~ (o > q)
  <2>1. o >= q + 1 => o * n >= n * q + n
    BY <1>1, <1>3
  <2> QED BY <1>1, <1>2, <1>3, <2>1
<1>6. q = o
  BY <1>3, <1>4, <1>5
<1> QED BY <1>6 DEF Row

LEMMA WiredRow ==
    ASSUME NEW k \in Wired
    PROVE  \E o \in 0 .. noutputs - 1, i \in 0 .. ninputs - 1 :
               k = o * ninputs + i /\ Row(k) = o
<1>1. PICK o \in 0 .. noutputs - 1, i \in 0 .. ninputs - 1 : k = o * ninputs + i
  BY KeysAssumption DEF KeysAssumption
<1>2. o \in Nat
  BY KeysAssumption DEF KeysAssumption
<1> QED BY <1>1, <1>2, Crossing

LEMMA KeypadIsRight == KeypadInv => M!ScanIsRight /\ M!OneOutput
<1> SUFFICES ASSUME KeypadInv PROVE M!ScanIsRight /\ M!OneOutput
  OBVIOUS
<1>1. ASSUME init = "returned", current_output = noutputs, NEW k \in Wired \ moved
      PROVE  k \in keys_pressed <=> k \in pressed
  <2>1. Row(k) < current_output
    BY <1>1, WiredRow, KeysAssumption DEF KeysAssumption
  <2> QED BY <1>1, <2>1 DEF KeypadInv, Scanned, Scanning
<1>2. ASSUME init # "called" PROVE Cardinality(gpio_out) <= 1
  <2>1. gpio_out = {} \/ gpio_out = {current_output}
    BY <1>2 DEF KeypadInv
  <2>2. Cardinality(gpio_out) = 0 \/ Cardinality(gpio_out) = 1
    BY <2>1, FS_EmptySet, FS_Singleton, Zenon
  <2> QED BY <2>2
<1>3. init = "returned" /\ current_output = noutputs =>
          \A k \in Wired \ moved : k \in keys_pressed <=> k \in pressed
  BY <1>1
<1>4. keys_pressed \subseteq Wired
  BY DEF KeypadInv
<1>5. M!ScanIsRight
  <2> SUFFICES ASSUME init = "returned", current_output = noutputs, NEW k \in Wired \ moved
               PROVE  k \in keys_pressed <=> k \in pressed
    BY <1>4 DEF M!ScanIsRight
  <2> QED BY <1>3
\* M!Cardinality is the instance's own copy of the operator.
<1>6. M!OneOutput
  BY <1>2 DEF M!OneOutput, M!Cardinality, Cardinality
<1> QED BY <1>5, <1>6

LEMMA InitKeypad == M!KeypadInit => KeypadInv
<1> SUFFICES ASSUME M!KeypadInit PROVE KeypadInv
  OBVIOUS
<1>1. noutputs \in 0 .. noutputs /\ ~ (noutputs < noutputs)
  BY KeysAssumption DEF KeysAssumption
<1> QED BY <1>1 DEF M!KeypadInit, KeypadInv, Scanned, Scanning

\* With one output active, the inputs show the keys of its row.
LEMMA RowIsRead ==
    ASSUME NEW c \in 0 .. noutputs - 1, gpio_out = {c}, pressed \subseteq Wired,
           keys_pressed \subseteq Wired
    PROVE  /\ M!check_output(c) \subseteq Wired
           /\ \A k \in Wired : k \in M!check_output(c) <=>
                                   k \in IF Row(k) = c THEN pressed ELSE keys_pressed
<1>1. c \in Nat
  BY KeysAssumption DEF KeysAssumption
<1>2. M!check_output(c) = {k \in keys_pressed : Row(k) # c}
        \cup {c * ninputs + i : i \in {j \in 0 .. ninputs - 1 : c * ninputs + j \in pressed}}
  BY DEF M!check_output, M!Inputs, M!gpio_get, M!KeyIndex, Row
<1>3. ASSUME NEW k
      PROVE  k \in M!check_output(c) <=>
                 \/ k \in keys_pressed /\ Row(k) # c
                 \/ \E i \in 0 .. ninputs - 1 : k = c * ninputs + i /\ k \in pressed
  BY <1>2
<1>4. \A k \in M!check_output(c) : k \in Wired
  BY <1>3
<1>5. ASSUME NEW k \in Wired
      PROVE  k \in M!check_output(c) <=> k \in IF Row(k) = c THEN pressed ELSE keys_pressed
  <2>1. \A i \in 0 .. ninputs - 1 : k = c * ninputs + i => Row(k) = c
    BY <1>1, Crossing
  <2>2. CASE Row(k) = c
    <3>1. \E i \in 0 .. ninputs - 1 : k = c * ninputs + i
      BY <2>2, WiredRow
    <3> QED BY <1>3, <2>2, <3>1
  <2>3. CASE Row(k) # c
    BY <1>3, <2>1, <2>3
  <2> QED BY <2>2, <2>3
<1> QED BY <1>4, <1>5

LEMMA KeypadTicks ==
    ASSUME KeypadInv, M!gpio_keypad_timer_func
    PROVE  KeypadInv'
<1> DEFINE c == current_output
           out == IF c = noutputs THEN 0 ELSE c + 1
<1>1. /\ timer /\ keys_pressed' = IF c = noutputs THEN keys_pressed ELSE M!check_output(c)
      /\ gpio_out' = M!next_output(out) /\ current_output' = out
      /\ full_scan' = (full_scan \/ out = noutputs)
      /\ moved' = IF c = noutputs THEN {} ELSE moved
      /\ UNCHANGED <<pressed, init>>
  BY DEF M!gpio_keypad_timer_func, M!start_scan
<1>2. noutputs \in Nat /\ c \in 0 .. noutputs /\ pressed \subseteq Wired /\ keys_pressed \subseteq Wired
  BY KeysAssumption DEF KeysAssumption, KeypadInv
<1>3. init # "called" /\ gpio_out = IF c = noutputs THEN {} ELSE {c}
  BY <1>1 DEF KeypadInv
<1>4. CASE c = noutputs
  <2>1. out = 0 /\ keys_pressed' = keys_pressed /\ moved' = {} /\ current_output' = 0
    BY <1>1, <1>4
  <2>2. gpio_out' = IF 0 < noutputs THEN {0} ELSE {}
    BY <1>1, <1>3, <1>4, <2>1 DEF M!next_output, M!start_scan
  <2>3. gpio_out' = IF current_output' = noutputs THEN {} ELSE {current_output'}
    BY <1>2, <2>1, <2>2
  <2>4. \A k \in Wired : ~ (Row(k) < 0)
    BY <1>2, WiredRow
  <2>5. Scanned'
    BY <2>1, <2>4 DEF Scanned
  <2>6. current_output' \in 0 .. noutputs
    BY <1>2, <2>1
  <2> QED BY <1>1, <1>2, <1>3, <2>1, <2>3, <2>5, <2>6 DEF KeypadInv
<1>5. CASE c # noutputs
  <2>1. c \in 0 .. noutputs - 1 /\ out = c + 1 /\ out \in 0 .. noutputs /\ gpio_out = {c}
    BY <1>2, <1>3, <1>5
  <2>2. keys_pressed' = M!check_output(c) /\ moved' = moved /\ current_output' = c + 1
    BY <1>1, <1>5
  <2>3. gpio_out' = IF out < noutputs THEN {out} ELSE {}
    <3>1. M!gpio_set(c, 1) = {}
      BY <2>1 DEF M!gpio_set
    <3> QED BY <1>1, <1>5, <3>1 DEF M!next_output, M!start_scan
  <2>4. gpio_out' = IF current_output' = noutputs THEN {} ELSE {current_output'}
    <3>1. out = current_output'
      BY <2>1, <2>2
    <3> HIDE DEF out
    <3>2. out < noutputs <=> out # noutputs
      BY <1>2, <2>1
    <3> QED BY <2>3, <3>1, <3>2
  <2>5. /\ keys_pressed' \subseteq Wired
        /\ \A k \in Wired : k \in keys_pressed' <=>
                                k \in IF Row(k) = c THEN pressed ELSE keys_pressed
    BY <1>2, <2>1, <2>2, RowIsRead
  <2>6. Scanning
    BY <1>2, <2>1 DEF Scanning
  <2>7. ASSUME NEW k \in Wired \ moved, Row(k) < c + 1
        PROVE  k \in keys_pressed' <=> k \in pressed
    <3>1. Row(k) \in Int
      BY WiredRow
    <3>2. CASE Row(k) = c
      BY <2>5, <3>2
    <3>3. CASE Row(k) # c
      <4>1. Row(k) < c
        BY <2>1, <2>7, <3>1, <3>3
      <4> QED BY <2>5, <2>6, <3>3, <4>1 DEF KeypadInv, Scanned
    <3> QED BY <3>2, <3>3
  <2>8. Scanned'
    BY <1>1, <2>2, <2>7 DEF Scanned
  <2>9. current_output' \in 0 .. noutputs
    BY <2>1, <2>2
  <2> QED BY <1>1, <1>2, <1>3, <2>4, <2>5, <2>8, <2>9 DEF KeypadInv
<1> QED BY <1>4, <1>5

LEMMA NextKeypad == KeypadInv /\ [M!KeypadNext]_keypad => KeypadInv'
<1> SUFFICES ASSUME KeypadInv, [M!KeypadNext]_keypad PROVE KeypadInv'
  OBVIOUS
<1>1. CASE UNCHANGED keypad
  BY <1>1 DEF keypad, KeypadInv, Scanned, Scanning
<1>2. CASE M!gpio_keypad_init
  <2>1. /\ init = "called" /\ init' = "waits" /\ gpio_out' = {} /\ current_output' = noutputs
        /\ UNCHANGED <<pressed, full_scan, keys_pressed, moved>>
    BY <1>2 DEF M!gpio_keypad_init
  <2>2. noutputs \in 0 .. noutputs /\ ~ (noutputs < noutputs)
    BY KeysAssumption DEF KeysAssumption
  <2>3. Scanned'
    BY <2>1, <2>2 DEF KeypadInv, Scanned, Scanning
  <2> QED BY <2>1, <2>2, <2>3 DEF KeypadInv
<1>3. CASE M!event_wait
  BY <1>3 DEF M!event_wait, KeypadInv, Scanned, Scanning
<1>4. ASSUME NEW k \in Wired, M!Move(k) PROVE KeypadInv'
  <2>1. /\ pressed' \subseteq Wired /\ moved' = moved \cup {k}
        /\ \A j \in Wired \ moved' : j \in pressed' <=> j \in pressed
        /\ UNCHANGED <<gpio_out, current_output, timer, full_scan, keys_pressed, init>>
    BY <1>4 DEF M!Move, KeypadInv
  <2>2. Scanned'
    BY <2>1 DEF KeypadInv, Scanned, Scanning
  <2> QED BY <2>1, <2>2 DEF KeypadInv
<1> QED BY <1>1, <1>2, <1>3, <1>4, KeypadTicks DEF M!KeypadNext

-----------------------------------------------------------------------------
(* The platform                                                            *)

DriversInv == BatteryInv /\ DelayInv /\ PcomInv /\ DexInv /\ UsbInv /\ KeysInv /\ LineKept
              /\ KeypadInv

LEMMA InitDrivers == PlatformInit => DriversInv
<1> SUFFICES ASSUME PlatformInit PROVE DriversInv
  OBVIOUS
<1>1. B!BatteryInit /\ T!DelayInit /\ P!PcomInit /\ D!DexInit /\ U!UdcStartInit
      /\ K!KeyInit /\ M!KeypadInit
  BY DEF PlatformInit
<1> QED BY <1>1, InitBattery, InitDelay, InitPcom, InitDex, InitUsb, InitKeys, InitKeypad
        DEF DriversInv

LEMMA NextDrivers == DriversInv /\ [PlatformNext]_allvars => DriversInv'
<1> SUFFICES ASSUME DriversInv, [PlatformNext]_allvars PROVE DriversInv'
  OBVIOUS
<1>1. /\ [D!DexNext]_dex /\ [P!PcomNext]_modems /\ [T!DelayNext]_delay
      /\ [B!BatteryNext]_battery /\ [U!UdcStartNext]_usb
      /\ [K!KeyNext]_keys /\ [M!KeypadNext]_keypad
  BY EachMachineMoves
<1>2. BatteryInv /\ DelayInv /\ PcomInv /\ DexInv /\ UsbInv /\ KeysInv /\ LineKept /\ KeypadInv
  BY DEF DriversInv
<1>3. BatteryInv' /\ DelayInv'
  BY <1>1, <1>2, NextBattery, NextDelay
<1>4. PcomInv' /\ DexInv' /\ UsbInv'
  BY <1>1, <1>2, NextPcom, NextDex, NextUsb
<1>5. KeysInv' /\ LineKept' /\ KeypadInv'
  BY <1>1, <1>2, NextKeys, NextLine, NextKeypad
<1> QED BY <1>3, <1>4, <1>5 DEF DriversInv

\* dex_comm.c, proc_comm.c, timer.c, board_htckovsky.c: whatever the others do and
\* however late the ARM9 and the modem are, a caller goes on only when its own command
\* was carried out with its own data, when its own clock call was, when its delay is
\* over, or when the battery has enough.
THEOREM WaitsCorrect == PlatformSpec => []WaitsRight
<1>1. DriversInv => WaitsRight
  BY BatteryWaits DEF DriversInv, DelayInv, PcomInv, DexInv, WaitsRight
<1> QED BY <1>1, InitDrivers, NextDrivers, PTL DEF PlatformSpec

\* hsusb.c: however often the controller is started and stopped, its interrupt is let
\* in only with a handler, clocks and a gadget, each descriptor that a host is given
\* names its own strings, and no two endpoints are the same.
THEOREM UsbAlwaysServed == PlatformSpec => []UsbServed
<1>1. DriversInv => UsbServed
  BY UsbInvServes DEF DriversInv
<1> QED BY <1>1, InitDrivers, NextDrivers, PTL DEF PlatformSpec

\* gpio.c, interrupts.c, gpio_keys.c, keys.c, gpio_keypad.c: whenever a pin moves while
\* the handler acknowledges, sets polarities or samples, no key that was let go of
\* stays held, unless the bank's line was lost to the edge of a second key: then its
\* release is latched, and with a single key that never happens; and for a matrix of any size a whole scan finds every key that rests, one output active
\* at a time.
THEOREM KeysAlwaysRight == PlatformSpec => []KeysRight
<1>1. DriversInv => KeysRight
  BY KeysWait, KeypadIsRight DEF DriversInv, KeysRight
<1> QED BY <1>1, InitDrivers, NextDrivers, PTL DEF PlatformSpec

=============================================================================
