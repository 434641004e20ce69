----------------------------- MODULE ClockProofs -----------------------------
(***************************************************************************)
(* Theorems about the clocks and power rails of module Platform, for any    *)
(* threads and any of the clocks.  What a call still has to write is a      *)
(* sequence; ClkInv says that each of its writes finds what it needs and    *)
(* takes away nothing that a rail or another clock relies on.               *)
(***************************************************************************)
EXTENDS Platform, TLAPS

Writes == [reg : C!Registers, clear : SUBSET C!Bits, set : SUBSET C!Bits,
           when : SUBSET C!Bits, unless : SUBSET C!Bits]
Calls == [op : {"none", "enable", "disable", "rate"}, id : Clocks \cup {"none"}]

\* A bit is its register and its number.
IsOn(c) == c[2] \in regs[c[1]]
Puts(w, c) == w.reg = c[1] /\ c[2] \in w.set
Takes(w, c) == w.reg = c[1] /\ c[2] \in w.clear /\ c[2] \notin w.set
Sure(w) == w.when = C!Bits /\ w.unless = {}

\* Before the i-th of these writes the bit will be set, and cleared.
SetBefore(s, i, c) == /\ \A j \in 1 .. i - 1 : ~Takes(s[j], c)
                      /\ IsOn(c) \/ \E j \in 1 .. i - 1 : Sure(s[j]) /\ Puts(s[j], c)
ClearBefore(s, i, c) == /\ \A j \in 1 .. i - 1 : ~Puts(s[j], c)
                        /\ ~IsOn(c) \/ \E j \in 1 .. i - 1 : Sure(s[j]) /\ Takes(s[j], c)

Clamp(r) == <<"CLAMP", C!ClampBit[r]>>
InReset(r) == <<"AXI_RESET", C!ResetBit[r]>>
PortOff(r) == <<C!Port[r], C!PortBit[r]>>
PowerOn(r) == <<C!GFS[r], C!Powered>>

\* Each write that is still to be done finds what it needs: power before the clamp
\* goes, reset and no port before it comes, it before the power goes, and none before
\* the reset or the port's lock do.
InOrder(s, r) ==
    \A i \in 1 .. Len(s) :
        /\ Takes(s[i], Clamp(r)) => SetBefore(s, i, PowerOn(r))
        /\ Takes(s[i], PowerOn(r)) => SetBefore(s, i, Clamp(r))
        /\ Puts(s[i], Clamp(r)) => SetBefore(s, i, InReset(r)) /\ SetBefore(s, i, PortOff(r))
        /\ Takes(s[i], InReset(r)) \/ Takes(s[i], PortOff(r)) => ClearBefore(s, i, Clamp(r))

ClkTypes ==
    /\ regs \in [C!Registers -> SUBSET C!Bits]
    /\ work \in [ClockUsers -> Seq(Writes)]
    /\ latch \in [ClockUsers -> SUBSET (0 .. 32)]
    /\ serving \in [ClockUsers -> Calls]
    /\ state \in BOOLEAN /\ is_enabled \in BOOLEAN /\ on \subseteq Clocks

\* Only the holder of clk_mutex has a call, and what it read still stands.
OneCall ==
    \A t \in ClockUsers :
        /\ clk_mutex # t => serving[t] = C!NoCall /\ work[t] = <<>>
        /\ clk_mutex = t => serving[t].op # "none" /\ serving[t].id \in Clocks
        /\ latch[t] = C!NotRead \/ (work[t] # <<>> /\ latch[t] = regs[Head(work[t]).reg])

\* An output that is clamped has its block in reset and off the bus.
RailsRight ==
    \A r \in C!Rails :
        /\ IsOn(Clamp(r)) => IsOn(InReset(r)) /\ IsOn(PortOff(r))
        /\ ~IsOn(Clamp(r)) => IsOn(PowerOn(r))
        /\ \A t \in ClockUsers : InOrder(work[t], r)

\* No write that is still to be done clears the bit.
Spared(c) == \A t \in ClockUsers : \A i \in 1 .. Len(work[t]) : ~Takes(work[t][i], c)
GoingOff(id) == \E t \in ClockUsers : serving[t].op = "disable" /\ id \in C!Sharing(serving[t].id)

Running ==
    /\ \A id \in on : GoingOff(id) \/ \A c \in C!RunBits(id) : IsOn(c) /\ Spared(c)
    /\ \A t \in ClockUsers : serving[t].op = "enable" =>
          \A c \in C!RunBits(serving[t].id) :
              /\ Spared(c)
              /\ IsOn(c) \/ \E i \in 1 .. Len(work[t]) : Sure(work[t][i]) /\ Puts(work[t][i], c)

\* What set_vdc_rail and set_vfe_rail remember.
Remembered(flag, id) ==
    flag => \/ id \in on /\ ~GoingOff(id)
            \/ \E t \in ClockUsers : serving[t] = [op |-> "enable", id |-> id]

ClkInv == /\ ClkTypes /\ OneCall /\ RailsRight /\ Running
          /\ Remembered(state, "VDC") /\ Remembered(is_enabled, "VFE")

\* The bits of the registers.
AllBits == C!Registers \X C!Bits

LEMMA RailBits ==
    ASSUME NEW r \in C!Rails
    PROVE  Clamp(r) \in AllBits /\ InReset(r) \in AllBits /\ PortOff(r) \in AllBits
           /\ PowerOn(r) \in AllBits
<1>1. "CLAMP" \in C!Registers /\ "AXI_RESET" \in C!Registers
      /\ C!Port[r] \in C!Registers /\ C!GFS[r] \in C!Registers
  BY DEF C!Registers
<1>2. C!ClampBit[r] \in C!Bits /\ C!ResetBit[r] \in C!Bits /\ C!PortBit[r] \in C!Bits
      /\ C!Powered \in C!Bits
  BY DEF C!Rails, C!ClampBit, C!ResetBit, C!PortBit, C!Powered, C!Bits
<1> QED BY <1>1, <1>2 DEF Clamp, InReset, PortOff, PowerOn, AllBits

\* What one write does to a bit of the value that was read.
LEMMA WriteIs ==
    ASSUME NEW w \in Writes, NEW val \in SUBSET C!Bits, NEW b \in C!Bits
    PROVE  /\ C!New(w, val) \in SUBSET C!Bits
           /\ b \in val /\ ~(b \in w.clear /\ b \notin w.set) => b \in C!New(w, val)
           /\ b \notin val /\ b \notin w.set => b \notin C!New(w, val)
           /\ Sure(w) /\ b \in w.set => b \in C!New(w, val)
           /\ Sure(w) /\ b \in w.clear /\ b \notin w.set => b \notin C!New(w, val)
<1>1. w.set \subseteq C!Bits /\ w.clear \subseteq C!Bits
  BY DEF Writes
<1>2. \/ C!New(w, val) = val
      \/ C!New(w, val) = (val \ w.clear) \cup w.set
  BY DEF C!New
<1>3. Sure(w) => C!New(w, val) = (val \ w.clear) \cup w.set
  BY DEF C!New, Sure
<1> QED BY <1>1, <1>2, <1>3

\* The write that is done next changes a bit as it says, and no other.
LEMMA StepBits ==
    ASSUME NEW w \in Writes, regs \in [C!Registers -> SUBSET C!Bits],
           regs' = [regs EXCEPT ![w.reg] = C!New(w, regs[w.reg])],
           NEW c \in AllBits
    PROVE  /\ IsOn(c) /\ ~Takes(w, c) => IsOn(c)'
           /\ ~IsOn(c) /\ ~Puts(w, c) => ~IsOn(c)'
           /\ Sure(w) /\ Puts(w, c) => IsOn(c)'
           /\ Sure(w) /\ Takes(w, c) => ~IsOn(c)'
<1>1. c[1] \in C!Registers /\ c[2] \in C!Bits /\ w.reg \in C!Registers
  BY DEF AllBits, Writes
<1>2. regs[w.reg] \in SUBSET C!Bits
  BY <1>1
<1>3. CASE w.reg = c[1]
  <2>1. regs'[c[1]] = C!New(w, regs[c[1]])
    BY <1>1, <1>3
  <2> QED BY <1>1, <1>2, <1>3, <2>1, WriteIs DEF IsOn, Takes, Puts
<1>4. CASE w.reg # c[1]
  <2>1. regs'[c[1]] = regs[c[1]]
    BY <1>1, <1>4
  <2> QED BY <1>4, <2>1 DEF IsOn, Takes, Puts
<1> QED BY <1>3, <1>4

LEMMA TailAt ==
    ASSUME NEW s \in Seq(Writes), s # <<>>
    PROVE  /\ Head(s) = s[1] /\ s[1] \in Writes /\ Tail(s) \in Seq(Writes)
           /\ Len(s) \in Nat /\ Len(s) >= 1
           /\ Len(Tail(s)) = Len(s) - 1
           /\ \A i \in 1 .. Len(s) - 1 : Tail(s)[i] = s[i + 1] /\ i + 1 \in 1 .. Len(s)
OBVIOUS

\* What was to be set or cleared before a write still is when another has been done.
LEMMA BeforeStays ==
    ASSUME NEW s \in Seq(Writes), s # <<>>, regs \in [C!Registers -> SUBSET C!Bits],
           regs' = [regs EXCEPT ![Head(s).reg] = C!New(Head(s), regs[Head(s).reg])],
           NEW c \in AllBits, NEW i \in 1 .. Len(s) - 1
    PROVE  /\ SetBefore(s, i + 1, c) => SetBefore(Tail(s), i, c)'
           /\ ClearBefore(s, i + 1, c) => ClearBefore(Tail(s), i, c)'
<1>1. /\ Head(s) = s[1] /\ s[1] \in Writes /\ Len(s) \in Nat
      /\ \A j \in 1 .. Len(s) - 1 : Tail(s)[j] = s[j + 1]
  BY TailAt
<1>2. /\ IsOn(c) /\ ~Takes(s[1], c) => IsOn(c)'
      /\ ~IsOn(c) /\ ~Puts(s[1], c) => ~IsOn(c)'
      /\ Sure(s[1]) /\ Puts(s[1], c) => IsOn(c)'
      /\ Sure(s[1]) /\ Takes(s[1], c) => ~IsOn(c)'
  BY <1>1, StepBits
<1>3. \A j \in 1 .. i - 1 : Tail(s)[j] = s[j + 1] /\ j + 1 \in 1 .. (i + 1) - 1
  BY <1>1
<1>4. 1 \in 1 .. (i + 1) - 1
  OBVIOUS
<1>5. ASSUME SetBefore(s, i + 1, c)
      PROVE  SetBefore(Tail(s), i, c)'
  <2>1. \A j \in 1 .. i - 1 : ~Takes(Tail(s)[j], c)
    BY <1>3, <1>5 DEF SetBefore
  <2>2. ~Takes(s[1], c)
    BY <1>4, <1>5 DEF SetBefore
  <2>3. CASE IsOn(c)
    BY <1>2, <2>1, <2>2, <2>3 DEF SetBefore
  <2>4. CASE ~IsOn(c)
    <3>1. PICK j \in 1 .. (i + 1) - 1 : Sure(s[j]) /\ Puts(s[j], c)
      BY <1>5, <2>4 DEF SetBefore
    <3>2. CASE j = 1
      BY <1>2, <2>1, <3>1, <3>2 DEF SetBefore
    <3>3. CASE j # 1
      <4>1. j - 1 \in 1 .. i - 1 /\ Tail(s)[j - 1] = s[j]
        BY <1>3, <3>3
      <4> QED BY <2>1, <3>1, <4>1 DEF SetBefore
    <3> QED BY <3>2, <3>3
  <2> QED BY <2>3, <2>4
<1>6. ASSUME ClearBefore(s, i + 1, c)
      PROVE  ClearBefore(Tail(s), i, c)'
  <2>1. \A j \in 1 .. i - 1 : ~Puts(Tail(s)[j], c)
    BY <1>3, <1>6 DEF ClearBefore
  <2>2. ~Puts(s[1], c)
    BY <1>4, <1>6 DEF ClearBefore
  <2>3. CASE ~IsOn(c)
    BY <1>2, <2>1, <2>2, <2>3 DEF ClearBefore
  <2>4. CASE IsOn(c)
    <3>1. PICK j \in 1 .. (i + 1) - 1 : Sure(s[j]) /\ Takes(s[j], c)
      BY <1>6, <2>4 DEF ClearBefore
    <3>2. CASE j = 1
      BY <1>2, <2>1, <3>1, <3>2 DEF ClearBefore
    <3>3. CASE j # 1
      <4>1. j - 1 \in 1 .. i - 1 /\ Tail(s)[j - 1] = s[j]
        BY <1>3, <3>3
      <4> QED BY <2>1, <3>1, <4>1 DEF ClearBefore
    <3> QED BY <3>2, <3>3
  <2> QED BY <2>3, <2>4
<1> QED BY <1>5, <1>6

\* The write that is done next leaves the rail as it must be, and the others in order.
LEMMA RailStep ==
    ASSUME NEW s \in Seq(Writes), s # <<>>, regs \in [C!Registers -> SUBSET C!Bits],
           regs' = [regs EXCEPT ![Head(s).reg] = C!New(Head(s), regs[Head(s).reg])],
           NEW r \in C!Rails, InOrder(s, r),
           IsOn(Clamp(r)) => IsOn(InReset(r)) /\ IsOn(PortOff(r)),
           ~IsOn(Clamp(r)) => IsOn(PowerOn(r))
    PROVE  /\ InOrder(Tail(s), r)'
           /\ (IsOn(Clamp(r)) => IsOn(InReset(r)) /\ IsOn(PortOff(r)))'
           /\ (~IsOn(Clamp(r)) => IsOn(PowerOn(r)))'
<1>1. /\ Head(s) = s[1] /\ s[1] \in Writes /\ Len(s) \in Nat /\ Len(s) >= 1
      /\ Len(Tail(s)) = Len(s) - 1
      /\ \A i \in 1 .. Len(s) - 1 : Tail(s)[i] = s[i + 1] /\ i + 1 \in 1 .. Len(s)
  BY TailAt
<1>2. Clamp(r) \in AllBits /\ InReset(r) \in AllBits /\ PortOff(r) \in AllBits
      /\ PowerOn(r) \in AllBits
  BY RailBits
<1>3. InOrder(Tail(s), r)'
  <2> SUFFICES ASSUME NEW i \in 1 .. Len(s) - 1
               PROVE  /\ Takes(s[i + 1], Clamp(r)) => SetBefore(Tail(s), i, PowerOn(r))'
                      /\ Takes(s[i + 1], PowerOn(r)) => SetBefore(Tail(s), i, Clamp(r))'
                      /\ Puts(s[i + 1], Clamp(r)) => /\ SetBefore(Tail(s), i, InReset(r))'
                                                     /\ SetBefore(Tail(s), i, PortOff(r))'
                      /\ Takes(s[i + 1], InReset(r)) \/ Takes(s[i + 1], PortOff(r)) =>
                            ClearBefore(Tail(s), i, Clamp(r))'
    BY <1>1 DEF InOrder
  <2>1. i + 1 \in 1 .. Len(s)
    BY <1>1
  <2> QED BY <1>2, <2>1, BeforeStays DEF InOrder
<1>4. \A c \in AllBits : /\ SetBefore(s, 1, c) <=> IsOn(c)
                         /\ ClearBefore(s, 1, c) <=> ~IsOn(c)
  BY DEF SetBefore, ClearBefore
<1>5. /\ Takes(s[1], Clamp(r)) => IsOn(PowerOn(r))
      /\ Takes(s[1], PowerOn(r)) => IsOn(Clamp(r))
      /\ Puts(s[1], Clamp(r)) => IsOn(InReset(r)) /\ IsOn(PortOff(r))
      /\ Takes(s[1], InReset(r)) \/ Takes(s[1], PortOff(r)) => ~IsOn(Clamp(r))
  BY <1>1, <1>2, <1>4 DEF InOrder
<1>6. \A c \in AllBits : /\ IsOn(c) /\ ~Takes(s[1], c) => IsOn(c)'
                         /\ ~IsOn(c) /\ ~Puts(s[1], c) => ~IsOn(c)'
  BY <1>1, StepBits
<1>7. ~(Takes(s[1], Clamp(r)) /\ Takes(s[1], PowerOn(r)))
  BY DEF Takes, Clamp, PowerOn, C!GFS, C!Rails
<1>8. ~(Puts(s[1], Clamp(r)) /\ (Takes(s[1], InReset(r)) \/ Takes(s[1], PortOff(r))))
  BY DEF Takes, Puts, Clamp, InReset, PortOff, C!Port, C!Rails
<1>9. (IsOn(Clamp(r)) => IsOn(InReset(r)) /\ IsOn(PortOff(r)))'
  BY <1>2, <1>5, <1>6, <1>8
<1>10. (~IsOn(Clamp(r)) => IsOn(PowerOn(r)))'
  BY <1>2, <1>5, <1>6, <1>7
<1> QED BY <1>3, <1>9, <1>10

-----------------------------------------------------------------------------
(* Sequences of writes that switch a rail, or leave it.                    *)

\* A write that leaves a rail as it is, but that it may put more of it into reset.
Mild(r) == {w \in Writes : /\ ~Takes(w, Clamp(r)) /\ ~Puts(w, Clamp(r))
                           /\ ~Takes(w, PowerOn(r))
                           /\ ~Takes(w, InReset(r)) /\ ~Takes(w, PortOff(r))}

\* Some write of the sequence sets the bit, whatever it reads.
SurePut(s, c) == \E i \in 1 .. Len(s) : Sure(s[i]) /\ Puts(s[i], c)

\* At its k-th write the sequence lets the rail drive the chip, or stops it.
Opens(s, k, r) ==
    /\ \A j \in 1 .. k - 1 : s[j] \in Mild(r)
    /\ Sure(s[k]) /\ Takes(s[k], Clamp(r)) /\ ~Puts(s[k], Clamp(r)) /\ ~Takes(s[k], PowerOn(r))
    /\ ~Takes(s[k], InReset(r)) /\ ~Takes(s[k], PortOff(r))
    /\ \A j \in k + 1 .. Len(s) : /\ ~Takes(s[j], Clamp(r)) /\ ~Puts(s[j], Clamp(r))
                                  /\ ~Takes(s[j], PowerOn(r))

Closes(s, k, r) ==
    /\ \A j \in 1 .. k - 1 : s[j] \in Mild(r)
    /\ Sure(s[k]) /\ Puts(s[k], Clamp(r)) /\ ~Takes(s[k], Clamp(r)) /\ ~Takes(s[k], PowerOn(r))
    /\ ~Takes(s[k], InReset(r)) /\ ~Takes(s[k], PortOff(r))
    /\ \A j \in k + 1 .. Len(s) : /\ ~Takes(s[j], Clamp(r)) /\ ~Puts(s[j], Clamp(r))
                                  /\ ~Takes(s[j], InReset(r)) /\ ~Takes(s[j], PortOff(r))

\* Power first.
SwitchesOn(s, r) ==
    \E k \in 1 .. Len(s) :
        /\ Opens(s, k, r)
        /\ \E p \in 1 .. k - 1 : Sure(s[p]) /\ Puts(s[p], PowerOn(r))

\* Reset and no port first.
SwitchesOff(s, r) ==
    \E k \in 1 .. Len(s) :
        /\ Closes(s, k, r)
        /\ \E p \in 1 .. k - 1 : Sure(s[p]) /\ Puts(s[p], InReset(r))
        /\ \E p \in 1 .. k - 1 : Sure(s[p]) /\ Puts(s[p], PortOff(r))

LEMMA MildInOrder ==
    ASSUME NEW r \in C!Rails, NEW s \in Seq(Mild(r))
    PROVE  InOrder(s, r)
<1>1. \A i \in 1 .. Len(s) : s[i] \in Mild(r)
  OBVIOUS
<1> QED BY <1>1 DEF InOrder, Mild

LEMMA OnInOrder ==
    ASSUME NEW r \in C!Rails, NEW s \in Seq(Writes), SwitchesOn(s, r)
    PROVE  InOrder(s, r)
<1>1. PICK k \in 1 .. Len(s) :
          /\ Opens(s, k, r)
          /\ \E p \in 1 .. k - 1 : Sure(s[p]) /\ Puts(s[p], PowerOn(r))
  BY DEF SwitchesOn
<1>2. Len(s) \in Nat
  OBVIOUS
<1> SUFFICES ASSUME NEW i \in 1 .. Len(s)
             PROVE  /\ Takes(s[i], Clamp(r)) => SetBefore(s, i, PowerOn(r))
                    /\ ~Takes(s[i], PowerOn(r))
                    /\ ~Puts(s[i], Clamp(r))
                    /\ Takes(s[i], InReset(r)) \/ Takes(s[i], PortOff(r)) =>
                          ClearBefore(s, i, Clamp(r))
  BY DEF InOrder
<1>3. CASE i < k
  <2>1. i \in 1 .. k - 1
    BY <1>2, <1>3
  <2> QED BY <1>1, <2>1 DEF Opens, Mild
<1>4. CASE i = k
  <2>1. \A j \in 1 .. k - 1 : ~Takes(s[j], PowerOn(r))
    BY <1>1 DEF Opens, Mild
  <2>2. SetBefore(s, k, PowerOn(r))
    BY <1>1, <2>1 DEF SetBefore
  <2> QED BY <1>1, <1>4, <2>2 DEF Opens
<1>5. CASE i > k
  <2>1. i \in k + 1 .. Len(s)
    BY <1>2, <1>5
  <2>2. k \in 1 .. i - 1 /\ Sure(s[k]) /\ Takes(s[k], Clamp(r))
    BY <1>1, <1>2, <1>5 DEF Opens
  <2>3. ASSUME NEW j \in 1 .. i - 1
        PROVE  ~Puts(s[j], Clamp(r))
    <3>1. j \in 1 .. k - 1 \/ j = k \/ j \in k + 1 .. Len(s)
      BY <1>2
    <3> QED BY <1>1, <3>1 DEF Opens, Mild
  <2>4. ClearBefore(s, i, Clamp(r))
    BY <2>2, <2>3 DEF ClearBefore
  <2> QED BY <1>1, <2>1, <2>4 DEF Opens
<1>6. i < k \/ i = k \/ i > k
  BY <1>2
<1> QED BY <1>3, <1>4, <1>5, <1>6

LEMMA OffInOrder ==
    ASSUME NEW r \in C!Rails, NEW s \in Seq(Writes), SwitchesOff(s, r)
    PROVE  InOrder(s, r)
<1>1. PICK k \in 1 .. Len(s) :
          /\ Closes(s, k, r)
          /\ \E p \in 1 .. k - 1 : Sure(s[p]) /\ Puts(s[p], InReset(r))
          /\ \E p \in 1 .. k - 1 : Sure(s[p]) /\ Puts(s[p], PortOff(r))
  BY DEF SwitchesOff
<1>2. Len(s) \in Nat
  OBVIOUS
<1> SUFFICES ASSUME NEW i \in 1 .. Len(s)
             PROVE  /\ ~Takes(s[i], Clamp(r))
                    /\ Takes(s[i], PowerOn(r)) => SetBefore(s, i, Clamp(r))
                    /\ Puts(s[i], Clamp(r)) => /\ SetBefore(s, i, InReset(r))
                                               /\ SetBefore(s, i, PortOff(r))
                    /\ ~Takes(s[i], InReset(r)) /\ ~Takes(s[i], PortOff(r))
  BY DEF InOrder
<1>3. CASE i < k
  <2>1. i \in 1 .. k - 1
    BY <1>2, <1>3
  <2> QED BY <1>1, <2>1 DEF Closes, Mild
<1>4. CASE i = k
  <2>1. \A j \in 1 .. k - 1 : ~Takes(s[j], InReset(r)) /\ ~Takes(s[j], PortOff(r))
    BY <1>1 DEF Closes, Mild
  <2>2. SetBefore(s, k, InReset(r)) /\ SetBefore(s, k, PortOff(r))
    BY <1>1, <2>1 DEF SetBefore
  <2> QED BY <1>1, <1>4, <2>2 DEF Closes
<1>5. CASE i > k
  <2>1. i \in k + 1 .. Len(s)
    BY <1>2, <1>5
  <2>2. k \in 1 .. i - 1 /\ Sure(s[k]) /\ Puts(s[k], Clamp(r))
    BY <1>1, <1>2, <1>5 DEF Closes
  <2>3. ASSUME NEW j \in 1 .. i - 1
        PROVE  ~Takes(s[j], Clamp(r))
    <3>1. j \in 1 .. k - 1 \/ j = k \/ j \in k + 1 .. Len(s)
      BY <1>2
    <3> QED BY <1>1, <3>1 DEF Closes, Mild
  <2>4. SetBefore(s, i, Clamp(r))
    BY <2>2, <2>3 DEF SetBefore
  <2> QED BY <1>1, <2>1, <2>4 DEF Closes
<1>6. i < k \/ i = k \/ i > k
  BY <1>2
<1> QED BY <1>3, <1>4, <1>5, <1>6

-----------------------------------------------------------------------------
(* One sequence of writes after another.                                   *)

LEMMA JoinAt ==
    ASSUME NEW u \in Seq(Writes), NEW v \in Seq(Writes)
    PROVE  /\ u \o v \in Seq(Writes) /\ Len(u) \in Nat /\ Len(v) \in Nat
           /\ Len(u \o v) = Len(u) + Len(v)
           /\ \A i \in 1 .. Len(u) : (u \o v)[i] = u[i]
           /\ \A i \in 1 .. Len(v) : (u \o v)[Len(u) + i] = v[i]
OBVIOUS

LEMMA JoinPuts ==
    ASSUME NEW u \in Seq(Writes), NEW v \in Seq(Writes), NEW c
    PROVE  SurePut(u, c) \/ SurePut(v, c) => SurePut(u \o v, c)
<1>1. CASE SurePut(u, c)
  <2>1. PICK i \in 1 .. Len(u) : Sure(u[i]) /\ Puts(u[i], c)
    BY <1>1 DEF SurePut
  <2>2. i \in 1 .. Len(u \o v) /\ (u \o v)[i] = u[i]
    BY JoinAt
  <2> QED BY <2>1, <2>2 DEF SurePut
<1>2. CASE SurePut(v, c)
  <2>1. PICK i \in 1 .. Len(v) : Sure(v[i]) /\ Puts(v[i], c)
    BY <1>2 DEF SurePut
  <2>2. Len(u) + i \in 1 .. Len(u \o v) /\ (u \o v)[Len(u) + i] = v[i]
    BY JoinAt
  <2> QED BY <2>1, <2>2 DEF SurePut
<1> QED BY <1>1, <1>2

\* Where a write of the whole comes from.
LEMMA JoinFrom ==
    ASSUME NEW u \in Seq(Writes), NEW v \in Seq(Writes), NEW i \in 1 .. Len(u \o v)
    PROVE  \/ i \in 1 .. Len(u) /\ (u \o v)[i] = u[i]
           \/ /\ i > Len(u) /\ i - Len(u) \in 1 .. Len(v)
              /\ (u \o v)[i] = v[i - Len(u)]
OBVIOUS

\* Writes that leave the rail as it is may come first.
LEMMA MildFirstOn ==
    ASSUME NEW r \in C!Rails, NEW u \in Seq(Mild(r)), NEW v \in Seq(Writes),
           NEW k \in 1 .. Len(v), Opens(v, k, r),
           \/ SurePut(u, PowerOn(r))
           \/ \E p \in 1 .. k - 1 : Sure(v[p]) /\ Puts(v[p], PowerOn(r))
    PROVE  SwitchesOn(u \o v, r)
<1>1. u \in Seq(Writes) /\ \A i \in 1 .. Len(u) : u[i] \in Mild(r)
  BY DEF Mild
<1> DEFINE s == u \o v
           m == Len(u) + k
<1>2. /\ Len(u) \in Nat /\ Len(v) \in Nat /\ Len(s) = Len(u) + Len(v)
      /\ \A i \in 1 .. Len(u) : s[i] = u[i]
      /\ \A i \in 1 .. Len(v) : s[Len(u) + i] = v[i]
      /\ \A i \in 1 .. Len(s) : \/ i \in 1 .. Len(u) /\ s[i] = u[i]
                                \/ /\ i > Len(u) /\ i - Len(u) \in 1 .. Len(v)
                                   /\ s[i] = v[i - Len(u)]
  BY <1>1, JoinAt, JoinFrom
<1> HIDE DEF s
<1>3. m \in 1 .. Len(s) /\ s[m] = v[k]
  BY <1>2
<1>4. ASSUME NEW j \in 1 .. m - 1
      PROVE  s[j] \in Mild(r)
  <2>1. j \in 1 .. Len(s) /\ (j > Len(u) => j - Len(u) \in 1 .. k - 1)
    BY <1>2
  <2> QED BY <1>1, <1>2, <2>1 DEF Opens
<1>5. ASSUME NEW j \in m + 1 .. Len(s)
      PROVE  ~Takes(s[j], Clamp(r)) /\ ~Puts(s[j], Clamp(r)) /\ ~Takes(s[j], PowerOn(r))
  <2>1. j - Len(u) \in k + 1 .. Len(v) /\ j \in 1 .. Len(s) /\ ~(j \in 1 .. Len(u))
    BY <1>2
  <2>2. s[j] = v[j - Len(u)]
    BY <1>2, <2>1
  <2> QED BY <2>1, <2>2 DEF Opens
<1>6. Opens(s, m, r)
  BY <1>3, <1>4, <1>5 DEF Opens
<1>7. \E p \in 1 .. m - 1 : Sure(s[p]) /\ Puts(s[p], PowerOn(r))
  <2>1. CASE SurePut(u, PowerOn(r))
    <3>1. PICK p \in 1 .. Len(u) : Sure(u[p]) /\ Puts(u[p], PowerOn(r))
      BY <2>1 DEF SurePut
    <3>2. p \in 1 .. m - 1 /\ s[p] = u[p]
      BY <1>2
    <3> QED BY <3>1, <3>2
  <2>2. CASE \E p \in 1 .. k - 1 : Sure(v[p]) /\ Puts(v[p], PowerOn(r))
    <3>1. PICK p \in 1 .. k - 1 : Sure(v[p]) /\ Puts(v[p], PowerOn(r))
      BY <2>2
    <3>2. Len(u) + p \in 1 .. m - 1 /\ s[Len(u) + p] = v[p]
      BY <1>2
    <3> QED BY <3>1, <3>2
  <2> QED BY <2>1, <2>2
<1>8. SwitchesOn(s, r)
  BY <1>3, <1>6, <1>7 DEF SwitchesOn
<1> QED BY <1>8 DEF s

LEMMA MildFirstOff ==
    ASSUME NEW r \in C!Rails, NEW u \in Seq(Mild(r)), NEW v \in Seq(Writes),
           NEW k \in 1 .. Len(v), Closes(v, k, r),
           \/ SurePut(u, InReset(r)) /\ SurePut(u, PortOff(r))
           \/ /\ \E p \in 1 .. k - 1 : Sure(v[p]) /\ Puts(v[p], InReset(r))
              /\ \E p \in 1 .. k - 1 : Sure(v[p]) /\ Puts(v[p], PortOff(r))
    PROVE  SwitchesOff(u \o v, r)
<1>1. u \in Seq(Writes) /\ \A i \in 1 .. Len(u) : u[i] \in Mild(r)
  BY DEF Mild
<1> DEFINE s == u \o v
           m == Len(u) + k
<1>2. /\ Len(u) \in Nat /\ Len(v) \in Nat /\ Len(s) = Len(u) + Len(v)
      /\ \A i \in 1 .. Len(u) : s[i] = u[i]
      /\ \A i \in 1 .. Len(v) : s[Len(u) + i] = v[i]
      /\ \A i \in 1 .. Len(s) : \/ i \in 1 .. Len(u) /\ s[i] = u[i]
                                \/ /\ i > Len(u) /\ i - Len(u) \in 1 .. Len(v)
                                   /\ s[i] = v[i - Len(u)]
  BY <1>1, JoinAt, JoinFrom
<1> HIDE DEF s
<1>3. m \in 1 .. Len(s) /\ s[m] = v[k]
  BY <1>2
<1>4. ASSUME NEW j \in 1 .. m - 1
      PROVE  s[j] \in Mild(r)
  <2>1. j \in 1 .. Len(s) /\ (j > Len(u) => j - Len(u) \in 1 .. k - 1)
    BY <1>2
  <2> QED BY <1>1, <1>2, <2>1 DEF Closes
<1>5. ASSUME NEW j \in m + 1 .. Len(s)
      PROVE  /\ ~Takes(s[j], Clamp(r)) /\ ~Puts(s[j], Clamp(r))
             /\ ~Takes(s[j], InReset(r)) /\ ~Takes(s[j], PortOff(r))
  <2>1. j - Len(u) \in k + 1 .. Len(v) /\ j \in 1 .. Len(s) /\ ~(j \in 1 .. Len(u))
    BY <1>2
  <2>2. s[j] = v[j - Len(u)]
    BY <1>2, <2>1
  <2> QED BY <2>1, <2>2 DEF Closes
<1>6. Closes(s, m, r)
  BY <1>3, <1>4, <1>5 DEF Closes
<1>7. ASSUME NEW c,
             SurePut(u, c) \/ \E p \in 1 .. k - 1 : Sure(v[p]) /\ Puts(v[p], c)
      PROVE  \E p \in 1 .. m - 1 : Sure(s[p]) /\ Puts(s[p], c)
  <2>1. CASE SurePut(u, c)
    <3>1. PICK p \in 1 .. Len(u) : Sure(u[p]) /\ Puts(u[p], c)
      BY <2>1 DEF SurePut
    <3>2. p \in 1 .. m - 1 /\ s[p] = u[p]
      BY <1>2
    <3> QED BY <3>1, <3>2
  <2>2. CASE \E p \in 1 .. k - 1 : Sure(v[p]) /\ Puts(v[p], c)
    <3>1. PICK p \in 1 .. k - 1 : Sure(v[p]) /\ Puts(v[p], c)
      BY <2>2
    <3>2. Len(u) + p \in 1 .. m - 1 /\ s[Len(u) + p] = v[p]
      BY <1>2
    <3> QED BY <3>1, <3>2
  <2> QED BY <1>7, <2>1, <2>2
<1>8. SwitchesOff(s, r)
  BY <1>3, <1>6, <1>7 DEF SwitchesOff
<1> QED BY <1>8 DEF s

\* Writes that leave the rail as it is may come last.
LEMMA MildLast ==
    ASSUME NEW r \in C!Rails, NEW s \in Seq(Writes), NEW z \in Seq(Mild(r))
    PROVE  /\ SwitchesOn(s, r) => SwitchesOn(s \o z, r)
           /\ SwitchesOff(s, r) => SwitchesOff(s \o z, r)
<1>1. z \in Seq(Writes) /\ \A i \in 1 .. Len(z) : z[i] \in Mild(r)
  BY DEF Mild
<1> DEFINE q == s \o z
<1>2. /\ Len(s) \in Nat /\ Len(z) \in Nat /\ Len(q) = Len(s) + Len(z)
      /\ \A i \in 1 .. Len(s) : q[i] = s[i]
      /\ \A i \in 1 .. Len(q) : \/ i \in 1 .. Len(s) /\ q[i] = s[i]
                                \/ /\ i > Len(s) /\ i - Len(s) \in 1 .. Len(z)
                                   /\ q[i] = z[i - Len(s)]
  BY <1>1, JoinAt, JoinFrom
<1> HIDE DEF q
<1>3. ASSUME NEW k \in 1 .. Len(s)
      PROVE  /\ k \in 1 .. Len(q) /\ q[k] = s[k]
             /\ \A j \in 1 .. k - 1 : q[j] = s[j]
             /\ \A j \in k + 1 .. Len(q) : \/ j \in k + 1 .. Len(s) /\ q[j] = s[j]
                                           \/ q[j] \in Mild(r)
  <2>1. k \in 1 .. Len(q) /\ \A j \in 1 .. k : j \in 1 .. Len(s)
    BY <1>2
  <2>2. ASSUME NEW j \in k + 1 .. Len(q)
        PROVE  (j \in k + 1 .. Len(s) /\ q[j] = s[j]) \/ q[j] \in Mild(r)
    <3>1. j \in 1 .. Len(q) /\ (j \in 1 .. Len(s) => j \in k + 1 .. Len(s))
      BY <1>2
    <3> QED BY <1>1, <1>2, <3>1
  <2> QED BY <1>2, <2>1, <2>2
<1>4. ASSUME SwitchesOn(s, r)
      PROVE  SwitchesOn(q, r)
  <2>1. PICK k \in 1 .. Len(s) :
            /\ Opens(s, k, r)
            /\ \E p \in 1 .. k - 1 : Sure(s[p]) /\ Puts(s[p], PowerOn(r))
    BY <1>4 DEF SwitchesOn
  <2>2. Opens(q, k, r)
    BY <1>3, <2>1 DEF Opens, Mild
  <2> QED BY <1>3, <2>1, <2>2 DEF SwitchesOn
<1>5. ASSUME SwitchesOff(s, r)
      PROVE  SwitchesOff(q, r)
  <2>1. PICK k \in 1 .. Len(s) :
            /\ Closes(s, k, r)
            /\ \E p \in 1 .. k - 1 : Sure(s[p]) /\ Puts(s[p], InReset(r))
            /\ \E p \in 1 .. k - 1 : Sure(s[p]) /\ Puts(s[p], PortOff(r))
    BY <1>5 DEF SwitchesOff
  <2>2. Closes(q, k, r)
    BY <1>3, <2>1 DEF Closes, Mild
  <2> QED BY <1>3, <2>1, <2>2 DEF SwitchesOff
<1> QED BY <1>4, <1>5 DEF q

-----------------------------------------------------------------------------
(* The bits that let the clocks run, and whose they are.                   *)

GatedRegs == {"0x2c0", "0x9c", "0xa4", "0xac", "0xb4", "0xbc"}
IdxIds == {"GRP", "IMEM", "SDC1_PCLK", "SDC2_PCLK", "SDC3_PCLK", "SDC4_PCLK", "UART1DM",
           "UART2DM", "USB_HS_PCLK"}
Others == {"MDP", "PMDH", "I2C", "MDC", "ADSP", "IMEM", "GRP", "VFE", "VDC"}

LEMMA IdxDomain == DOMAIN C!idx = IdxIds
BY DEF C!idx, IdxIds

LEMMA ListsApart ==
    /\ \A id \in C!Gated : id \notin C!UARTs /\ id \notin IdxIds /\ id \notin Others
    /\ \A id \in C!UARTs : id \notin IdxIds /\ id \notin Others
BY DEF C!Gated, C!UARTs, IdxIds, Others

LEMMA UartBitsAre ==
    /\ C!ToSet(C!UartBits["UART1"]) = {4, 5}
    /\ C!ToSet(C!UartBits["UART2"]) = {10, 11}
    /\ C!ToSet(C!UartBits["UART3"]) = {16, 17}
<1>1. C!ToSet(<<4, 5>>) = {4, 5} /\ C!ToSet(<<10, 11>>) = {10, 11}
      /\ C!ToSet(<<16, 17>>) = {16, 17}
  BY DEF C!ToSet, ToSet
<1> QED BY <1>1 DEF C!UartBits

LEMMA RunBitsAre ==
    /\ C!RunBits("MDP") = {<<"CTL", 9>>}
    /\ \A id \in {"PMDH", "I2C", "MDC"} :
          C!RunBits(id) = {<<C!offset[id], 9>>, <<C!offset[id], 11>>}
    /\ C!RunBits("ADSP") = {<<"0x34", 11>>, <<"0x34", 20>>}
    /\ \A id \in C!UARTs :
          C!RunBits(id) = {<<C!offset[id], b>> : b \in C!ToSet(C!UartBits[id])}
    /\ \A id \in C!Gated : C!RunBits(id) = {<<C!offset[id], b>> : b \in {8, 9, 11}}
    /\ \A id \in {"IMEM", "GRP"} :
          C!RunBits(id) = {<<"CTL", 3>>} \cup {<<"GRP_NS", b>> : b \in {7, 9, 11}}
    /\ C!RunBits("VFE") = {<<"0x44", b>> : b \in {9, 11, 13}}
    /\ C!RunBits("VDC") = {<<"0xf0", 9>>, <<"0xf0", 11>>}
    /\ \A id \in IdxIds \ Others : C!RunBits(id) = {<<"CTL", C!idx[id]>>}
    /\ \A id : id \notin IdxIds \cup Others \cup C!UARTs \cup C!Gated => C!RunBits(id) = {}
<1>1. C!RunBits("MDP") = {<<"CTL", 9>>}
  BY IdxDomain DEF C!RunBits, C!UARTs, C!Gated, IdxIds
<1>2. \A id \in {"PMDH", "I2C", "MDC"} :
          C!RunBits(id) = {<<C!offset[id], 9>>, <<C!offset[id], 11>>}
  BY IdxDomain DEF C!RunBits, C!UARTs, C!Gated, IdxIds
<1>3. C!RunBits("ADSP") = {<<"0x34", 11>>, <<"0x34", 20>>}
  BY IdxDomain DEF C!RunBits, C!UARTs, C!Gated, IdxIds, C!offset
<1>4. \A id \in C!UARTs :
          C!RunBits(id) = {<<C!offset[id], b>> : b \in C!ToSet(C!UartBits[id])}
  <2> SUFFICES ASSUME NEW id \in C!UARTs
               PROVE  C!RunBits(id) = {<<C!offset[id], b>> : b \in C!ToSet(C!UartBits[id])}
    OBVIOUS
  <2>1. /\ id \notin C!Gated /\ id \notin DOMAIN C!idx /\ id \notin {"PMDH", "I2C", "MDC"}
        /\ id \notin {"IMEM", "GRP"} /\ id # "MDP" /\ id # "ADSP" /\ id # "VFE" /\ id # "VDC"
    BY IdxDomain, ListsApart DEF Others
  <2> QED BY <2>1 DEF C!RunBits
<1>5. \A id \in C!Gated : C!RunBits(id) = {<<C!offset[id], b>> : b \in {8, 9, 11}}
  <2> SUFFICES ASSUME NEW id \in C!Gated
               PROVE  C!RunBits(id) = {<<C!offset[id], b>> : b \in {8, 9, 11}}
    OBVIOUS
  <2>1. /\ id \notin C!UARTs /\ id \notin DOMAIN C!idx /\ id \notin {"PMDH", "I2C", "MDC"}
        /\ id \notin {"IMEM", "GRP"} /\ id # "MDP" /\ id # "ADSP" /\ id # "VFE" /\ id # "VDC"
    BY IdxDomain, ListsApart DEF Others
  <2> QED BY <2>1 DEF C!RunBits
<1>6. \A id \in {"IMEM", "GRP"} :
          C!RunBits(id) = {<<"CTL", 3>>} \cup {<<"GRP_NS", b>> : b \in {7, 9, 11}}
  BY IdxDomain DEF C!RunBits, C!UARTs, C!Gated, IdxIds
<1>7. C!RunBits("VFE") = {<<"0x44", b>> : b \in {9, 11, 13}}
  BY IdxDomain DEF C!RunBits, C!UARTs, C!Gated, IdxIds, C!offset
<1>8. C!RunBits("VDC") = {<<"0xf0", 9>>, <<"0xf0", 11>>}
  BY IdxDomain DEF C!RunBits, C!UARTs, C!Gated, IdxIds, C!offset
<1>9. \A id \in IdxIds \ Others : C!RunBits(id) = {<<"CTL", C!idx[id]>>}
  <2> SUFFICES ASSUME NEW id \in IdxIds \ Others
               PROVE  C!RunBits(id) = {<<"CTL", C!idx[id]>>}
    OBVIOUS
  <2>1. /\ id \notin C!UARTs /\ id \notin C!Gated /\ id \notin {"PMDH", "I2C", "MDC"}
        /\ id \notin {"IMEM", "GRP"} /\ id # "MDP" /\ id # "ADSP" /\ id # "VFE" /\ id # "VDC"
    BY ListsApart DEF Others
  <2>2. id \in DOMAIN C!idx
    BY IdxDomain
  <2> QED BY <2>1, <2>2 DEF C!RunBits
<1>10. \A id : id \notin IdxIds \cup Others \cup C!UARTs \cup C!Gated => C!RunBits(id) = {}
  <2> SUFFICES ASSUME NEW id, id \notin IdxIds \cup Others \cup C!UARTs \cup C!Gated
               PROVE  C!RunBits(id) = {}
    OBVIOUS
  <2>1. /\ id \notin C!UARTs /\ id \notin C!Gated /\ id \notin {"PMDH", "I2C", "MDC"}
        /\ id \notin DOMAIN C!idx
        /\ id \notin {"IMEM", "GRP"} /\ id # "MDP" /\ id # "ADSP" /\ id # "VFE" /\ id # "VDC"
    BY IdxDomain DEF Others
  <2> QED BY <2>1 DEF C!RunBits
<1> QED BY <1>1, <1>2, <1>3, <1>4, <1>5, <1>6, <1>7, <1>8, <1>9, <1>10

\* Which clock a bit lets run.
LEMMA Owners ==
    ASSUME NEW id, NEW c \in C!RunBits(id)
    PROVE  \/ c[1] = "CTL" /\ \/ c[2] = 9 /\ id = "MDP"
                              \/ c[2] = 3 /\ id \in {"GRP", "IMEM"}
                              \/ c[2] \in {7, 8, 17, 25, 26, 27, 28} /\ id \in IdxIds \ Others
           \/ c[1] = "GRP_NS" /\ c[2] \in {7, 9, 11} /\ id \in {"GRP", "IMEM"}
           \/ c[1] = "0x8c" /\ c[2] \in {9, 11} /\ id = "PMDH"
           \/ c[1] = "0x68" /\ c[2] \in {9, 11} /\ id = "I2C"
           \/ c[1] = "0x7c" /\ c[2] \in {9, 11} /\ id = "MDC"
           \/ c[1] = "0x34" /\ c[2] \in {11, 20} /\ id = "ADSP"
           \/ c[1] = "0xe0" /\ \/ c[2] \in {4, 5} /\ id = "UART1"
                               \/ c[2] \in {10, 11} /\ id = "UART2"
                               \/ c[2] \in {16, 17} /\ id = "UART3"
           \/ id \in C!Gated /\ c[1] = C!offset[id] /\ c[1] \in GatedRegs /\ c[2] \in {8, 9, 11}
           \/ c[1] = "0x44" /\ c[2] \in {9, 11, 13} /\ id = "VFE"
           \/ c[1] = "0xf0" /\ c[2] \in {9, 11} /\ id = "VDC"
<1>1. CASE id = "MDP"
  BY <1>1, RunBitsAre
<1>2. CASE id \in {"PMDH", "I2C", "MDC"}
  <2>1. C!RunBits(id) = {<<C!offset[id], 9>>, <<C!offset[id], 11>>}
    BY <1>2, RunBitsAre
  <2>2. C!offset["PMDH"] = "0x8c" /\ C!offset["I2C"] = "0x68" /\ C!offset["MDC"] = "0x7c"
    BY DEF C!offset
  <2> QED BY <1>2, <2>1, <2>2
<1>3. CASE id = "ADSP"
  BY <1>3, RunBitsAre
<1>4. CASE id \in C!UARTs
  <2>1. C!RunBits(id) = {<<C!offset[id], b>> : b \in C!ToSet(C!UartBits[id])}
    BY <1>4, RunBitsAre
  <2>2. C!offset["UART1"] = "0xe0" /\ C!offset["UART2"] = "0xe0" /\ C!offset["UART3"] = "0xe0"
    BY DEF C!offset
  <2> QED BY <1>4, <2>1, <2>2, UartBitsAre DEF C!UARTs
<1>5. CASE id \in C!Gated
  <2>1. C!RunBits(id) = {<<C!offset[id], b>> : b \in {8, 9, 11}}
    BY <1>5, RunBitsAre
  <2>2. C!offset[id] \in GatedRegs
    BY <1>5 DEF C!Gated, C!offset, GatedRegs
  <2> QED BY <1>5, <2>1, <2>2
<1>6. CASE id \in {"IMEM", "GRP"}
  <2>1. C!RunBits(id) = {<<"CTL", 3>>} \cup {<<"GRP_NS", b>> : b \in {7, 9, 11}}
    BY <1>6, RunBitsAre
  <2> QED BY <1>6, <2>1
<1>7. CASE id = "VFE"
  <2>1. C!RunBits(id) = {<<"0x44", b>> : b \in {9, 11, 13}}
    BY <1>7, RunBitsAre
  <2> QED BY <1>7, <2>1
<1>8. CASE id = "VDC"
  BY <1>8, RunBitsAre
<1>9. CASE id \in IdxIds \ Others
  <2>1. C!RunBits(id) = {<<"CTL", C!idx[id]>>}
    BY <1>9, RunBitsAre
  <2>2. C!idx[id] \in {7, 8, 17, 25, 26, 27, 28}
    BY <1>9 DEF C!idx, IdxIds, Others
  <2> QED BY <1>9, <2>1, <2>2
<1>10. CASE id \notin IdxIds \cup Others \cup C!UARTs \cup C!Gated
  BY <1>10, RunBitsAre
<1> QED BY <1>1, <1>2, <1>3, <1>4, <1>5, <1>6, <1>7, <1>8, <1>9, <1>10 DEF Others

LEMMA GatedApart ==
    ASSUME NEW a \in C!Gated, NEW b \in C!Gated, C!offset[a] = C!offset[b]
    PROVE  a = b
BY DEF C!Gated, C!offset

LEMMA RunInBits ==
    ASSUME NEW id, NEW c \in C!RunBits(id)
    PROVE  c[1] \in C!Registers /\ c[2] \in C!Bits
<1>1. \A d \in {"SDAC", "SDC1", "SDC2", "SDC3", "SDC4", "USB_HS", "PMDH", "I2C", "MDC",
                "ADSP", "UART1", "VFE", "VDC"} : C!offset[d] \in C!Registers
  BY DEF C!offset, C!Registers
<1>2. \A e \in {"CTL", "GRP_NS"} : e \in C!Registers
  BY DEF C!Registers
<1>3. \A e \in {"0x8c", "0x68", "0x7c", "0x34", "0xe0", "0x44", "0xf0"} : e \in C!Registers
  BY <1>1 DEF C!offset
<1>4. \A d \in C!Gated : C!offset[d] \in C!Registers
  BY <1>1 DEF C!Gated
<1>5. c[1] \in C!Registers
  BY <1>2, <1>3, <1>4, Owners
<1>6. c[2] \in C!Bits
  BY Owners DEF C!Bits
<1> QED BY <1>5, <1>6

-----------------------------------------------------------------------------
(* The calls, written out.                                                 *)

OrEach(g, bits) == [i \in DOMAIN bits |-> C!REG_OR(g, {bits[i]})]
AndEach(g, bits) == [i \in DOMAIN bits |-> C!REG_AND(g, {bits[i]})]

\* The calls, clock by clock.
LEMMA EnableIs ==
    /\ C!msm_clk_enable("MDP") = <<C!REG_OR("CTL", {9})>> \o C!EnableBit("MDP")
    /\ C!msm_clk_enable("PMDH") = <<C!KeepOr("0x8c", (0 .. 6) \cup {9, 10}, {11}),
                                    C!KeepOr("0x8c", (0 .. 6) \cup {10, 11}, {9})>>
                                  \o C!EnableBit("PMDH")
    /\ C!msm_clk_enable("I2C") = <<C!KeepOr("0x68", {9, 10}, {11}),
                                   C!KeepOr("0x68", {10, 11}, {9})>> \o C!EnableBit("I2C")
    /\ C!msm_clk_enable("ADSP") = <<C!REG_OR("0x34", {11}), C!REG_OR("0x34", {20})>>
                                  \o C!EnableBit("ADSP")
    /\ \A id \in C!UARTs :
          C!msm_clk_enable(id) = OrEach(C!offset[id], C!UartBits[id]) \o C!EnableBit(id)
    /\ \A id \in C!Gated :
          C!msm_clk_enable(id) = OrEach(C!offset[id], <<11, 8, 9>>) \o C!EnableBit(id)
    /\ \A id \in {"IMEM", "GRP"} :
          C!msm_clk_enable(id) = C!set_grp_rail(TRUE) \o C!EnableBit(id)
    /\ C!msm_clk_enable("MDC") = OrEach("0x7c", <<11, 9>>) \o C!EnableBit("MDC")
    /\ C!msm_clk_enable("VFE") = C!set_vfe_rail(TRUE) \o C!EnableBit("VFE")
    /\ C!msm_clk_enable("VDC") = C!set_vdc_rail(TRUE) \o C!EnableBit("VDC")
    /\ \A id : id \notin Others \cup C!UARTs \cup C!Gated =>
          C!msm_clk_enable(id) = <<>> \o C!EnableBit(id)
<1> USE DEF OrEach
<1>1. C!msm_clk_enable("MDP") = <<C!REG_OR("CTL", {9})>> \o C!EnableBit("MDP")
  BY DEF C!msm_clk_enable, C!UARTs, C!Gated
<1>2. C!msm_clk_enable("PMDH") = <<C!KeepOr("0x8c", (0 .. 6) \cup {9, 10}, {11}),
                                   C!KeepOr("0x8c", (0 .. 6) \cup {10, 11}, {9})>>
                                 \o C!EnableBit("PMDH")
  BY DEF C!msm_clk_enable, C!UARTs, C!Gated, C!offset
<1>3. C!msm_clk_enable("I2C") = <<C!KeepOr("0x68", {9, 10}, {11}),
                                  C!KeepOr("0x68", {10, 11}, {9})>> \o C!EnableBit("I2C")
  BY DEF C!msm_clk_enable, C!UARTs, C!Gated, C!offset
<1>4. C!msm_clk_enable("ADSP") = <<C!REG_OR("0x34", {11}), C!REG_OR("0x34", {20})>>
                                 \o C!EnableBit("ADSP")
  BY DEF C!msm_clk_enable, C!UARTs, C!Gated, C!offset
<1>5. \A id \in C!UARTs :
          C!msm_clk_enable(id) = OrEach(C!offset[id], C!UartBits[id]) \o C!EnableBit(id)
  <2> SUFFICES ASSUME NEW id \in C!UARTs
               PROVE  C!msm_clk_enable(id) = OrEach(C!offset[id], C!UartBits[id])
                                             \o C!EnableBit(id)
    OBVIOUS
  <2>1. /\ id \notin C!Gated /\ id \notin {"IMEM", "GRP"} /\ id # "MDP" /\ id # "PMDH"
        /\ id # "I2C" /\ id # "ADSP" /\ id # "MDC" /\ id # "VFE" /\ id # "VDC"
    BY ListsApart DEF Others
  <2> QED BY <2>1 DEF C!msm_clk_enable, C!ForEach
<1>6. \A id \in C!Gated :
          C!msm_clk_enable(id) = OrEach(C!offset[id], <<11, 8, 9>>) \o C!EnableBit(id)
  <2> SUFFICES ASSUME NEW id \in C!Gated
               PROVE  C!msm_clk_enable(id) = OrEach(C!offset[id], <<11, 8, 9>>)
                                             \o C!EnableBit(id)
    OBVIOUS
  <2>1. /\ id \notin C!UARTs /\ id \notin {"IMEM", "GRP"} /\ id # "MDP" /\ id # "PMDH"
        /\ id # "I2C" /\ id # "ADSP" /\ id # "MDC" /\ id # "VFE" /\ id # "VDC"
    BY ListsApart DEF Others
  <2> QED BY <2>1 DEF C!msm_clk_enable, C!ForEach
<1>7. \A id \in {"IMEM", "GRP"} :
          C!msm_clk_enable(id) = C!set_grp_rail(TRUE) \o C!EnableBit(id)
  BY DEF C!msm_clk_enable, C!UARTs, C!Gated
<1>8. C!msm_clk_enable("MDC") = OrEach("0x7c", <<11, 9>>) \o C!EnableBit("MDC")
  BY DEF C!msm_clk_enable, C!UARTs, C!Gated, C!offset, C!ForEach
<1>9. C!msm_clk_enable("VFE") = C!set_vfe_rail(TRUE) \o C!EnableBit("VFE")
  BY DEF C!msm_clk_enable, C!UARTs, C!Gated
<1>10. C!msm_clk_enable("VDC") = C!set_vdc_rail(TRUE) \o C!EnableBit("VDC")
  BY DEF C!msm_clk_enable, C!UARTs, C!Gated
<1>11. \A id : id \notin Others \cup C!UARTs \cup C!Gated =>
          C!msm_clk_enable(id) = <<>> \o C!EnableBit(id)
  <2> SUFFICES ASSUME NEW id, id \notin Others \cup C!UARTs \cup C!Gated
               PROVE  C!msm_clk_enable(id) = <<>> \o C!EnableBit(id)
    OBVIOUS
  <2>1. /\ id \notin C!UARTs /\ id \notin C!Gated /\ id \notin {"IMEM", "GRP"}
        /\ id # "MDP" /\ id # "PMDH"
        /\ id # "I2C" /\ id # "ADSP" /\ id # "MDC" /\ id # "VFE" /\ id # "VDC"
    BY DEF Others
  <2> QED BY <2>1 DEF C!msm_clk_enable
<1> QED BY <1>1, <1>2, <1>3, <1>4, <1>5, <1>6, <1>7, <1>8, <1>9, <1>10, <1>11

LEMMA DisableIs ==
    /\ C!msm_clk_disable("MDP") = <<C!REG_AND("CTL", {9})>>
    /\ C!msm_clk_disable("PMDH") = <<C!KeepOr("0x8c", (0 .. 6) \cup {10, 11}, {}),
                                     C!KeepOr("0x8c", (0 .. 6) \cup {9, 10}, {})>>
    /\ C!msm_clk_disable("I2C") = <<C!KeepOr("0x68", {10, 11}, {}),
                                    C!KeepOr("0x68", {9, 10}, {})>>
    /\ C!msm_clk_disable("ADSP") = <<C!REG_AND("0x34", {20}),
                                     [C!REG_AND("0x34", {11}) EXCEPT !.unless = {7, 9}]>>
    /\ \A id \in C!UARTs :
          C!msm_clk_disable(id) = AndEach(C!offset[id], C!Reverse(C!UartBits[id]))
    /\ \A id \in C!Gated : C!msm_clk_disable(id) = AndEach(C!offset[id], <<9, 11, 8>>)
    /\ \A id \in {"IMEM", "GRP"} :
          C!msm_clk_disable(id) = C!set_grp_rail(FALSE) \o <<C!REG_AND("CTL", {3})>>
    /\ C!msm_clk_disable("MDC") = AndEach("0x7c", <<9, 11>>)
    /\ C!msm_clk_disable("VFE") = C!set_vfe_rail(FALSE)
    /\ C!msm_clk_disable("VDC") = C!set_vdc_rail(FALSE)
    /\ \A id : id \notin Others \cup C!UARTs \cup C!Gated => C!msm_clk_disable(id) = <<>>
<1> USE DEF AndEach
<1>1. C!msm_clk_disable("MDP") = <<C!REG_AND("CTL", {9})>>
  BY DEF C!msm_clk_disable, C!UARTs, C!Gated
<1>2. C!msm_clk_disable("PMDH") = <<C!KeepOr("0x8c", (0 .. 6) \cup {10, 11}, {}),
                                    C!KeepOr("0x8c", (0 .. 6) \cup {9, 10}, {})>>
  BY DEF C!msm_clk_disable, C!UARTs, C!Gated, C!offset
<1>3. C!msm_clk_disable("I2C") = <<C!KeepOr("0x68", {10, 11}, {}),
                                   C!KeepOr("0x68", {9, 10}, {})>>
  BY DEF C!msm_clk_disable, C!UARTs, C!Gated, C!offset
<1>4. C!msm_clk_disable("ADSP") = <<C!REG_AND("0x34", {20}),
                                    [C!REG_AND("0x34", {11}) EXCEPT !.unless = {7, 9}]>>
  BY DEF C!msm_clk_disable, C!UARTs, C!Gated, C!offset
<1>5. \A id \in C!UARTs :
          C!msm_clk_disable(id) = AndEach(C!offset[id], C!Reverse(C!UartBits[id]))
  <2> SUFFICES ASSUME NEW id \in C!UARTs
               PROVE  C!msm_clk_disable(id) = AndEach(C!offset[id], C!Reverse(C!UartBits[id]))
    OBVIOUS
  <2>1. /\ id \notin C!Gated /\ id \notin {"IMEM", "GRP"} /\ id # "MDP" /\ id # "PMDH"
        /\ id # "I2C" /\ id # "ADSP" /\ id # "MDC" /\ id # "VFE" /\ id # "VDC"
    BY ListsApart DEF Others
  <2> QED BY <2>1 DEF C!msm_clk_disable, C!ForEach
<1>6. \A id \in C!Gated : C!msm_clk_disable(id) = AndEach(C!offset[id], <<9, 11, 8>>)
  <2> SUFFICES ASSUME NEW id \in C!Gated
               PROVE  C!msm_clk_disable(id) = AndEach(C!offset[id], <<9, 11, 8>>)
    OBVIOUS
  <2>1. /\ id \notin C!UARTs /\ id \notin {"IMEM", "GRP"} /\ id # "MDP" /\ id # "PMDH"
        /\ id # "I2C" /\ id # "ADSP" /\ id # "MDC" /\ id # "VFE" /\ id # "VDC"
    BY ListsApart DEF Others
  <2> QED BY <2>1 DEF C!msm_clk_disable, C!ForEach
<1>7. \A id \in {"IMEM", "GRP"} :
          C!msm_clk_disable(id) = C!set_grp_rail(FALSE) \o <<C!REG_AND("CTL", {3})>>
  <2>1. C!idx["IMEM"] = 3 /\ C!idx["GRP"] = 3
    BY DEF C!idx
  <2>2. \A id \in {"IMEM", "GRP"} :
            C!msm_clk_disable(id) = C!set_grp_rail(FALSE) \o <<C!REG_AND("CTL", {C!idx[id]})>>
    BY DEF C!msm_clk_disable, C!UARTs, C!Gated
  <2> QED BY <2>1, <2>2
<1>8. C!msm_clk_disable("MDC") = AndEach("0x7c", <<9, 11>>)
  BY DEF C!msm_clk_disable, C!UARTs, C!Gated, C!offset, C!ForEach
<1>9. C!msm_clk_disable("VFE") = C!set_vfe_rail(FALSE)
  BY DEF C!msm_clk_disable, C!UARTs, C!Gated
<1>10. C!msm_clk_disable("VDC") = C!set_vdc_rail(FALSE)
  BY DEF C!msm_clk_disable, C!UARTs, C!Gated
<1>11. \A id : id \notin Others \cup C!UARTs \cup C!Gated => C!msm_clk_disable(id) = <<>>
  <2> SUFFICES ASSUME NEW id, id \notin Others \cup C!UARTs \cup C!Gated
               PROVE  C!msm_clk_disable(id) = <<>>
    OBVIOUS
  <2>1. /\ id \notin C!UARTs /\ id \notin C!Gated /\ id \notin {"IMEM", "GRP"}
        /\ id # "MDP" /\ id # "PMDH"
        /\ id # "I2C" /\ id # "ADSP" /\ id # "MDC" /\ id # "VFE" /\ id # "VDC"
    BY DEF Others
  <2> QED BY <2>1 DEF C!msm_clk_disable
<1> QED BY <1>1, <1>2, <1>3, <1>4, <1>5, <1>6, <1>7, <1>8, <1>9, <1>10, <1>11

-----------------------------------------------------------------------------
(* Writes that touch no rail and take no clock away.                       *)

RailRegs == {"CLAMP", "AXI_RESET", "AXI+0x10080", "AXI+0x20080", "GRP_GFS", "VDC_GFS", "VFE_GFS"}

\* Writes that have nothing to do with a rail, and that take no bit which lets a clock
\* run, but for the clocks in S.
Spares(S) == {w \in Writes : \A id \in Clocks \ S : \A c \in C!RunBits(id) : ~Takes(w, c)}
Plain(S) == {w \in Spares(S) : w.reg \notin RailRegs}

LEMMA PlainIsMild ==
    ASSUME NEW r \in C!Rails, NEW S
    PROVE  Plain(S) \subseteq Mild(r)
<1>1. Clamp(r)[1] \in RailRegs /\ InReset(r)[1] \in RailRegs /\ PortOff(r)[1] \in RailRegs
      /\ PowerOn(r)[1] \in RailRegs
  BY DEF Clamp, InReset, PortOff, PowerOn, C!Rails, C!GFS, C!Port, RailRegs
<1> QED BY <1>1 DEF Plain, Spares, Mild, Takes, Puts

LEMMA PlainMore ==
    ASSUME NEW S
    PROVE  Plain({}) \subseteq Plain(S)
BY DEF Plain, Spares

LEMMA OrIs ==
    ASSUME NEW g \in C!Registers, NEW b \in SUBSET C!Bits
    PROVE  /\ C!REG_OR(g, b) \in Writes /\ C!REG_ANDM_OR(g, b) \in Writes
           /\ \A w \in {C!REG_OR(g, b), C!REG_ANDM_OR(g, b)} :
                 w.reg = g /\ w.clear = {} /\ w.set = b /\ Sure(w)
BY DEF C!REG_OR, C!REG_ANDM_OR, C!W, Writes, Sure

LEMMA AndIs ==
    ASSUME NEW g \in C!Registers, NEW b \in SUBSET C!Bits
    PROVE  /\ C!REG_AND(g, b) \in Writes
           /\ C!REG_AND(g, b).reg = g /\ C!REG_AND(g, b).clear = b /\ C!REG_AND(g, b).set = {}
           /\ Sure(C!REG_AND(g, b))
BY DEF C!REG_AND, C!W, Writes, Sure

LEMMA KeepIs ==
    ASSUME NEW g \in C!Registers, NEW keep, NEW b \in SUBSET C!Bits
    PROVE  /\ C!KeepOr(g, keep, b) \in Writes
           /\ C!KeepOr(g, keep, b).reg = g /\ C!KeepOr(g, keep, b).clear = C!Bits \ keep
           /\ C!KeepOr(g, keep, b).set = b /\ Sure(C!KeepOr(g, keep, b))
<1>1. C!Bits \ keep \in SUBSET C!Bits
  OBVIOUS
<1> QED BY <1>1 DEF C!KeepOr, C!W, Writes, Sure

LEMMA SetIs ==
    ASSUME NEW g \in C!Registers, NEW b \in SUBSET C!Bits
    PROVE  /\ C!REG_SET(g, b) \in Writes
           /\ C!REG_SET(g, b).reg = g /\ C!REG_SET(g, b).clear = C!Bits
           /\ C!REG_SET(g, b).set = b /\ Sure(C!REG_SET(g, b))
BY DEF C!REG_SET, C!W, Writes, Sure

LEMMA OrSpares ==
    ASSUME NEW g \in C!Registers, NEW b \in SUBSET C!Bits
    PROVE  C!REG_OR(g, b) \in Spares({}) /\ C!REG_ANDM_OR(g, b) \in Spares({})
BY OrIs DEF Spares, Takes

LEMMA OrPlain ==
    ASSUME NEW g \in C!Registers \ RailRegs, NEW b \in SUBSET C!Bits
    PROVE  C!REG_OR(g, b) \in Plain({}) /\ C!REG_ANDM_OR(g, b) \in Plain({})
BY OrIs, OrSpares DEF Plain

LEMMA EachOrPlain ==
    ASSUME NEW g \in C!Registers \ RailRegs, NEW bits \in Seq(C!Bits)
    PROVE  /\ OrEach(g, bits) \in Seq(Plain({}))
           /\ \A i \in 1 .. Len(bits) : SurePut(OrEach(g, bits), <<g, bits[i]>>)
<1>1. DOMAIN bits = 1 .. Len(bits) /\ Len(bits) \in Nat
  OBVIOUS
<1>2. \A i \in 1 .. Len(bits) : bits[i] \in C!Bits
  OBVIOUS
<1>3. \A i \in 1 .. Len(bits) : C!REG_OR(g, {bits[i]}) \in Plain({})
  BY <1>2, OrPlain
<1>4. OrEach(g, bits) \in Seq(Plain({})) /\ Len(OrEach(g, bits)) = Len(bits)
      /\ \A i \in 1 .. Len(bits) : OrEach(g, bits)[i] = C!REG_OR(g, {bits[i]})
  BY <1>1, <1>3 DEF OrEach
<1>5. ASSUME NEW i \in 1 .. Len(bits)
      PROVE  SurePut(OrEach(g, bits), <<g, bits[i]>>)
  <2>1. Sure(C!REG_OR(g, {bits[i]})) /\ Puts(C!REG_OR(g, {bits[i]}), <<g, bits[i]>>)
    BY <1>2, OrIs DEF Puts
  <2> QED BY <1>4, <2>1 DEF SurePut
<1> QED BY <1>4, <1>5

LEMMA AndPlain ==
    ASSUME NEW g \in C!Registers \ RailRegs, NEW b \in SUBSET C!Bits, NEW S,
           \A id \in Clocks \ S : \A c \in C!RunBits(id) : ~(c[1] = g /\ c[2] \in b)
    PROVE  C!REG_AND(g, b) \in Plain(S)
BY AndIs DEF Plain, Spares, Takes

LEMMA EachAndPlain ==
    ASSUME NEW g \in C!Registers \ RailRegs, NEW bits \in Seq(C!Bits), NEW S,
           \A id \in Clocks \ S : \A c \in C!RunBits(id) :
              ~(c[1] = g /\ \E i \in 1 .. Len(bits) : c[2] = bits[i])
    PROVE  AndEach(g, bits) \in Seq(Plain(S))
<1>1. DOMAIN bits = 1 .. Len(bits) /\ Len(bits) \in Nat
  OBVIOUS
<1>2. \A i \in 1 .. Len(bits) : bits[i] \in C!Bits
  OBVIOUS
<1>3. \A i \in 1 .. Len(bits) : C!REG_AND(g, {bits[i]}) \in Plain(S)
  BY <1>2, AndPlain
<1> QED BY <1>1, <1>3 DEF AndEach

LEMMA KeepPlain ==
    ASSUME NEW g \in C!Registers \ RailRegs, NEW keep, NEW b \in SUBSET C!Bits, NEW S,
           \A id \in Clocks \ S : \A c \in C!RunBits(id) : c[1] = g => c[2] \in keep \cup b
    PROVE  C!KeepOr(g, keep, b) \in Plain(S)
BY KeepIs DEF Plain, Spares, Takes

LEMMA SetPlain ==
    ASSUME NEW g \in C!Registers \ RailRegs, NEW b \in SUBSET C!Bits, NEW S,
           \A id \in Clocks \ S : \A c \in C!RunBits(id) : c[1] = g => c[2] \in b
    PROVE  C!REG_SET(g, b) \in Plain(S)
BY SetIs DEF Plain, Spares, Takes

\* The names of the registers.
LEMMA RegistersAre ==
    /\ \A id \in DOMAIN C!offset : C!offset[id] \in C!Registers \ RailRegs
    /\ \A g \in {"CTL", "GRP_NS", "ROW_RESET", "APPS_RESET", "AXI+0xf0"} :
          g \in C!Registers \ RailRegs
    /\ RailRegs \subseteq C!Registers
<1>1. \A id \in DOMAIN C!offset : C!offset[id] \in C!Registers
  BY DEF C!Registers
<1>2. \A id \in DOMAIN C!offset : C!offset[id] \notin RailRegs
  BY DEF C!offset, RailRegs
<1>3. \A g \in {"CTL", "GRP_NS", "ROW_RESET", "APPS_RESET", "AXI+0xf0"} :
          g \in C!Registers \ RailRegs
  BY DEF C!Registers, RailRegs
<1>4. \A r \in C!Rails : C!GFS[r] \in C!Registers /\ C!Port[r] \in C!Registers
  BY DEF C!Registers
<1>5. "CLAMP" \in C!Registers /\ "AXI_RESET" \in C!Registers
  BY DEF C!Registers
<1>6. RailRegs \subseteq C!Registers
  BY <1>4, <1>5 DEF RailRegs, C!Rails, C!GFS, C!Port
<1> QED BY <1>1, <1>2, <1>3, <1>6

LEMMA NamedRegs ==
    \A g \in {"0x8c", "0x68", "0x7c", "0x34", "0xe0", "0x44", "0xf0", "0xd4", "0xdc"} \cup GatedRegs :
        g \in C!Registers \ RailRegs
<1>1. \A g \in {"0x8c", "0x68", "0x7c", "0x34", "0xe0", "0x44", "0xf0", "0xd4", "0xdc"} \cup GatedRegs :
          \E id \in DOMAIN C!offset : g = C!offset[id]
  BY DEF C!offset, GatedRegs
<1> QED BY <1>1, RegistersAre

-----------------------------------------------------------------------------
(* The calls for the clocks that are no rails.                             *)

LEMMA PlainWrites ==
    ASSUME NEW S, NEW s \in Seq(Plain(S))
    PROVE  s \in Seq(Writes)
BY DEF Plain, Spares

LEMMA PlainJoin ==
    ASSUME NEW S, NEW u \in Seq(Plain(S)), NEW v \in Seq(Plain(S))
    PROVE  /\ u \o v \in Seq(Plain(S))
           /\ \A c : SurePut(u, c) \/ SurePut(v, c) => SurePut(u \o v, c)
BY PlainWrites, JoinPuts

LEMMA EnableBitPlain ==
    ASSUME NEW id
    PROVE  /\ C!EnableBit(id) \in Seq(Plain({}))
           /\ id \in IdxIds => SurePut(C!EnableBit(id), <<"CTL", C!idx[id]>>)
<1>1. CASE id \in IdxIds
  <2>1. C!idx[id] \in C!Bits
    BY <1>1 DEF C!idx, IdxIds, C!Bits
  <2>2. C!EnableBit(id) = <<C!REG_OR("CTL", {C!idx[id]})>>
    BY <1>1, IdxDomain DEF C!EnableBit
  <2>3. C!REG_OR("CTL", {C!idx[id]}) \in Plain({})
    BY <2>1, OrPlain, RegistersAre
  <2>4. /\ Sure(C!REG_OR("CTL", {C!idx[id]}))
        /\ Puts(C!REG_OR("CTL", {C!idx[id]}), <<"CTL", C!idx[id]>>)
    BY <2>1, OrIs, RegistersAre DEF Puts
  <2> QED BY <2>2, <2>3, <2>4 DEF SurePut
<1>2. CASE id \notin IdxIds
  BY <1>2, IdxDomain DEF C!EnableBit
<1> QED BY <1>1, <1>2

LEMMA EnablePlain ==
    ASSUME NEW id, id \notin {"IMEM", "GRP", "VFE", "VDC"}
    PROVE  /\ C!msm_clk_enable(id) \in Seq(Plain({}))
           /\ \A c \in C!RunBits(id) : SurePut(C!msm_clk_enable(id), c)
<1>1. ASSUME NEW u \in Seq(Plain({})), C!msm_clk_enable(id) = u \o C!EnableBit(id),
             \A c \in C!RunBits(id) : SurePut(u, c) \/ SurePut(C!EnableBit(id), c)
      PROVE  /\ C!msm_clk_enable(id) \in Seq(Plain({}))
             /\ \A c \in C!RunBits(id) : SurePut(C!msm_clk_enable(id), c)
  <2>1. C!EnableBit(id) \in Seq(Plain({}))
    BY EnableBitPlain
  <2>2. /\ u \o C!EnableBit(id) \in Seq(Plain({}))
        /\ \A c : SurePut(u, c) \/ SurePut(C!EnableBit(id), c) => SurePut(u \o C!EnableBit(id), c)
    BY <2>1, PlainJoin
  <2> QED BY <1>1, <2>2
<1>2. CASE id = "MDP"
  <2>1. C!REG_OR("CTL", {9}) \in Plain({}) /\ Sure(C!REG_OR("CTL", {9}))
        /\ Puts(C!REG_OR("CTL", {9}), <<"CTL", 9>>)
    BY OrPlain, OrIs, RegistersAre DEF Puts, C!Bits
  <2>2. <<C!REG_OR("CTL", {9})>> \in Seq(Plain({}))
    BY <2>1
  <2>3. SurePut(<<C!REG_OR("CTL", {9})>>, <<"CTL", 9>>)
    BY <2>1 DEF SurePut
  <2> QED BY <1>1, <1>2, <2>2, <2>3, EnableIs, RunBitsAre
<1>3. CASE id \in {"PMDH", "I2C"}
  <2>1. PICK g \in {"0x8c", "0x68"}, more \in SUBSET (0 .. 6) :
            /\ C!msm_clk_enable(id) = <<C!KeepOr(g, more \cup {9, 10}, {11}),
                                        C!KeepOr(g, more \cup {10, 11}, {9})>>
                                      \o C!EnableBit(id)
            /\ C!RunBits(id) = {<<g, 9>>, <<g, 11>>}
    <3>1. C!offset["PMDH"] = "0x8c" /\ C!offset["I2C"] = "0x68"
      BY DEF C!offset
    <3>2. CASE id = "PMDH"
      <4>1. C!RunBits(id) = {<<"0x8c", 9>>, <<"0x8c", 11>>}
        BY <3>1, <3>2, RunBitsAre
      <4>2. (0 .. 6) \in SUBSET (0 .. 6)
        OBVIOUS
      <4> QED BY <3>2, <4>1, <4>2, EnableIs
    <3>3. CASE id = "I2C"
      <4>1. C!RunBits(id) = {<<"0x68", 9>>, <<"0x68", 11>>}
        BY <3>1, <3>3, RunBitsAre
      <4>2. {} \in SUBSET (0 .. 6) /\ {} \cup {9, 10} = {9, 10} /\ {} \cup {10, 11} = {10, 11}
        OBVIOUS
      <4>3. C!msm_clk_enable(id) = <<C!KeepOr("0x68", {} \cup {9, 10}, {11}),
                                     C!KeepOr("0x68", {} \cup {10, 11}, {9})>>
                                   \o C!EnableBit(id)
        BY <3>3, <4>2, EnableIs
      <4> QED BY <4>1, <4>2, <4>3
    <3> QED BY <1>3, <3>2, <3>3
  <2> DEFINE a == C!KeepOr(g, more \cup {9, 10}, {11})
             b == C!KeepOr(g, more \cup {10, 11}, {9})
  <2>2. g \in C!Registers \ RailRegs /\ {9} \in SUBSET C!Bits /\ {11} \in SUBSET C!Bits
    BY NamedRegs DEF C!Bits
  <2>3. \A d : \A c \in C!RunBits(d) : c[1] = g => c[2] \in {9, 11}
    BY Owners DEF GatedRegs
  <2>4. a \in Plain({}) /\ b \in Plain({})
    BY <2>2, <2>3, KeepPlain
  <2>5. Sure(a) /\ Puts(a, <<g, 11>>) /\ Sure(b) /\ Puts(b, <<g, 9>>)
    BY <2>2, KeepIs DEF Puts
  <2> HIDE DEF a, b
  <2>6. <<a, b>> \in Seq(Plain({}))
    BY <2>4
  <2>7. SurePut(<<a, b>>, <<g, 11>>) /\ SurePut(<<a, b>>, <<g, 9>>)
    <3>1. /\ 1 \in 1 .. Len(<<a, b>>) /\ <<a, b>>[1] = a
          /\ 2 \in 1 .. Len(<<a, b>>) /\ <<a, b>>[2] = b
      OBVIOUS
    <3> QED BY <2>5, <3>1 DEF SurePut
  <2>8. C!msm_clk_enable(id) = <<a, b>> \o C!EnableBit(id)
    BY <2>1 DEF a, b
  <2> QED BY <1>1, <2>1, <2>6, <2>7, <2>8
<1>4. CASE id = "ADSP"
  <2> DEFINE a == C!REG_OR("0x34", {11})
             b == C!REG_OR("0x34", {20})
  <2>1. "0x34" \in C!Registers \ RailRegs /\ {11} \in SUBSET C!Bits /\ {20} \in SUBSET C!Bits
    BY NamedRegs DEF C!Bits
  <2>2. a \in Plain({}) /\ b \in Plain({})
    BY <2>1, OrPlain
  <2>3. Sure(a) /\ Puts(a, <<"0x34", 11>>) /\ Sure(b) /\ Puts(b, <<"0x34", 20>>)
    BY <2>1, OrIs DEF Puts
  <2>4. C!msm_clk_enable(id) = <<a, b>> \o C!EnableBit(id)
    BY <1>4, EnableIs
  <2> HIDE DEF a, b
  <2>5. <<a, b>> \in Seq(Plain({}))
    BY <2>2
  <2>6. SurePut(<<a, b>>, <<"0x34", 11>>) /\ SurePut(<<a, b>>, <<"0x34", 20>>)
    <3>1. /\ 1 \in 1 .. Len(<<a, b>>) /\ <<a, b>>[1] = a
          /\ 2 \in 1 .. Len(<<a, b>>) /\ <<a, b>>[2] = b
      OBVIOUS
    <3> QED BY <2>3, <3>1 DEF SurePut
  <2> QED BY <1>1, <1>4, <2>4, <2>5, <2>6, RunBitsAre
<1>5. ASSUME NEW g \in C!Registers \ RailRegs, NEW bits \in Seq(C!Bits),
             C!msm_clk_enable(id) = OrEach(g, bits) \o C!EnableBit(id),
             \A c \in C!RunBits(id) : \E i \in 1 .. Len(bits) : c = <<g, bits[i]>>
      PROVE  /\ C!msm_clk_enable(id) \in Seq(Plain({}))
             /\ \A c \in C!RunBits(id) : SurePut(C!msm_clk_enable(id), c)
  <2>1. OrEach(g, bits) \in Seq(Plain({}))
        /\ \A c \in C!RunBits(id) : SurePut(OrEach(g, bits), c)
    BY <1>5, EachOrPlain
  <2> QED BY <1>1, <1>5, <2>1
<1>6. CASE id \in C!UARTs
  <2>1. C!offset[id] = "0xe0" /\ C!offset[id] \in C!Registers \ RailRegs
    BY <1>6, NamedRegs DEF C!UARTs, C!offset
  <2>2. C!UartBits[id] \in Seq(C!Bits)
    <3>1. <<4, 5>> \in Seq(C!Bits) /\ <<10, 11>> \in Seq(C!Bits) /\ <<16, 17>> \in Seq(C!Bits)
      BY DEF C!Bits
    <3>2. C!UartBits[id] \in {<<4, 5>>, <<10, 11>>, <<16, 17>>}
      BY <1>6 DEF C!UARTs, C!UartBits
    <3> QED BY <3>1, <3>2
  <2>3. C!RunBits(id) = {<<C!offset[id], b>> : b \in C!ToSet(C!UartBits[id])}
    BY <1>6, RunBitsAre
  <2>4. C!ToSet(C!UartBits[id]) = {C!UartBits[id][i] : i \in 1 .. Len(C!UartBits[id])}
    BY <2>2 DEF C!ToSet, ToSet
  <2>5. \A c \in C!RunBits(id) :
            \E i \in 1 .. Len(C!UartBits[id]) : c = <<C!offset[id], C!UartBits[id][i]>>
    BY <2>3, <2>4
  <2> QED BY <1>5, <1>6, <2>1, <2>2, <2>5, EnableIs
<1>7. CASE id \in C!Gated
  <2>1. C!offset[id] \in C!Registers \ RailRegs
    BY <1>7, NamedRegs DEF C!Gated, C!offset, GatedRegs
  <2>2. <<11, 8, 9>> \in Seq(C!Bits)
    BY DEF C!Bits
  <2>3. /\ 1 \in 1 .. Len(<<11, 8, 9>>) /\ 2 \in 1 .. Len(<<11, 8, 9>>)
        /\ 3 \in 1 .. Len(<<11, 8, 9>>)
        /\ <<11, 8, 9>>[1] = 11 /\ <<11, 8, 9>>[2] = 8 /\ <<11, 8, 9>>[3] = 9
    OBVIOUS
  <2>4. C!RunBits(id) = {<<C!offset[id], b>> : b \in {8, 9, 11}}
    BY <1>7, RunBitsAre
  <2>5. \A c \in C!RunBits(id) :
            \E i \in 1 .. Len(<<11, 8, 9>>) : c = <<C!offset[id], <<11, 8, 9>>[i]>>
    BY <2>3, <2>4
  <2> QED BY <1>5, <1>7, <2>1, <2>2, <2>5, EnableIs
<1>8. CASE id = "MDC"
  <2>1. "0x7c" \in C!Registers \ RailRegs /\ C!offset["MDC"] = "0x7c"
    BY NamedRegs DEF C!offset
  <2>2. <<11, 9>> \in Seq(C!Bits)
    BY DEF C!Bits
  <2>3. /\ 1 \in 1 .. Len(<<11, 9>>) /\ 2 \in 1 .. Len(<<11, 9>>)
        /\ <<11, 9>>[1] = 11 /\ <<11, 9>>[2] = 9
    OBVIOUS
  <2>4. C!RunBits(id) = {<<"0x7c", 9>>, <<"0x7c", 11>>}
    BY <1>8, <2>1, RunBitsAre
  <2>5. \A c \in C!RunBits(id) : \E i \in 1 .. Len(<<11, 9>>) : c = <<"0x7c", <<11, 9>>[i]>>
    BY <2>3, <2>4
  <2> QED BY <1>5, <1>8, <2>1, <2>2, <2>5, EnableIs
<1>9. CASE id \notin Others \cup C!UARTs \cup C!Gated
  <2>1. <<>> \in Seq(Plain({})) /\ C!msm_clk_enable(id) = <<>> \o C!EnableBit(id)
    BY <1>9, EnableIs
  <2>2. \A c \in C!RunBits(id) : SurePut(C!EnableBit(id), c)
    <3>1. CASE id \in IdxIds
      BY <1>9, <3>1, EnableBitPlain, RunBitsAre
    <3>2. CASE id \notin IdxIds
      BY <1>9, <3>2, RunBitsAre
    <3> QED BY <3>1, <3>2
  <2> QED BY <1>1, <2>1, <2>2
<1> QED BY <1>2, <1>3, <1>4, <1>6, <1>7, <1>8, <1>9 DEF Others

LEMMA DisablePlain ==
    ASSUME NEW id, id \notin {"IMEM", "GRP", "VFE", "VDC"}
    PROVE  C!msm_clk_disable(id) \in Seq(Plain({id}))
<1>1. CASE id = "MDP"
  <2>1. \A d \in Clocks \ {id} : \A c \in C!RunBits(d) : ~(c[1] = "CTL" /\ c[2] \in {9})
    BY <1>1, Owners DEF GatedRegs
  <2>2. C!REG_AND("CTL", {9}) \in Plain({id})
    BY <2>1, AndPlain, RegistersAre DEF C!Bits
  <2> QED BY <1>1, <2>2, DisableIs
<1>2. CASE id \in {"PMDH", "I2C"}
  <2>1. PICK g \in {"0x8c", "0x68"}, k1 \in SUBSET C!Bits, k2 \in SUBSET C!Bits :
            /\ C!msm_clk_disable(id) = <<C!KeepOr(g, k1, {}), C!KeepOr(g, k2, {})>>
            /\ \A d \in Clocks \ {id} : \A c \in C!RunBits(d) : c[1] # g
    <3>1. CASE id = "PMDH"
      <4>1. \A d \in Clocks \ {id} : \A c \in C!RunBits(d) : c[1] # "0x8c"
        BY <3>1, Owners DEF GatedRegs
      <4>2. (0 .. 6) \cup {10, 11} \in SUBSET C!Bits /\ (0 .. 6) \cup {9, 10} \in SUBSET C!Bits
        BY DEF C!Bits
      <4> QED BY <3>1, <4>1, <4>2, DisableIs
    <3>2. CASE id = "I2C"
      <4>1. \A d \in Clocks \ {id} : \A c \in C!RunBits(d) : c[1] # "0x68"
        BY <3>2, Owners DEF GatedRegs
      <4>2. {10, 11} \in SUBSET C!Bits /\ {9, 10} \in SUBSET C!Bits
        BY DEF C!Bits
      <4> QED BY <3>2, <4>1, <4>2, DisableIs
    <3> QED BY <1>2, <3>1, <3>2
  <2>2. C!KeepOr(g, k1, {}) \in Plain({id}) /\ C!KeepOr(g, k2, {}) \in Plain({id})
    BY <2>1, KeepPlain, NamedRegs
  <2> QED BY <2>1, <2>2
<1>3. CASE id = "ADSP"
  <2> DEFINE a == C!REG_AND("0x34", {20})
             b == C!REG_AND("0x34", {11})
             e == [b EXCEPT !.unless = {7, 9}]
  <2>1. "0x34" \in C!Registers \ RailRegs /\ {11} \in SUBSET C!Bits /\ {20} \in SUBSET C!Bits
        /\ {7, 9} \in SUBSET C!Bits
    BY NamedRegs DEF C!Bits
  <2>2. \A d \in Clocks \ {id} : \A c \in C!RunBits(d) : c[1] # "0x34"
    BY <1>3, Owners DEF GatedRegs
  <2>3. a \in Plain({id}) /\ b \in Plain({id}) /\ b.reg = "0x34"
    BY <2>1, <2>2, AndPlain, AndIs
  <2>4. C!msm_clk_disable(id) = <<a, e>>
    BY <1>3, DisableIs
  <2> HIDE DEF a, b
  <2>5. e \in Writes /\ e.reg = "0x34"
    BY <2>1, <2>3 DEF Plain, Spares, Writes
  <2> HIDE DEF e
  <2>6. e \in Plain({id})
    BY <2>1, <2>2, <2>5 DEF Plain, Spares, Takes
  <2> QED BY <2>3, <2>4, <2>6
<1>4. CASE id \in C!UARTs
  <2>1. C!offset[id] = "0xe0" /\ C!offset[id] \in C!Registers \ RailRegs
    BY <1>4, NamedRegs DEF C!UARTs, C!offset
  <2>2. PICK b1 \in C!Bits, b2 \in C!Bits :
            /\ C!UartBits[id] = <<b1, b2>>
            /\ \A d \in Clocks \ {id} : \A c \in C!RunBits(d) : ~(c[1] = "0xe0" /\ c[2] \in {b1, b2})
    <3>1. CASE id = "UART1"
      <4>1. C!UartBits[id] = <<4, 5>> /\ 4 \in C!Bits /\ 5 \in C!Bits
        BY <3>1 DEF C!UartBits, C!Bits
      <4>2. \A d \in Clocks \ {id} : \A c \in C!RunBits(d) : ~(c[1] = "0xe0" /\ c[2] \in {4, 5})
        BY <3>1, Owners DEF GatedRegs
      <4> QED BY <4>1, <4>2
    <3>2. CASE id = "UART2"
      <4>1. C!UartBits[id] = <<10, 11>> /\ 10 \in C!Bits /\ 11 \in C!Bits
        BY <3>2 DEF C!UartBits, C!Bits
      <4>2. \A d \in Clocks \ {id} : \A c \in C!RunBits(d) : ~(c[1] = "0xe0" /\ c[2] \in {10, 11})
        BY <3>2, Owners DEF GatedRegs
      <4> QED BY <4>1, <4>2
    <3>3. CASE id = "UART3"
      <4>1. C!UartBits[id] = <<16, 17>> /\ 16 \in C!Bits /\ 17 \in C!Bits
        BY <3>3 DEF C!UartBits, C!Bits
      <4>2. \A d \in Clocks \ {id} : \A c \in C!RunBits(d) : ~(c[1] = "0xe0" /\ c[2] \in {16, 17})
        BY <3>3, Owners DEF GatedRegs
      <4> QED BY <4>1, <4>2
    <3> QED BY <1>4, <3>1, <3>2, <3>3 DEF C!UARTs
  <2>3. C!Reverse(<<b1, b2>>) \in Seq(C!Bits)
        /\ \A i \in 1 .. Len(C!Reverse(<<b1, b2>>)) : C!Reverse(<<b1, b2>>)[i] \in {b1, b2}
    <3>1. C!Reverse(<<b1, b2>>) = [i \in 1 .. 2 |-> <<b1, b2>>[(2 - i) + 1]]
      BY DEF C!Reverse, Reverse
    <3>2. <<b1, b2>>[1] = b1 /\ <<b1, b2>>[2] = b2
      OBVIOUS
    <3>3. \A i \in 1 .. 2 : (2 - i) + 1 = 1 \/ (2 - i) + 1 = 2
      OBVIOUS
    <3>4. \A i \in 1 .. 2 : <<b1, b2>>[(2 - i) + 1] \in {b1, b2}
      BY <3>2, <3>3
    <3> DEFINE z == [i \in 1 .. 2 |-> <<b1, b2>>[(2 - i) + 1]]
    <3>5. \A i \in 1 .. 2 : z[i] \in {b1, b2} /\ z[i] \in C!Bits
      BY <3>4
    <3>6. DOMAIN z = 1 .. 2 /\ z = [i \in 1 .. 2 |-> z[i]]
      OBVIOUS
    <3>7. C!Reverse(<<b1, b2>>) = z
      BY <3>1
    <3> HIDE DEF z
    <3>8. z \in Seq(C!Bits) /\ Len(z) = 2
      BY <3>5, <3>6
    <3> QED BY <3>5, <3>7, <3>8
  <2> DEFINE z == C!Reverse(C!UartBits[id])
  <2>4. z \in Seq(C!Bits) /\ \A i \in 1 .. Len(z) : z[i] \in {b1, b2}
    BY <2>2, <2>3
  <2>5. C!msm_clk_disable(id) = AndEach(C!offset[id], z)
    BY <1>4, DisableIs
  <2> HIDE DEF z
  <2>6. \A d \in Clocks \ {id} : \A c \in C!RunBits(d) :
            ~(c[1] = C!offset[id] /\ \E i \in 1 .. Len(z) : c[2] = z[i])
    BY <2>1, <2>2, <2>4
  <2> QED BY <2>1, <2>4, <2>5, <2>6, EachAndPlain
<1>5. CASE id \in C!Gated
  <2>1. C!offset[id] \in C!Registers \ RailRegs /\ C!offset[id] \in GatedRegs
    BY <1>5, NamedRegs DEF C!Gated, C!offset, GatedRegs
  <2>2. \A d \in Clocks \ {id} : \A c \in C!RunBits(d) : c[1] # C!offset[id]
    <3> SUFFICES ASSUME NEW d \in Clocks \ {id}, NEW c \in C!RunBits(d), c[1] = C!offset[id]
                 PROVE  FALSE
      OBVIOUS
    <3>1. d \in C!Gated /\ c[1] = C!offset[d]
      BY <2>1, Owners DEF GatedRegs
    <3> QED BY <1>5, <3>1, GatedApart
  <2>3. <<9, 11, 8>> \in Seq(C!Bits)
    BY DEF C!Bits
  <2> QED BY <1>5, <2>1, <2>2, <2>3, EachAndPlain, DisableIs
<1>6. CASE id = "MDC"
  <2>1. \A d \in Clocks \ {id} : \A c \in C!RunBits(d) : c[1] # "0x7c"
    BY <1>6, Owners DEF GatedRegs
  <2>2. <<9, 11>> \in Seq(C!Bits) /\ "0x7c" \in C!Registers \ RailRegs
    BY NamedRegs DEF C!Bits
  <2>3. AndEach("0x7c", <<9, 11>>) \in Seq(Plain({id}))
    BY <2>1, <2>2, EachAndPlain
  <2> QED BY <1>6, <2>3, DisableIs
<1>7. CASE id \notin Others \cup C!UARTs \cup C!Gated
  <2>1. C!msm_clk_disable(id) = <<>>
    BY <1>7, DisableIs
  <2>2. <<>> \in Seq(Plain({id}))
    OBVIOUS
  <2> QED BY <2>1, <2>2
<1> QED BY <1>1, <1>2, <1>3, <1>4, <1>5, <1>6, <1>7 DEF Others

\* A new rate takes no clock away.
LEMMA RatePlain ==
    ASSUME NEW id, NEW found \in BOOLEAN
    PROVE  C!msm_clk_set_freq(id, found) \in Seq(Plain({}))
<1>1. CASE id \notin DOMAIN C!offset
  BY <1>1 DEF C!msm_clk_set_freq
<1>2. CASE id \in DOMAIN C!offset
  <2> DEFINE simple == {"MDP", "PMDH", "ADSP", "GP"}
  <2>1. C!offset[id] \in C!Registers \ RailRegs
    BY <1>2, RegistersAre
  <2>2. PICK set \in Seq(Plain({})) :
            C!msm_clk_set_freq(id, found) =
                IF C!msm_clk_is_enabled(id)
                THEN C!msm_clk_disable(id) \o set \o C!msm_clk_enable(id) ELSE set
    <3>1. CASE id \in simple
      <4>2. C!REG_OR(C!offset[id], {}) \in Plain({})
        BY <2>1, OrPlain
      <4>3. <<C!REG_OR(C!offset[id], {})>> \in Seq(Plain({}))
        BY <4>2
      <4>4. id \notin C!setup_mdns
        BY <3>1 DEF C!setup_mdns
      <4> QED BY <1>2, <3>1, <4>3, <4>4
                 DEF C!msm_clk_set_freq, C!msm_set_rate_simple_div_pll
    <3>2. CASE id \in C!setup_mdns
      <4>1. id \notin simple
        BY <3>2 DEF C!setup_mdns
      <4>2. C!FromTable(id, found) \in Seq(Plain({}))
        <5>1. CASE found = FALSE
          BY <5>1 DEF C!FromTable
        <5>2. CASE found = TRUE /\ id = "VFE"
          <6>1. C!offset[id] = "0x44"
            BY <5>2 DEF C!offset
          <6>2. \A d \in Clocks : \A c \in C!RunBits(d) :
                    c[1] = "0x44" => c[2] \in {1, 2, 9, 11, 13, 14} \cup {8}
            BY Owners DEF GatedRegs
          <6>3. C!KeepOr(C!offset[id], {1, 2, 9, 11, 13, 14}, {8}) \in Plain({})
            BY <2>1, <6>1, <6>2, KeepPlain DEF C!Bits
          <6>4. <<C!KeepOr(C!offset[id], {1, 2, 9, 11, 13, 14}, {8})>> \in Seq(Plain({}))
            BY <6>3
          <6> QED BY <5>2, <6>4 DEF C!FromTable
        <5>3. CASE found = TRUE /\ id # "VFE"
          <6>1. C!offset[id] \in {"0x68", "0xd4", "0xdc"} \cup GatedRegs
            BY <3>2, <5>3 DEF C!setup_mdns, C!offset, GatedRegs
          <6>2. \A d \in Clocks : \A c \in C!RunBits(d) :
                    c[1] = C!offset[id] => c[2] \in {8, 9, 11}
            BY <6>1, Owners DEF GatedRegs
          <6>3. C!REG_SET(C!offset[id], {8, 9, 11}) \in Plain({})
            BY <2>1, <6>2, SetPlain DEF C!Bits
          <6>4. <<C!REG_SET(C!offset[id], {8, 9, 11})>> \in Seq(Plain({}))
            BY <6>3
          <6> QED BY <5>3, <6>4 DEF C!FromTable
        <5> QED BY <5>1, <5>2, <5>3
      <4> QED BY <1>2, <3>2, <4>1, <4>2 DEF C!msm_clk_set_freq
    <3>3. CASE id \notin simple /\ id \notin C!setup_mdns
      <4>1. <<>> \in Seq(Plain({}))
        OBVIOUS
      <4> QED BY <1>2, <3>3, <4>1 DEF C!msm_clk_set_freq
    <3> QED BY <3>1, <3>2, <3>3
  <2>3. CASE C!msm_clk_is_enabled(id)
    <3>1. id \in IdxIds
      BY <2>3, IdxDomain DEF C!msm_clk_is_enabled
    <3>2. id \in {"UART1DM", "UART2DM"}
      BY <1>2, <3>1 DEF IdxIds, C!offset
    <3>3. id \notin Others \cup C!UARTs \cup C!Gated
      BY <3>2 DEF Others, C!UARTs, C!Gated
    <3>4. C!msm_clk_disable(id) = <<>> /\ <<>> \in Seq(Plain({}))
      BY <3>3, DisableIs
    <3>5. C!msm_clk_enable(id) \in Seq(Plain({}))
      BY <3>3, EnablePlain DEF Others
    <3>6. <<>> \o set \in Seq(Plain({}))
      BY <3>4, PlainJoin
    <3>7. (<<>> \o set) \o C!msm_clk_enable(id) \in Seq(Plain({}))
      BY <3>5, <3>6, PlainJoin
    <3> QED BY <2>2, <2>3, <3>4, <3>7
  <2>4. CASE ~C!msm_clk_is_enabled(id)
    BY <2>2, <2>4
  <2> QED BY <2>3, <2>4
<1> QED BY <1>1, <1>2

-----------------------------------------------------------------------------
(* The calls that switch a rail, piece by piece.                           *)

LEMMA RailCallsAre ==
    /\ C!set_grp_rail(TRUE) =
          <<C!REG_OR("AXI_RESET", {5}), C!REG_OR("ROW_RESET", {17}),
            C!REG_SET("GRP_GFS", {8})>> \o OrEach("GRP_NS", <<11, 7, 9>>)
          \o <<C!REG_OR("CTL", {3}), C!REG_AND("CLAMP", {2}), C!REG_AND("AXI+0x10080", {0}),
               C!REG_AND("AXI_RESET", {5}), C!REG_AND("ROW_RESET", {17})>>
    /\ C!set_grp_rail(FALSE) =
          OrEach("GRP_NS", <<11, 7, 9>>)
          \o <<C!REG_OR("CTL", {3}), C!REG_OR("AXI+0x10080", {0}),
               C!REG_OR("AXI_RESET", {5}), C!REG_OR("ROW_RESET", {17})>>
          \o AndEach("GRP_NS", <<11, 7, 9>>)
          \o <<C!REG_OR("CLAMP", {2}), C!REG_SET("GRP_GFS", {})>>
<1>1. C!GFS["GRP"] = "GRP_GFS" /\ C!Port["GRP"] = "AXI+0x10080" /\ C!Powered = 8
  BY DEF C!GFS, C!Port, C!Powered
<1> QED BY <1>1 DEF C!set_grp_rail, C!ForEach, OrEach, AndEach

VdcClocks == <<C!REG_OR("0xf0", {11}), [C!REG_OR("0xf0", {8}) EXCEPT !.when = {5, 6}],
               C!REG_OR("0xf0", {9})>>
VfeClocks == OrEach("0x44", <<9, 13, 11>>) \o <<C!REG_AND("0x44", {1, 2})>>

LEMMA VdcCallsAre ==
    /\ state = TRUE => C!set_vdc_rail(TRUE) = <<>>
    /\ state = FALSE => C!set_vdc_rail(FALSE) = <<>>
    /\ state = FALSE => C!set_vdc_rail(TRUE) =
          VdcClocks
          \o <<C!REG_ANDM_OR("0x34", {20}), C!REG_OR("CTL", {3}), C!REG_ANDM_OR("AXI_RESET", {1}),
               C!REG_ANDM_OR("ROW_RESET", {0}), C!REG_ANDM_OR("APPS_RESET", {7}),
               C!REG_SET("VDC_GFS", {8}), C!REG_AND("CLAMP", {1}), C!REG_AND("AXI+0x10080", {2}),
               C!REG_AND("AXI_RESET", {1}), C!REG_AND("ROW_RESET", {0}),
               C!REG_AND("APPS_RESET", {7})>>
    /\ state = TRUE => C!set_vdc_rail(FALSE) =
          VdcClocks
          \o <<C!REG_OR("CTL", {3}), C!REG_OR("AXI+0x10080", {2}), C!REG_OR("AXI_RESET", {1}),
               C!REG_OR("ROW_RESET", {0})>>
          \o AndEach("AXI+0xf0", <<9, 8, 11>>)
          \o <<C!REG_OR("CLAMP", {1}), C!REG_SET("VDC_GFS", {})>>
<1>1. C!GFS["VDC"] = "VDC_GFS" /\ C!Port["VDC"] = "AXI+0x10080" /\ C!Powered = 8
  BY DEF C!GFS, C!Port, C!Powered
<1>2. state = TRUE => C!set_vdc_rail(TRUE) = <<>>
  BY DEF C!set_vdc_rail
<1>3. state = FALSE => C!set_vdc_rail(FALSE) = <<>>
  BY DEF C!set_vdc_rail
<1>4. state = FALSE => C!set_vdc_rail(TRUE) =
          VdcClocks
          \o <<C!REG_ANDM_OR("0x34", {20}), C!REG_OR("CTL", {3}), C!REG_ANDM_OR("AXI_RESET", {1}),
               C!REG_ANDM_OR("ROW_RESET", {0}), C!REG_ANDM_OR("APPS_RESET", {7}),
               C!REG_SET("VDC_GFS", {8}), C!REG_AND("CLAMP", {1}), C!REG_AND("AXI+0x10080", {2}),
               C!REG_AND("AXI_RESET", {1}), C!REG_AND("ROW_RESET", {0}),
               C!REG_AND("APPS_RESET", {7})>>
  BY <1>1 DEF C!set_vdc_rail, VdcClocks
<1>5. state = TRUE => C!set_vdc_rail(FALSE) =
          VdcClocks
          \o <<C!REG_OR("CTL", {3}), C!REG_OR("AXI+0x10080", {2}), C!REG_OR("AXI_RESET", {1}),
               C!REG_OR("ROW_RESET", {0})>>
          \o AndEach("AXI+0xf0", <<9, 8, 11>>)
          \o <<C!REG_OR("CLAMP", {1}), C!REG_SET("VDC_GFS", {})>>
  BY <1>1 DEF C!set_vdc_rail, VdcClocks, C!ForEach, AndEach
<1> QED BY <1>2, <1>3, <1>4, <1>5

LEMMA VfeCallsAre ==
    /\ is_enabled = TRUE => C!set_vfe_rail(TRUE) = <<>>
    /\ is_enabled = FALSE => C!set_vfe_rail(FALSE) = <<>>
    /\ is_enabled = FALSE => C!set_vfe_rail(TRUE) =
          <<C!REG_ANDM_OR("AXI_RESET", {0}), C!REG_ANDM_OR("APPS_RESET", {0}),
            C!REG_SET("VFE_GFS", {8})>> \o VfeClocks
          \o <<C!REG_AND("CLAMP", {3}), C!REG_AND("AXI+0x20080", {0}),
               C!REG_AND("AXI_RESET", {0}), C!REG_AND("APPS_RESET", {0})>>
    /\ is_enabled = TRUE => C!set_vfe_rail(FALSE) =
          <<C!REG_ANDM_OR("CTL", {2})>> \o VfeClocks
          \o <<C!REG_OR("AXI+0x20080", {0}), C!REG_ANDM_OR("AXI_RESET", {0}),
               C!REG_ANDM_OR("APPS_RESET", {0}), C!REG_OR("0x44", {1, 2}),
               C!REG_AND("0x44", 0 .. 11), C!REG_AND("0x44", 0 .. 13), C!REG_AND("0x44", 0 .. 9),
               C!REG_ANDM_OR("CLAMP", {3}), C!REG_SET("VFE_GFS", {})>>
<1>1. C!GFS["VFE"] = "VFE_GFS" /\ C!Port["VFE"] = "AXI+0x20080" /\ C!Powered = 8
  BY DEF C!GFS, C!Port, C!Powered
<1>2. is_enabled = TRUE => C!set_vfe_rail(TRUE) = <<>>
  BY DEF C!set_vfe_rail
<1>3. is_enabled = FALSE => C!set_vfe_rail(FALSE) = <<>>
  BY DEF C!set_vfe_rail
<1>4. is_enabled = FALSE => C!set_vfe_rail(TRUE) =
          <<C!REG_ANDM_OR("AXI_RESET", {0}), C!REG_ANDM_OR("APPS_RESET", {0}),
            C!REG_SET("VFE_GFS", {8})>> \o VfeClocks
          \o <<C!REG_AND("CLAMP", {3}), C!REG_AND("AXI+0x20080", {0}),
               C!REG_AND("AXI_RESET", {0}), C!REG_AND("APPS_RESET", {0})>>
  BY <1>1 DEF C!set_vfe_rail, VfeClocks, C!ForEach, OrEach
<1>5. is_enabled = TRUE => C!set_vfe_rail(FALSE) =
          <<C!REG_ANDM_OR("CTL", {2})>> \o VfeClocks
          \o <<C!REG_OR("AXI+0x20080", {0}), C!REG_ANDM_OR("AXI_RESET", {0}),
               C!REG_ANDM_OR("APPS_RESET", {0}), C!REG_OR("0x44", {1, 2}),
               C!REG_AND("0x44", 0 .. 11), C!REG_AND("0x44", 0 .. 13), C!REG_AND("0x44", 0 .. 9),
               C!REG_ANDM_OR("CLAMP", {3}), C!REG_SET("VFE_GFS", {})>>
  BY <1>1 DEF C!set_vfe_rail, VfeClocks, C!ForEach, OrEach
<1> QED BY <1>2, <1>3, <1>4, <1>5

LEMMA RailBitsAre ==
    /\ Clamp("GRP") = <<"CLAMP", 2>> /\ Clamp("VDC") = <<"CLAMP", 1>> /\ Clamp("VFE") = <<"CLAMP", 3>>
    /\ InReset("GRP") = <<"AXI_RESET", 5>> /\ InReset("VDC") = <<"AXI_RESET", 1>>
    /\ InReset("VFE") = <<"AXI_RESET", 0>>
    /\ PortOff("GRP") = <<"AXI+0x10080", 0>> /\ PortOff("VDC") = <<"AXI+0x10080", 2>>
    /\ PortOff("VFE") = <<"AXI+0x20080", 0>>
    /\ PowerOn("GRP") = <<"GRP_GFS", 8>> /\ PowerOn("VDC") = <<"VDC_GFS", 8>>
    /\ PowerOn("VFE") = <<"VFE_GFS", 8>>
<1>1. /\ C!ClampBit["GRP"] = 2 /\ C!ClampBit["VDC"] = 1 /\ C!ClampBit["VFE"] = 3
      /\ C!ResetBit["GRP"] = 5 /\ C!ResetBit["VDC"] = 1 /\ C!ResetBit["VFE"] = 0
  BY DEF C!ClampBit, C!ResetBit
<1>2. /\ C!Port["GRP"] = "AXI+0x10080" /\ C!Port["VDC"] = "AXI+0x10080"
      /\ C!Port["VFE"] = "AXI+0x20080"
      /\ C!PortBit["GRP"] = 0 /\ C!PortBit["VDC"] = 2 /\ C!PortBit["VFE"] = 0
  BY DEF C!Port, C!PortBit
<1>3. C!GFS["GRP"] = "GRP_GFS" /\ C!GFS["VDC"] = "VDC_GFS" /\ C!GFS["VFE"] = "VFE_GFS"
      /\ C!Powered = 8
  BY DEF C!GFS, C!Powered
<1> QED BY <1>1, <1>2, <1>3 DEF Clamp, InReset, PortOff, PowerOn

\* Writes that leave every rail as it is.
Quiet(S) == {w \in Spares(S) : \A r \in C!Rails : w \in Mild(r)}

LEMMA PlainQuiet ==
    ASSUME NEW S
    PROVE  Plain(S) \subseteq Quiet(S) /\ Plain({}) \subseteq Quiet(S)
           /\ Quiet({}) \subseteq Quiet(S)
BY PlainIsMild, PlainMore DEF Plain, Quiet, Spares

LEMMA RailSpares ==
    ASSUME NEW w \in Writes, w.reg \in RailRegs
    PROVE  w \in Spares({})
<1>1. \A id : \A c \in C!RunBits(id) : c[1] \notin RailRegs
  BY Owners DEF GatedRegs, RailRegs
<1> QED BY <1>1 DEF Spares, Takes

LEMMA OrQuiet ==
    ASSUME NEW g \in C!Registers \ {"CLAMP"}, NEW b \in SUBSET C!Bits
    PROVE  C!REG_OR(g, b) \in Quiet({}) /\ C!REG_ANDM_OR(g, b) \in Quiet({})
<1>1. \A r \in C!Rails : Clamp(r)[1] = "CLAMP"
  BY DEF Clamp
<1> QED BY <1>1, OrIs, OrSpares DEF Quiet, Mild, Takes, Puts

LEMMA PowerQuiet ==
    ASSUME NEW g \in {"GRP_GFS", "VDC_GFS", "VFE_GFS"}
    PROVE  /\ C!REG_SET(g, {8}) \in Quiet({})
           /\ Sure(C!REG_SET(g, {8})) /\ Puts(C!REG_SET(g, {8}), <<g, 8>>)
<1>1. g \in C!Registers /\ g \in RailRegs /\ {8} \in SUBSET C!Bits
  BY RegistersAre DEF RailRegs, C!Bits
<1> DEFINE w == C!REG_SET(g, {8})
<1>2. w \in Writes /\ w.reg = g /\ w.set = {8} /\ Sure(w)
  BY <1>1, SetIs
<1> HIDE DEF w
<1>3. w \in Spares({})
  BY <1>1, <1>2, RailSpares
<1>4. w \in Mild("GRP") /\ w \in Mild("VDC") /\ w \in Mild("VFE")
  BY <1>2, RailBitsAre DEF Mild, Takes, Puts
<1>5. w \in Quiet({}) /\ Sure(w) /\ Puts(w, <<g, 8>>)
  BY <1>2, <1>3, <1>4 DEF Quiet, Puts, C!Rails
<1> QED BY <1>5 DEF w

\* What comes before the write that opens or closes a rail.
LEMMA QuietFirst ==
    ASSUME NEW S, NEW u \in Seq(Quiet(S)), NEW v \in Seq(Spares(S)), NEW r \in C!Rails,
           \A q \in C!Rails \ {r} : v \in Seq(Mild(q)), NEW k \in 1 .. Len(v)
    PROVE  /\ u \o v \in Seq(Spares(S))
           /\ \A q \in C!Rails \ {r} : u \o v \in Seq(Mild(q))
           /\ \A c : SurePut(u, c) \/ SurePut(v, c) => SurePut(u \o v, c)
           /\ /\ Opens(v, k, r)
              /\ \/ SurePut(u, PowerOn(r))
                 \/ \E p \in 1 .. k - 1 : Sure(v[p]) /\ Puts(v[p], PowerOn(r))
              => SwitchesOn(u \o v, r)
           /\ /\ Closes(v, k, r)
              /\ \/ SurePut(u, InReset(r)) /\ SurePut(u, PortOff(r))
                 \/ /\ \E p \in 1 .. k - 1 : Sure(v[p]) /\ Puts(v[p], InReset(r))
                    /\ \E p \in 1 .. k - 1 : Sure(v[p]) /\ Puts(v[p], PortOff(r))
              => SwitchesOff(u \o v, r)
<1>1. u \in Seq(Spares(S)) /\ \A q \in C!Rails : u \in Seq(Mild(q))
  BY DEF Quiet
<1>2. u \in Seq(Writes) /\ v \in Seq(Writes)
  BY <1>1 DEF Spares
<1>3. u \o v \in Seq(Spares(S)) /\ \A q \in C!Rails \ {r} : u \o v \in Seq(Mild(q))
  BY <1>1
<1>4. \A c : SurePut(u, c) \/ SurePut(v, c) => SurePut(u \o v, c)
  BY <1>2, JoinPuts
<1>5. u \in Seq(Mild(r))
  BY <1>1
<1>6. ASSUME Opens(v, k, r),
             \/ SurePut(u, PowerOn(r))
             \/ \E p \in 1 .. k - 1 : Sure(v[p]) /\ Puts(v[p], PowerOn(r))
      PROVE  SwitchesOn(u \o v, r)
  BY <1>2, <1>5, <1>6, MildFirstOn
<1>7. ASSUME Closes(v, k, r),
             \/ SurePut(u, InReset(r)) /\ SurePut(u, PortOff(r))
             \/ /\ \E p \in 1 .. k - 1 : Sure(v[p]) /\ Puts(v[p], InReset(r))
                /\ \E p \in 1 .. k - 1 : Sure(v[p]) /\ Puts(v[p], PortOff(r))
      PROVE  SwitchesOff(u \o v, r)
  BY <1>2, <1>5, <1>7, MildFirstOff
<1> QED BY <1>3, <1>4, <1>6, <1>7

LEMMA QuietJoin ==
    ASSUME NEW S, NEW u \in Seq(Quiet(S)), NEW v \in Seq(Quiet(S))
    PROVE  /\ u \o v \in Seq(Quiet(S))
           /\ \A c : SurePut(u, c) \/ SurePut(v, c) => SurePut(u \o v, c)
<1>1. u \in Seq(Writes) /\ v \in Seq(Writes)
  BY DEF Quiet, Spares
<1> QED BY <1>1, JoinPuts

-----------------------------------------------------------------------------
(* The rail of the graphics core.                                          *)

LEMMA GrpOn ==
    /\ C!set_grp_rail(TRUE) \in Seq(Spares({}))
    /\ \A q \in C!Rails \ {"GRP"} : C!set_grp_rail(TRUE) \in Seq(Mild(q))
    /\ SwitchesOn(C!set_grp_rail(TRUE), "GRP")
    /\ \A c \in C!RunBits("GRP") : SurePut(C!set_grp_rail(TRUE), c)
<1> DEFINE a1 == C!REG_OR("AXI_RESET", {5})
           a2 == C!REG_OR("ROW_RESET", {17})
           a3 == C!REG_SET("GRP_GFS", {8})
           a == <<a1, a2, a3>>
           b == OrEach("GRP_NS", <<11, 7, 9>>)
           v1 == C!REG_OR("CTL", {3})
           v2 == C!REG_AND("CLAMP", {2})
           v3 == C!REG_AND("AXI+0x10080", {0})
           v4 == C!REG_AND("AXI_RESET", {5})
           v5 == C!REG_AND("ROW_RESET", {17})
           v == <<v1, v2, v3, v4, v5>>
<1>1. C!set_grp_rail(TRUE) = a \o b \o v
  BY RailCallsAre
<1>2. /\ {5} \in SUBSET C!Bits /\ {17} \in SUBSET C!Bits /\ {3} \in SUBSET C!Bits
      /\ {2} \in SUBSET C!Bits /\ {0} \in SUBSET C!Bits
  BY DEF C!Bits
<1>3. /\ "AXI_RESET" \in C!Registers \ {"CLAMP"} /\ "ROW_RESET" \in C!Registers \ {"CLAMP"}
      /\ "CTL" \in C!Registers \ {"CLAMP"} /\ "AXI+0x10080" \in C!Registers
      /\ "CLAMP" \in C!Registers
      /\ "GRP_NS" \in C!Registers \ RailRegs /\ "ROW_RESET" \in C!Registers \ RailRegs
  BY RegistersAre DEF RailRegs
<1>4. a \in Seq(Quiet({})) /\ SurePut(a, PowerOn("GRP"))
  <2>1. a1 \in Quiet({}) /\ a2 \in Quiet({})
    BY <1>2, <1>3, OrQuiet
  <2>2. a3 \in Quiet({}) /\ Sure(a3) /\ Puts(a3, PowerOn("GRP"))
    BY PowerQuiet, RailBitsAre
  <2> HIDE DEF a1, a2, a3
  <2>3. 3 \in 1 .. Len(a) /\ a[3] = a3
    OBVIOUS
  <2> QED BY <2>1, <2>2, <2>3 DEF SurePut
<1>5. b \in Seq(Quiet({})) /\ \A n \in {7, 9, 11} : SurePut(b, <<"GRP_NS", n>>)
  <2>1. <<11, 7, 9>> \in Seq(C!Bits)
    BY DEF C!Bits
  <2>2. /\ 1 \in 1 .. Len(<<11, 7, 9>>) /\ 2 \in 1 .. Len(<<11, 7, 9>>)
        /\ 3 \in 1 .. Len(<<11, 7, 9>>)
        /\ <<11, 7, 9>>[1] = 11 /\ <<11, 7, 9>>[2] = 7 /\ <<11, 7, 9>>[3] = 9
    OBVIOUS
  <2>3. b \in Seq(Plain({}))
        /\ \A i \in 1 .. Len(<<11, 7, 9>>) : SurePut(b, <<"GRP_NS", <<11, 7, 9>>[i]>>)
    BY <1>3, <2>1, EachOrPlain
  <2>4. b \in Seq(Quiet({}))
    BY <2>3, PlainQuiet
  <2> QED BY <2>2, <2>3, <2>4
<1>6. v1 \in Quiet({}) /\ Sure(v1) /\ Puts(v1, <<"CTL", 3>>)
  BY <1>2, <1>3, OrQuiet, OrIs DEF Puts
<1>7. /\ \A w \in {v2, v3, v4, v5} : w \in Writes /\ w.set = {} /\ Sure(w)
      /\ v2.reg = "CLAMP" /\ v2.clear = {2} /\ v3.reg = "AXI+0x10080" /\ v3.clear = {0}
      /\ v4.reg = "AXI_RESET" /\ v4.clear = {5} /\ v5.reg = "ROW_RESET" /\ v5.clear = {17}
  BY <1>2, <1>3, AndIs
<1>8. v5 \in Plain({})
  <2>1. \A id \in Clocks : \A c \in C!RunBits(id) : ~(c[1] = "ROW_RESET" /\ c[2] \in {17})
    BY Owners DEF GatedRegs
  <2> QED BY <1>2, <1>3, <2>1, AndPlain
<1> HIDE DEF a, b, v1, v2, v3, v4, v5
<1>9. v \in Seq(Spares({}))
  <2>1. v1 \in Spares({}) /\ v5 \in Spares({})
    BY <1>6, <1>8 DEF Quiet, Plain
  <2>2. v2 \in Spares({}) /\ v3 \in Spares({}) /\ v4 \in Spares({})
    BY <1>7, RailSpares DEF RailRegs
  <2> QED BY <2>1, <2>2
<1>10. \A q \in C!Rails \ {"GRP"} : v \in Seq(Mild(q))
  <2>1. \A q \in C!Rails : v1 \in Mild(q) /\ v5 \in Mild(q)
    BY <1>6, <1>8, PlainIsMild DEF Quiet
  <2>2. v2 \in Mild("VDC") /\ v3 \in Mild("VDC") /\ v4 \in Mild("VDC")
    BY <1>7, RailBitsAre DEF Mild, Takes, Puts
  <2>3. v2 \in Mild("VFE") /\ v3 \in Mild("VFE") /\ v4 \in Mild("VFE")
    BY <1>7, RailBitsAre DEF Mild, Takes, Puts
  <2> QED BY <2>1, <2>2, <2>3 DEF C!Rails
<1>11. Opens(v, 2, "GRP")
  <2>1. Len(v) = 5 /\ v[1] = v1 /\ v[2] = v2 /\ v[3] = v3 /\ v[4] = v4 /\ v[5] = v5
    OBVIOUS
  <2>2. v1 \in Mild("GRP")
    BY <1>6 DEF Quiet, C!Rails
  <2>3. /\ Sure(v2) /\ Takes(v2, Clamp("GRP")) /\ ~Puts(v2, Clamp("GRP"))
        /\ ~Takes(v2, PowerOn("GRP")) /\ ~Takes(v2, InReset("GRP"))
        /\ ~Takes(v2, PortOff("GRP"))
    BY <1>7, RailBitsAre DEF Takes, Puts
  <2>4. \A w \in {v3, v4, v5} : /\ ~Takes(w, Clamp("GRP")) /\ ~Puts(w, Clamp("GRP"))
                                /\ ~Takes(w, PowerOn("GRP"))
    BY <1>7, RailBitsAre DEF Takes, Puts
  <2>5. \A j \in 1 .. 2 - 1 : j = 1
    OBVIOUS
  <2>6. \A j \in 2 + 1 .. 5 : j = 3 \/ j = 4 \/ j = 5
    OBVIOUS
  <2> QED BY <2>1, <2>2, <2>3, <2>4, <2>5, <2>6 DEF Opens
<1>12. a \o b \in Seq(Quiet({}))
       /\ \A c : SurePut(a, c) \/ SurePut(b, c) => SurePut(a \o b, c)
  BY <1>4, <1>5, QuietJoin
<1>13. 2 \in 1 .. Len(v) /\ "GRP" \in C!Rails
  BY DEF C!Rails
<1>14. SurePut(v, <<"CTL", 3>>)
  <2>1. 1 \in 1 .. Len(v) /\ v[1] = v1
    OBVIOUS
  <2> QED BY <1>6, <2>1 DEF SurePut
<1> HIDE DEF v
<1> DEFINE s == a \o b \o v
<1>15. /\ s \in Seq(Spares({}))
       /\ \A q \in C!Rails \ {"GRP"} : s \in Seq(Mild(q))
       /\ \A c : SurePut(a \o b, c) \/ SurePut(v, c) => SurePut(s, c)
       /\ SwitchesOn(s, "GRP")
  BY <1>4, <1>9, <1>10, <1>11, <1>12, <1>13, QuietFirst
<1>16. \A c \in C!RunBits("GRP") : SurePut(s, c)
  <2>1. C!RunBits("GRP") = {<<"CTL", 3>>} \cup {<<"GRP_NS", n>> : n \in {7, 9, 11}}
    BY RunBitsAre
  <2> QED BY <1>5, <1>12, <1>14, <1>15, <2>1
<1> QED BY <1>1, <1>15, <1>16

\* The clamp, and then the power.
LEMMA ClampAndCut ==
    ASSUME NEW r \in C!Rails, NEW w1 \in Writes, NEW w2 \in Writes,
           w1.reg = "CLAMP", w1.clear = {}, w1.set = {C!ClampBit[r]}, Sure(w1),
           w2.reg = C!GFS[r], w2.set = {}
    PROVE  /\ <<w1, w2>> \in Seq(Spares({}))
           /\ \A q \in C!Rails \ {r} : <<w1, w2>> \in Seq(Mild(q))
           /\ Closes(<<w1, w2>>, 1, r)
<1>1. r = "GRP" \/ r = "VDC" \/ r = "VFE"
  BY DEF C!Rails
<1>2. w1 \in Spares({}) /\ w2 \in Spares({})
  BY <1>1, RailSpares DEF RailRegs, C!GFS
<1>3. Clamp(r) = <<"CLAMP", C!ClampBit[r]>> /\ PowerOn(r) = <<C!GFS[r], 8>>
  BY DEF Clamp, PowerOn, C!Powered
<1>4. /\ Sure(w1) /\ Puts(w1, Clamp(r)) /\ ~Takes(w1, Clamp(r)) /\ ~Takes(w1, PowerOn(r))
      /\ ~Takes(w1, InReset(r)) /\ ~Takes(w1, PortOff(r))
  BY <1>3 DEF Puts, Takes
<1>5. /\ ~Takes(w2, Clamp(r)) /\ ~Puts(w2, Clamp(r))
      /\ ~Takes(w2, InReset(r)) /\ ~Takes(w2, PortOff(r))
  BY <1>1, RailBitsAre DEF Puts, Takes, C!GFS
<1>6. ASSUME NEW q \in C!Rails \ {r}
      PROVE  w1 \in Mild(q) /\ w2 \in Mild(q)
  <2>1. q = "GRP" \/ q = "VDC" \/ q = "VFE"
    BY DEF C!Rails
  <2>2. C!ClampBit[q] # C!ClampBit[r] /\ C!GFS[q] # C!GFS[r]
    BY <1>1, <2>1 DEF C!ClampBit, C!GFS
  <2>3. w1 \in Mild(q)
    BY <2>2 DEF Mild, Takes, Puts, Clamp
  <2>4. w2 \in Mild(q)
    BY <1>1, <2>1, RailBitsAre DEF Mild, Takes, Puts, C!GFS
  <2> QED BY <2>3, <2>4
<1>7. Closes(<<w1, w2>>, 1, r)
  <2>1. /\ <<w1, w2>>[1] = w1 /\ <<w1, w2>>[2] = w2 /\ Len(<<w1, w2>>) = 2
        /\ \A j \in 1 + 1 .. 2 : j = 2
        /\ \A j \in 1 .. 1 - 1 : FALSE
    OBVIOUS
  <2> QED BY <1>4, <1>5, <2>1 DEF Closes
<1>8. <<w1, w2>> \in Seq(Spares({}))
  BY <1>2
<1>9. \A q \in C!Rails \ {r} : <<w1, w2>> \in Seq(Mild(q))
  BY <1>6
<1> QED BY <1>7, <1>8, <1>9

LEMMA GrpOff ==
    /\ C!set_grp_rail(FALSE) \in Seq(Spares({"GRP", "IMEM"}))
    /\ \A q \in C!Rails \ {"GRP"} : C!set_grp_rail(FALSE) \in Seq(Mild(q))
    /\ SwitchesOff(C!set_grp_rail(FALSE), "GRP")
<1> DEFINE S == {"GRP", "IMEM"}
           a == OrEach("GRP_NS", <<11, 7, 9>>)
           b1 == C!REG_OR("CTL", {3})
           b2 == C!REG_OR("AXI+0x10080", {0})
           b3 == C!REG_OR("AXI_RESET", {5})
           b4 == C!REG_OR("ROW_RESET", {17})
           b == <<b1, b2, b3, b4>>
           e == AndEach("GRP_NS", <<11, 7, 9>>)
           v1 == C!REG_OR("CLAMP", {2})
           v2 == C!REG_SET("GRP_GFS", {})
           v == <<v1, v2>>
<1>1. C!set_grp_rail(FALSE) = a \o b \o e \o v
  BY RailCallsAre
<1>2. /\ {5} \in SUBSET C!Bits /\ {17} \in SUBSET C!Bits /\ {3} \in SUBSET C!Bits
      /\ {2} \in SUBSET C!Bits /\ {0} \in SUBSET C!Bits /\ <<11, 7, 9>> \in Seq(C!Bits)
  BY DEF C!Bits
<1>3. /\ "AXI_RESET" \in C!Registers \ {"CLAMP"} /\ "ROW_RESET" \in C!Registers \ {"CLAMP"}
      /\ "CTL" \in C!Registers \ {"CLAMP"} /\ "AXI+0x10080" \in C!Registers \ {"CLAMP"}
      /\ "CLAMP" \in C!Registers /\ "GRP_GFS" \in C!Registers
      /\ "GRP_NS" \in C!Registers \ RailRegs
  BY RegistersAre DEF RailRegs
<1>4. a \in Seq(Quiet(S))
  <2>1. a \in Seq(Plain({}))
    BY <1>2, <1>3, EachOrPlain
  <2> QED BY <2>1, PlainQuiet
<1>5. b \in Seq(Quiet(S)) /\ SurePut(b, InReset("GRP")) /\ SurePut(b, PortOff("GRP"))
  <2>1. b1 \in Quiet(S) /\ b2 \in Quiet(S) /\ b3 \in Quiet(S) /\ b4 \in Quiet(S)
    BY <1>2, <1>3, OrQuiet, PlainQuiet
  <2>2. Sure(b2) /\ Puts(b2, PortOff("GRP")) /\ Sure(b3) /\ Puts(b3, InReset("GRP"))
    BY <1>2, <1>3, OrIs, RailBitsAre DEF Puts
  <2> HIDE DEF b1, b2, b3, b4
  <2>3. 2 \in 1 .. Len(b) /\ b[2] = b2 /\ 3 \in 1 .. Len(b) /\ b[3] = b3
    OBVIOUS
  <2> QED BY <2>1, <2>2, <2>3 DEF SurePut
<1>6. e \in Seq(Quiet(S))
  <2>1. \A id \in Clocks \ S : \A c \in C!RunBits(id) : c[1] # "GRP_NS"
    BY Owners DEF GatedRegs
  <2>2. e \in Seq(Plain(S))
    BY <1>2, <1>3, <2>1, EachAndPlain
  <2> QED BY <2>2, PlainQuiet
<1>7. /\ v \in Seq(Spares({})) /\ Closes(v, 1, "GRP")
      /\ \A q \in C!Rails \ {"GRP"} : v \in Seq(Mild(q))
  <2>1. "GRP" \in C!Rails /\ C!ClampBit["GRP"] = 2 /\ C!GFS["GRP"] = "GRP_GFS"
        /\ {} \in SUBSET C!Bits
    BY DEF C!Rails, C!ClampBit, C!GFS
  <2>2. v1 \in Writes /\ v1.reg = "CLAMP" /\ v1.clear = {} /\ v1.set = {2} /\ Sure(v1)
    BY <1>2, <1>3, OrIs
  <2>3. v2 \in Writes /\ v2.reg = "GRP_GFS" /\ v2.set = {}
    BY <1>3, <2>1, SetIs
  <2> QED BY <2>1, <2>2, <2>3, ClampAndCut
<1>8. v \in Seq(Spares(S)) /\ 1 \in 1 .. Len(v) /\ "GRP" \in C!Rails
  <2>1. Spares({}) \subseteq Spares(S)
    BY DEF Spares
  <2> HIDE DEF v1, v2
  <2>2. 1 \in 1 .. Len(v)
    OBVIOUS
  <2> QED BY <1>7, <2>1, <2>2 DEF C!Rails
<1> HIDE DEF S, a, b, e, v
<1> DEFINE u == a \o b \o e
<1>9. u \in Seq(Quiet(S)) /\ SurePut(u, InReset("GRP")) /\ SurePut(u, PortOff("GRP"))
  <2>1. /\ a \o b \in Seq(Quiet(S))
        /\ SurePut(a \o b, InReset("GRP")) /\ SurePut(a \o b, PortOff("GRP"))
    BY <1>4, <1>5, QuietJoin
  <2> QED BY <1>6, <2>1, QuietJoin
<1> HIDE DEF u
<1>10. /\ u \o v \in Seq(Spares(S)) /\ \A q \in C!Rails \ {"GRP"} : u \o v \in Seq(Mild(q))
       /\ SwitchesOff(u \o v, "GRP")
  BY <1>7, <1>8, <1>9, QuietFirst
<1> QED BY <1>1, <1>10 DEF u, S

-----------------------------------------------------------------------------
(* The rail of the video codec.                                            *)

LEMMA VdcClocksQuiet ==
    /\ VdcClocks \in Seq(Quiet({}))
    /\ SurePut(VdcClocks, <<"0xf0", 9>>) /\ SurePut(VdcClocks, <<"0xf0", 11>>)
<1> DEFINE a1 == C!REG_OR("0xf0", {11})
           a2 == C!REG_OR("0xf0", {8})
           a3 == C!REG_OR("0xf0", {9})
           b2 == [a2 EXCEPT !.when = {5, 6}]
<1>1. /\ "0xf0" \in C!Registers \ RailRegs /\ {5, 6} \in SUBSET C!Bits
      /\ {8} \in SUBSET C!Bits /\ {9} \in SUBSET C!Bits /\ {11} \in SUBSET C!Bits
  BY NamedRegs DEF C!Bits
<1>2. a1 \in Plain({}) /\ a2 \in Plain({}) /\ a3 \in Plain({})
  BY <1>1, OrPlain
<1>3. Sure(a1) /\ Puts(a1, <<"0xf0", 11>>) /\ Sure(a3) /\ Puts(a3, <<"0xf0", 9>>)
  BY <1>1, OrIs DEF Puts
<1>4. a2.clear = {} /\ a2 \in Writes /\ a2.reg \notin RailRegs
  BY <1>1, OrIs
<1>5. VdcClocks = <<a1, b2, a3>>
  BY DEF VdcClocks
<1> HIDE DEF a1, a2, a3
<1>6. b2 \in Writes /\ b2.clear = {} /\ b2.reg \notin RailRegs
  BY <1>1, <1>4 DEF Writes
<1> HIDE DEF b2
<1>7. b2 \in Plain({})
  BY <1>6 DEF Plain, Spares, Takes
<1>8. <<a1, b2, a3>> \in Seq(Plain({}))
  BY <1>2, <1>7
<1>9. /\ 1 \in 1 .. Len(<<a1, b2, a3>>) /\ <<a1, b2, a3>>[1] = a1
      /\ 3 \in 1 .. Len(<<a1, b2, a3>>) /\ <<a1, b2, a3>>[3] = a3
  OBVIOUS
<1> QED BY <1>3, <1>5, <1>8, <1>9, PlainQuiet DEF SurePut

LEMMA VdcOff ==
    ASSUME state = TRUE
    PROVE  /\ C!set_vdc_rail(FALSE) \in Seq(Spares({"VDC"}))
           /\ \A q \in C!Rails \ {"VDC"} : C!set_vdc_rail(FALSE) \in Seq(Mild(q))
           /\ SwitchesOff(C!set_vdc_rail(FALSE), "VDC")
<1> DEFINE S == {"VDC"}
           b1 == C!REG_OR("CTL", {3})
           b2 == C!REG_OR("AXI+0x10080", {2})
           b3 == C!REG_OR("AXI_RESET", {1})
           b4 == C!REG_OR("ROW_RESET", {0})
           b == <<b1, b2, b3, b4>>
           e == AndEach("AXI+0xf0", <<9, 8, 11>>)
           v1 == C!REG_OR("CLAMP", {1})
           v2 == C!REG_SET("VDC_GFS", {})
           v == <<v1, v2>>
<1>1. C!set_vdc_rail(FALSE) = VdcClocks \o b \o e \o v
  BY VdcCallsAre
<1>2. /\ {0} \in SUBSET C!Bits /\ {1} \in SUBSET C!Bits /\ {2} \in SUBSET C!Bits
      /\ {3} \in SUBSET C!Bits /\ <<9, 8, 11>> \in Seq(C!Bits)
  BY DEF C!Bits
<1>3. /\ "AXI_RESET" \in C!Registers \ {"CLAMP"} /\ "ROW_RESET" \in C!Registers \ {"CLAMP"}
      /\ "CTL" \in C!Registers \ {"CLAMP"} /\ "AXI+0x10080" \in C!Registers \ {"CLAMP"}
      /\ "CLAMP" \in C!Registers /\ "VDC_GFS" \in C!Registers
      /\ "AXI+0xf0" \in C!Registers \ RailRegs
  BY RegistersAre DEF RailRegs
<1>4. VdcClocks \in Seq(Quiet(S))
  BY VdcClocksQuiet, PlainQuiet
<1>5. b \in Seq(Quiet(S)) /\ SurePut(b, InReset("VDC")) /\ SurePut(b, PortOff("VDC"))
  <2>1. b1 \in Quiet(S) /\ b2 \in Quiet(S) /\ b3 \in Quiet(S) /\ b4 \in Quiet(S)
    BY <1>2, <1>3, OrQuiet, PlainQuiet
  <2>2. Sure(b2) /\ Puts(b2, PortOff("VDC")) /\ Sure(b3) /\ Puts(b3, InReset("VDC"))
    BY <1>2, <1>3, OrIs, RailBitsAre DEF Puts
  <2> HIDE DEF b1, b2, b3, b4
  <2>3. 2 \in 1 .. Len(b) /\ b[2] = b2 /\ 3 \in 1 .. Len(b) /\ b[3] = b3
    OBVIOUS
  <2> QED BY <2>1, <2>2, <2>3 DEF SurePut
<1>6. e \in Seq(Quiet(S))
  <2>1. \A id \in Clocks \ S : \A c \in C!RunBits(id) : c[1] # "AXI+0xf0"
    BY Owners DEF GatedRegs
  <2>2. e \in Seq(Plain(S))
    BY <1>2, <1>3, <2>1, EachAndPlain
  <2> QED BY <2>2, PlainQuiet
<1>7. /\ v \in Seq(Spares({})) /\ Closes(v, 1, "VDC")
      /\ \A q \in C!Rails \ {"VDC"} : v \in Seq(Mild(q))
  <2>1. "VDC" \in C!Rails /\ C!ClampBit["VDC"] = 1 /\ C!GFS["VDC"] = "VDC_GFS"
        /\ {} \in SUBSET C!Bits
    BY DEF C!Rails, C!ClampBit, C!GFS
  <2>2. v1 \in Writes /\ v1.reg = "CLAMP" /\ v1.clear = {} /\ v1.set = {1} /\ Sure(v1)
    BY <1>2, <1>3, OrIs
  <2>3. v2 \in Writes /\ v2.reg = "VDC_GFS" /\ v2.set = {}
    BY <1>3, <2>1, SetIs
  <2> QED BY <2>1, <2>2, <2>3, ClampAndCut
<1>8. v \in Seq(Spares(S)) /\ 1 \in 1 .. Len(v) /\ "VDC" \in C!Rails
  <2>1. Spares({}) \subseteq Spares(S)
    BY DEF Spares
  <2> HIDE DEF v1, v2
  <2>2. 1 \in 1 .. Len(v)
    OBVIOUS
  <2> QED BY <1>7, <2>1, <2>2 DEF C!Rails
<1> HIDE DEF S, b, e, v
<1> DEFINE u == VdcClocks \o b \o e
<1>9. u \in Seq(Quiet(S)) /\ SurePut(u, InReset("VDC")) /\ SurePut(u, PortOff("VDC"))
  <2>1. /\ VdcClocks \o b \in Seq(Quiet(S))
        /\ SurePut(VdcClocks \o b, InReset("VDC")) /\ SurePut(VdcClocks \o b, PortOff("VDC"))
    BY <1>4, <1>5, QuietJoin
  <2> QED BY <1>6, <2>1, QuietJoin
<1> HIDE DEF u
<1>10. /\ u \o v \in Seq(Spares(S)) /\ \A q \in C!Rails \ {"VDC"} : u \o v \in Seq(Mild(q))
       /\ SwitchesOff(u \o v, "VDC")
  BY <1>7, <1>8, <1>9, QuietFirst
<1> QED BY <1>1, <1>10 DEF u, S

LEMMA VdcOn ==
    ASSUME state = FALSE
    PROVE  /\ C!set_vdc_rail(TRUE) \in Seq(Spares({}))
           /\ \A q \in C!Rails \ {"VDC"} : C!set_vdc_rail(TRUE) \in Seq(Mild(q))
           /\ SwitchesOn(C!set_vdc_rail(TRUE), "VDC")
           /\ \A c \in C!RunBits("VDC") : SurePut(C!set_vdc_rail(TRUE), c)
<1> DEFINE v1 == C!REG_ANDM_OR("0x34", {20})
           v2 == C!REG_OR("CTL", {3})
           v3 == C!REG_ANDM_OR("AXI_RESET", {1})
           v4 == C!REG_ANDM_OR("ROW_RESET", {0})
           v5 == C!REG_ANDM_OR("APPS_RESET", {7})
           v6 == C!REG_SET("VDC_GFS", {8})
           v7 == C!REG_AND("CLAMP", {1})
           v8 == C!REG_AND("AXI+0x10080", {2})
           v9 == C!REG_AND("AXI_RESET", {1})
           v10 == C!REG_AND("ROW_RESET", {0})
           v11 == C!REG_AND("APPS_RESET", {7})
           v == <<v1, v2, v3, v4, v5, v6, v7, v8, v9, v10, v11>>
<1>1. C!set_vdc_rail(TRUE) = VdcClocks \o v
  BY VdcCallsAre
<1>2. /\ {0} \in SUBSET C!Bits /\ {1} \in SUBSET C!Bits /\ {2} \in SUBSET C!Bits
      /\ {3} \in SUBSET C!Bits /\ {7} \in SUBSET C!Bits /\ {20} \in SUBSET C!Bits
  BY DEF C!Bits
<1>3. /\ "AXI_RESET" \in C!Registers \ {"CLAMP"} /\ "ROW_RESET" \in C!Registers \ {"CLAMP"}
      /\ "APPS_RESET" \in C!Registers \ {"CLAMP"} /\ "0x34" \in C!Registers \ {"CLAMP"}
      /\ "CTL" \in C!Registers \ {"CLAMP"} /\ "AXI+0x10080" \in C!Registers
      /\ "CLAMP" \in C!Registers
      /\ "ROW_RESET" \in C!Registers \ RailRegs /\ "APPS_RESET" \in C!Registers \ RailRegs
  BY RegistersAre, NamedRegs DEF RailRegs
<1>4. \A w \in {v1, v2, v3, v4, v5} : w \in Quiet({})
  BY <1>2, <1>3, OrQuiet
<1>5. v6 \in Quiet({}) /\ Sure(v6) /\ Puts(v6, PowerOn("VDC"))
  BY PowerQuiet, RailBitsAre
<1>6. /\ \A w \in {v7, v8, v9} : w \in Writes /\ w.set = {} /\ Sure(w)
      /\ v7.reg = "CLAMP" /\ v7.clear = {1} /\ v8.reg = "AXI+0x10080" /\ v8.clear = {2}
      /\ v9.reg = "AXI_RESET" /\ v9.clear = {1}
  BY <1>2, <1>3, AndIs
<1>7. v10 \in Plain({}) /\ v11 \in Plain({})
  <2>1. \A id \in Clocks : \A c \in C!RunBits(id) : c[1] # "ROW_RESET" /\ c[1] # "APPS_RESET"
    BY Owners DEF GatedRegs
  <2> QED BY <1>2, <1>3, <2>1, AndPlain
<1> HIDE DEF v1, v2, v3, v4, v5, v6, v7, v8, v9, v10, v11
<1>8. \A w \in {v10, v11} : w \in Quiet({})
  BY <1>7, PlainQuiet
<1>9. /\ Len(v) = 11 /\ v[1] = v1 /\ v[2] = v2 /\ v[3] = v3 /\ v[4] = v4 /\ v[5] = v5
      /\ v[6] = v6 /\ v[7] = v7 /\ v[8] = v8 /\ v[9] = v9 /\ v[10] = v10 /\ v[11] = v11
  OBVIOUS
<1>10. v \in Seq(Spares({}))
  <2>1. \A w \in {v7, v8, v9} : w \in Spares({})
    BY <1>6, RailSpares DEF RailRegs
  <2>2. \A w \in {v1, v2, v3, v4, v5, v6, v10, v11} : w \in Spares({})
    BY <1>4, <1>5, <1>8 DEF Quiet
  <2> QED BY <2>1, <2>2
<1>11. ASSUME NEW q \in C!Rails \ {"VDC"}
       PROVE  v \in Seq(Mild(q))
  <2>1. \A w \in {v7, v8, v9} : w \in Mild("GRP") /\ w \in Mild("VFE")
    BY <1>6, RailBitsAre DEF Mild, Takes, Puts
  <2>2. \A w \in {v7, v8, v9} : w \in Mild(q)
    BY <2>1 DEF C!Rails
  <2>3. \A w \in {v1, v2, v3, v4, v5, v6, v10, v11} : w \in Mild(q)
    BY <1>4, <1>5, <1>8 DEF Quiet
  <2> QED BY <2>2, <2>3
<1>12. Opens(v, 7, "VDC")
  <2>1. \A j \in 1 .. 7 - 1 : j = 1 \/ j = 2 \/ j = 3 \/ j = 4 \/ j = 5 \/ j = 6
    OBVIOUS
  <2>2. \A w \in {v1, v2, v3, v4, v5, v6, v10, v11} : w \in Mild("VDC")
    BY <1>4, <1>5, <1>8 DEF Quiet, C!Rails
  <2>3. \A j \in 1 .. 7 - 1 : v[j] \in Mild("VDC")
    BY <1>9, <2>1, <2>2
  <2>4. /\ Sure(v7) /\ Takes(v7, Clamp("VDC")) /\ ~Puts(v7, Clamp("VDC"))
        /\ ~Takes(v7, PowerOn("VDC")) /\ ~Takes(v7, InReset("VDC"))
        /\ ~Takes(v7, PortOff("VDC"))
    BY <1>6, RailBitsAre DEF Takes, Puts
  <2>5. \A w \in {v8, v9} : /\ ~Takes(w, Clamp("VDC")) /\ ~Puts(w, Clamp("VDC"))
                            /\ ~Takes(w, PowerOn("VDC"))
    BY <1>6, RailBitsAre DEF Takes, Puts
  <2>6. \A w \in {v10, v11} : /\ ~Takes(w, Clamp("VDC")) /\ ~Puts(w, Clamp("VDC"))
                              /\ ~Takes(w, PowerOn("VDC"))
    BY <2>2 DEF Mild
  <2>7. \A j \in 7 + 1 .. 11 : j = 8 \/ j = 9 \/ j = 10 \/ j = 11
    OBVIOUS
  <2>8. \A j \in 7 + 1 .. Len(v) : /\ ~Takes(v[j], Clamp("VDC")) /\ ~Puts(v[j], Clamp("VDC"))
                                   /\ ~Takes(v[j], PowerOn("VDC"))
    BY <1>9, <2>5, <2>6, <2>7
  <2> QED BY <1>9, <2>3, <2>4, <2>8 DEF Opens
<1>13. /\ 7 \in 1 .. Len(v) /\ 6 \in 1 .. 7 - 1
       /\ Sure(v[6]) /\ Puts(v[6], PowerOn("VDC"))
  BY <1>5, <1>9
<1> HIDE DEF v
<1>14. \E p \in 1 .. 7 - 1 : Sure(v[p]) /\ Puts(v[p], PowerOn("VDC"))
  BY <1>13
<1> DEFINE s == VdcClocks \o v
<1>15. "VDC" \in C!Rails /\ VdcClocks \in Seq(Quiet({}))
  BY VdcClocksQuiet DEF C!Rails
<1>16. /\ s \in Seq(Spares({}))
       /\ \A q \in C!Rails \ {"VDC"} : s \in Seq(Mild(q))
       /\ \A c : SurePut(VdcClocks, c) \/ SurePut(v, c) => SurePut(s, c)
       /\ SwitchesOn(s, "VDC")
  BY <1>10, <1>11, <1>12, <1>13, <1>14, <1>15, QuietFirst
<1>17. \A c \in C!RunBits("VDC") : SurePut(s, c)
  <2>1. C!RunBits("VDC") = {<<"0xf0", 9>>, <<"0xf0", 11>>}
    BY RunBitsAre
  <2> QED BY <1>16, <2>1, VdcClocksQuiet
<1> QED BY <1>1, <1>16, <1>17

-----------------------------------------------------------------------------
(* The rail of the camera.                                                 *)

LEMMA VfeClocksQuiet ==
    /\ VfeClocks \in Seq(Quiet({}))
    /\ \A n \in {9, 11, 13} : SurePut(VfeClocks, <<"0x44", n>>)
<1> DEFINE a == OrEach("0x44", <<9, 13, 11>>)
           b == C!REG_AND("0x44", {1, 2})
<1>1. "0x44" \in C!Registers \ RailRegs /\ {1, 2} \in SUBSET C!Bits
      /\ <<9, 13, 11>> \in Seq(C!Bits)
  BY NamedRegs DEF C!Bits
<1>2. /\ 1 \in 1 .. Len(<<9, 13, 11>>) /\ 2 \in 1 .. Len(<<9, 13, 11>>)
      /\ 3 \in 1 .. Len(<<9, 13, 11>>)
      /\ <<9, 13, 11>>[1] = 9 /\ <<9, 13, 11>>[2] = 13 /\ <<9, 13, 11>>[3] = 11
  OBVIOUS
<1>3. a \in Seq(Plain({})) /\ \A i \in 1 .. Len(<<9, 13, 11>>) : SurePut(a, <<"0x44", <<9, 13, 11>>[i]>>)
  BY <1>1, EachOrPlain
<1>4. \A n \in {9, 11, 13} : SurePut(a, <<"0x44", n>>)
  BY <1>2, <1>3
<1>5. b \in Plain({})
  <2>1. \A id \in Clocks : \A c \in C!RunBits(id) : ~(c[1] = "0x44" /\ c[2] \in {1, 2})
    BY Owners DEF GatedRegs
  <2> QED BY <1>1, <2>1, AndPlain
<1>6. VfeClocks = a \o <<b>>
  BY DEF VfeClocks
<1> HIDE DEF a, b
<1>7. <<b>> \in Seq(Plain({}))
  BY <1>5
<1>8. /\ a \o <<b>> \in Seq(Plain({}))
      /\ \A c : SurePut(a, c) => SurePut(a \o <<b>>, c)
  BY <1>3, <1>7, PlainJoin
<1> QED BY <1>4, <1>6, <1>8, PlainQuiet

LEMMA VfeOn ==
    ASSUME is_enabled = FALSE
    PROVE  /\ C!set_vfe_rail(TRUE) \in Seq(Spares({}))
           /\ \A q \in C!Rails \ {"VFE"} : C!set_vfe_rail(TRUE) \in Seq(Mild(q))
           /\ SwitchesOn(C!set_vfe_rail(TRUE), "VFE")
           /\ \A c \in C!RunBits("VFE") : SurePut(C!set_vfe_rail(TRUE), c)
<1> DEFINE a1 == C!REG_ANDM_OR("AXI_RESET", {0})
           a2 == C!REG_ANDM_OR("APPS_RESET", {0})
           a3 == C!REG_SET("VFE_GFS", {8})
           a == <<a1, a2, a3>>
           v1 == C!REG_AND("CLAMP", {3})
           v2 == C!REG_AND("AXI+0x20080", {0})
           v3 == C!REG_AND("AXI_RESET", {0})
           v4 == C!REG_AND("APPS_RESET", {0})
           v == <<v1, v2, v3, v4>>
<1>1. C!set_vfe_rail(TRUE) = a \o VfeClocks \o v
  BY VfeCallsAre
<1>2. {0} \in SUBSET C!Bits /\ {3} \in SUBSET C!Bits
  BY DEF C!Bits
<1>3. /\ "AXI_RESET" \in C!Registers \ {"CLAMP"} /\ "APPS_RESET" \in C!Registers \ {"CLAMP"}
      /\ "AXI+0x20080" \in C!Registers /\ "CLAMP" \in C!Registers
      /\ "APPS_RESET" \in C!Registers \ RailRegs
  BY RegistersAre DEF RailRegs
<1>4. a \in Seq(Quiet({})) /\ SurePut(a, PowerOn("VFE"))
  <2>1. a1 \in Quiet({}) /\ a2 \in Quiet({})
    BY <1>2, <1>3, OrQuiet
  <2>2. a3 \in Quiet({}) /\ Sure(a3) /\ Puts(a3, PowerOn("VFE"))
    BY PowerQuiet, RailBitsAre
  <2> HIDE DEF a1, a2, a3
  <2>3. 3 \in 1 .. Len(a) /\ a[3] = a3
    OBVIOUS
  <2> QED BY <2>1, <2>2, <2>3 DEF SurePut
<1>5. /\ \A w \in {v1, v2, v3} : w \in Writes /\ w.set = {} /\ Sure(w)
      /\ v1.reg = "CLAMP" /\ v1.clear = {3} /\ v2.reg = "AXI+0x20080" /\ v2.clear = {0}
      /\ v3.reg = "AXI_RESET" /\ v3.clear = {0}
  BY <1>2, <1>3, AndIs
<1>6. v4 \in Plain({})
  <2>1. \A id \in Clocks : \A c \in C!RunBits(id) : c[1] # "APPS_RESET"
    BY Owners DEF GatedRegs
  <2> QED BY <1>2, <1>3, <2>1, AndPlain
<1> HIDE DEF a, v1, v2, v3, v4
<1>7. v4 \in Quiet({})
  BY <1>6, PlainQuiet
<1>8. v \in Seq(Spares({}))
  <2>1. v1 \in Spares({}) /\ v2 \in Spares({}) /\ v3 \in Spares({})
    BY <1>5, RailSpares DEF RailRegs
  <2> QED BY <1>7, <2>1 DEF Quiet
<1>9. ASSUME NEW q \in C!Rails \ {"VFE"}
      PROVE  v \in Seq(Mild(q))
  <2>1. \A w \in {v1, v2, v3} : w \in Mild("GRP") /\ w \in Mild("VDC")
    BY <1>5, RailBitsAre DEF Mild, Takes, Puts
  <2>2. v1 \in Mild(q) /\ v2 \in Mild(q) /\ v3 \in Mild(q)
    BY <2>1 DEF C!Rails
  <2> QED BY <1>7, <2>2 DEF Quiet
<1>10. Opens(v, 1, "VFE") /\ 1 \in 1 .. Len(v)
  <2>1. Len(v) = 4 /\ v[1] = v1 /\ v[2] = v2 /\ v[3] = v3 /\ v[4] = v4
    OBVIOUS
  <2>2. /\ Sure(v1) /\ Takes(v1, Clamp("VFE")) /\ ~Puts(v1, Clamp("VFE"))
        /\ ~Takes(v1, PowerOn("VFE")) /\ ~Takes(v1, InReset("VFE"))
        /\ ~Takes(v1, PortOff("VFE"))
    BY <1>5, RailBitsAre DEF Takes, Puts
  <2>3. \A w \in {v2, v3} : /\ ~Takes(w, Clamp("VFE")) /\ ~Puts(w, Clamp("VFE"))
                            /\ ~Takes(w, PowerOn("VFE"))
    BY <1>5, RailBitsAre DEF Takes, Puts
  <2>4. ~Takes(v4, Clamp("VFE")) /\ ~Puts(v4, Clamp("VFE")) /\ ~Takes(v4, PowerOn("VFE"))
    BY <1>7 DEF Quiet, Mild, C!Rails
  <2>5. /\ \A j \in 1 .. 1 - 1 : FALSE
        /\ \A j \in 1 + 1 .. 4 : j = 2 \/ j = 3 \/ j = 4
    OBVIOUS
  <2> QED BY <2>1, <2>2, <2>3, <2>4, <2>5 DEF Opens
<1> HIDE DEF v
<1> DEFINE u == a \o VfeClocks
           s == u \o v
<1>11. u \in Seq(Quiet({})) /\ SurePut(u, PowerOn("VFE"))
       /\ \A n \in {9, 11, 13} : SurePut(u, <<"0x44", n>>)
  BY <1>4, VfeClocksQuiet, QuietJoin
<1>12. "VFE" \in C!Rails
  BY DEF C!Rails
<1> HIDE DEF u
<1>13. /\ s \in Seq(Spares({}))
       /\ \A q \in C!Rails \ {"VFE"} : s \in Seq(Mild(q))
       /\ \A c : SurePut(u, c) \/ SurePut(v, c) => SurePut(s, c)
       /\ SwitchesOn(s, "VFE")
  BY <1>8, <1>9, <1>10, <1>11, <1>12, QuietFirst
<1>14. \A c \in C!RunBits("VFE") : SurePut(s, c)
  <2>1. C!RunBits("VFE") = {<<"0x44", n>> : n \in {9, 11, 13}}
    BY RunBitsAre
  <2> QED BY <1>11, <1>13, <2>1
<1> QED BY <1>1, <1>13, <1>14 DEF u

LEMMA VfeOff ==
    ASSUME is_enabled = TRUE
    PROVE  /\ C!set_vfe_rail(FALSE) \in Seq(Spares({"VFE"}))
           /\ \A q \in C!Rails \ {"VFE"} : C!set_vfe_rail(FALSE) \in Seq(Mild(q))
           /\ SwitchesOff(C!set_vfe_rail(FALSE), "VFE")
<1> DEFINE S == {"VFE"}
           a1 == C!REG_ANDM_OR("CTL", {2})
           v1 == C!REG_OR("AXI+0x20080", {0})
           v2 == C!REG_ANDM_OR("AXI_RESET", {0})
           v3 == C!REG_ANDM_OR("APPS_RESET", {0})
           v4 == C!REG_OR("0x44", {1, 2})
           v5 == C!REG_AND("0x44", 0 .. 11)
           v6 == C!REG_AND("0x44", 0 .. 13)
           v7 == C!REG_AND("0x44", 0 .. 9)
           v8 == C!REG_ANDM_OR("CLAMP", {3})
           v9 == C!REG_SET("VFE_GFS", {})
           v == <<v1, v2, v3, v4, v5, v6, v7, v8, v9>>
<1>1. C!set_vfe_rail(FALSE) = <<a1>> \o VfeClocks \o v
  BY VfeCallsAre
<1>2. /\ {0} \in SUBSET C!Bits /\ {2} \in SUBSET C!Bits /\ {3} \in SUBSET C!Bits
      /\ {1, 2} \in SUBSET C!Bits /\ {} \in SUBSET C!Bits
      /\ (0 .. 11) \in SUBSET C!Bits /\ (0 .. 13) \in SUBSET C!Bits /\ (0 .. 9) \in SUBSET C!Bits
  BY DEF C!Bits
<1>3. /\ "AXI_RESET" \in C!Registers \ {"CLAMP"} /\ "APPS_RESET" \in C!Registers \ {"CLAMP"}
      /\ "CTL" \in C!Registers \ {"CLAMP"} /\ "AXI+0x20080" \in C!Registers \ {"CLAMP"}
      /\ "0x44" \in C!Registers \ {"CLAMP"} /\ "0x44" \in C!Registers \ RailRegs
      /\ "CLAMP" \in C!Registers /\ "VFE_GFS" \in C!Registers
  BY RegistersAre, NamedRegs DEF RailRegs
<1>4. a1 \in Quiet(S) /\ \A w \in {v1, v2, v3, v4} : w \in Quiet(S)
  BY <1>2, <1>3, OrQuiet, PlainQuiet
<1>5. /\ Sure(v1) /\ Puts(v1, PortOff("VFE")) /\ Sure(v2) /\ Puts(v2, InReset("VFE"))
      /\ v8 \in Writes /\ v8.reg = "CLAMP" /\ v8.clear = {} /\ v8.set = {3} /\ Sure(v8)
  BY <1>2, <1>3, OrIs, RailBitsAre DEF Puts
<1>6. v9 \in Writes /\ v9.reg = "VFE_GFS" /\ v9.set = {}
  BY <1>2, <1>3, SetIs
<1>7. \A w \in {v5, v6, v7} : w \in Quiet(S)
  <2>1. \A id \in Clocks \ S : \A c \in C!RunBits(id) : c[1] # "0x44"
    BY Owners DEF GatedRegs
  <2>2. v5 \in Plain(S) /\ v6 \in Plain(S) /\ v7 \in Plain(S)
    BY <1>2, <1>3, <2>1, AndPlain
  <2> QED BY <2>2, PlainQuiet
<1> HIDE DEF S, a1, v1, v2, v3, v4, v5, v6, v7, v8, v9
<1>8. /\ Len(v) = 9 /\ v[1] = v1 /\ v[2] = v2 /\ v[3] = v3 /\ v[4] = v4 /\ v[5] = v5
      /\ v[6] = v6 /\ v[7] = v7 /\ v[8] = v8 /\ v[9] = v9
  OBVIOUS
<1>9. \A w \in {v1, v2, v3, v4, v5, v6, v7} : w \in Quiet(S)
  BY <1>4, <1>7
<1>10. v \in Seq(Spares(S))
  <2>1. v8 \in Spares({}) /\ v9 \in Spares({})
    BY <1>5, <1>6, RailSpares DEF RailRegs
  <2>2. \A w \in {v1, v2, v3, v4, v5, v6, v7, v8, v9} : w \in Spares(S)
    BY <1>9, <2>1 DEF Quiet, Spares
  <2> QED BY <2>2
<1>11. ASSUME NEW q \in C!Rails \ {"VFE"}
       PROVE  v \in Seq(Mild(q))
  <2>1. \A w \in {v8, v9} : w \in Mild("GRP") /\ w \in Mild("VDC")
    BY <1>5, <1>6, RailBitsAre DEF Mild, Takes, Puts
  <2>2. \A w \in {v8, v9} : w \in Mild(q)
    BY <2>1 DEF C!Rails
  <2>3. \A w \in {v1, v2, v3, v4, v5, v6, v7} : w \in Mild(q)
    BY <1>9 DEF Quiet
  <2> QED BY <2>2, <2>3
<1>12. Closes(v, 8, "VFE")
  <2>1. \A j \in 1 .. 8 - 1 : j = 1 \/ j = 2 \/ j = 3 \/ j = 4 \/ j = 5 \/ j = 6 \/ j = 7
    OBVIOUS
  <2>2. \A w \in {v1, v2, v3, v4, v5, v6, v7} : w \in Mild("VFE")
    BY <1>9 DEF Quiet, C!Rails
  <2>3. \A j \in 1 .. 8 - 1 : v[j] \in Mild("VFE")
    BY <1>8, <2>1, <2>2
  <2>4. /\ Sure(v8) /\ Puts(v8, Clamp("VFE")) /\ ~Takes(v8, Clamp("VFE"))
        /\ ~Takes(v8, PowerOn("VFE")) /\ ~Takes(v8, InReset("VFE"))
        /\ ~Takes(v8, PortOff("VFE"))
    BY <1>5, RailBitsAre DEF Takes, Puts
  <2>5. /\ ~Takes(v9, Clamp("VFE")) /\ ~Puts(v9, Clamp("VFE"))
        /\ ~Takes(v9, InReset("VFE")) /\ ~Takes(v9, PortOff("VFE"))
    BY <1>6, RailBitsAre DEF Takes, Puts
  <2>6. \A j \in 8 + 1 .. 9 : j = 9
    OBVIOUS
  <2> QED BY <1>8, <2>3, <2>4, <2>5, <2>6 DEF Closes
<1>13. /\ 8 \in 1 .. Len(v) /\ 1 \in 1 .. 8 - 1 /\ 2 \in 1 .. 8 - 1
       /\ Sure(v[1]) /\ Puts(v[1], PortOff("VFE")) /\ Sure(v[2]) /\ Puts(v[2], InReset("VFE"))
  BY <1>5, <1>8
<1> HIDE DEF v
<1>14. /\ \E p \in 1 .. 8 - 1 : Sure(v[p]) /\ Puts(v[p], InReset("VFE"))
       /\ \E p \in 1 .. 8 - 1 : Sure(v[p]) /\ Puts(v[p], PortOff("VFE"))
  BY <1>13
<1> DEFINE u == <<a1>> \o VfeClocks
<1>15. u \in Seq(Quiet(S))
  <2>1. <<a1>> \in Seq(Quiet(S))
    BY <1>4
  <2>2. VfeClocks \in Seq(Quiet(S))
    BY VfeClocksQuiet, PlainQuiet
  <2> QED BY <2>1, <2>2, QuietJoin
<1>16. "VFE" \in C!Rails
  BY DEF C!Rails
<1> HIDE DEF u
<1>17. /\ u \o v \in Seq(Spares(S)) /\ \A q \in C!Rails \ {"VFE"} : u \o v \in Seq(Mild(q))
       /\ SwitchesOff(u \o v, "VFE")
  BY <1>10, <1>11, <1>12, <1>13, <1>14, <1>15, <1>16, QuietFirst
<1> QED BY <1>1, <1>17 DEF u, S

-----------------------------------------------------------------------------
(* Every call, whatever the registers hold when it begins.                 *)

LEMMA PlainInOrder ==
    ASSUME NEW S, NEW s \in Seq(Plain(S))
    PROVE  s \in Seq(Spares(S)) /\ \A r \in C!Rails : InOrder(s, r)
<1>1. s \in Seq(Spares(S))
  BY DEF Plain
<1>2. ASSUME NEW r \in C!Rails
      PROVE  InOrder(s, r)
  <2>1. s \in Seq(Mild(r))
    BY PlainIsMild
  <2> QED BY <2>1, MildInOrder
<1> QED BY <1>1, <1>2

\* A rail that is switched, and plain writes after that.
LEMMA RailThen ==
    ASSUME NEW S, NEW s \in Seq(Spares(S)), NEW rail \in C!Rails,
           \A q \in C!Rails \ {rail} : s \in Seq(Mild(q)),
           SwitchesOn(s, rail) \/ SwitchesOff(s, rail),
           NEW z \in Seq(Plain(S))
    PROVE  /\ s \o z \in Seq(Spares(S))
           /\ \A r \in C!Rails : InOrder(s \o z, r)
           /\ \A c : SurePut(s, c) => SurePut(s \o z, c)
<1>1. z \in Seq(Spares(S)) /\ z \in Seq(Writes) /\ s \in Seq(Writes)
  BY DEF Plain, Spares
<1>2. s \o z \in Seq(Spares(S)) /\ s \o z \in Seq(Writes)
  BY <1>1
<1>3. \A c : SurePut(s, c) => SurePut(s \o z, c)
  BY <1>1, JoinPuts
<1>4. ASSUME NEW r \in C!Rails
      PROVE  InOrder(s \o z, r)
  <2>1. z \in Seq(Mild(r))
    BY PlainIsMild
  <2>2. CASE r = rail
    BY <1>1, <1>2, <2>1, <2>2, MildLast, OnInOrder, OffInOrder
  <2>3. CASE r # rail
    <3>1. s \in Seq(Mild(r))
      BY <2>3
    <3>2. s \o z \in Seq(Mild(r))
      BY <2>1, <3>1
    <3> QED BY <3>2, MildInOrder
  <2> QED BY <2>2, <2>3
<1> QED BY <1>2, <1>3, <1>4

LEMMA NothingPlain ==
    ASSUME NEW S
    PROVE  <<>> \in Seq(Plain(S)) /\ \A s \in Seq(Spares(S)) : s \o <<>> = s /\ <<>> \o <<>> = <<>>
OBVIOUS

\* To enable a clock keeps the rails in order, takes no clock away, and lets this one
\* run: unless its rail is on as far as the driver remembers.
LEMMA EnableInOrder ==
    ASSUME NEW id, state \in BOOLEAN, is_enabled \in BOOLEAN
    PROVE  /\ C!msm_clk_enable(id) \in Seq(Spares({}))
           /\ \A r \in C!Rails : InOrder(C!msm_clk_enable(id), r)
           /\ \/ id = "VDC" /\ state
              \/ id = "VFE" /\ is_enabled
              \/ \A c \in C!RunBits(id) : SurePut(C!msm_clk_enable(id), c)
<1>1. C!EnableBit(id) \in Seq(Plain({}))
  BY EnableBitPlain
<1>2. ASSUME C!msm_clk_enable(id) = <<>> \o C!EnableBit(id)
      PROVE  /\ C!msm_clk_enable(id) \in Seq(Spares({}))
             /\ \A r \in C!Rails : InOrder(C!msm_clk_enable(id), r)
  <2>1. C!msm_clk_enable(id) \in Seq(Plain({}))
    BY <1>1, <1>2, NothingPlain
  <2> QED BY <2>1, PlainInOrder
<1>3. CASE id \notin {"IMEM", "GRP", "VFE", "VDC"}
  BY <1>3, EnablePlain, PlainInOrder
<1>4. CASE id \in {"IMEM", "GRP"}
  <2>1. C!msm_clk_enable(id) = C!set_grp_rail(TRUE) \o C!EnableBit(id)
    BY <1>4, EnableIs
  <2>2. "GRP" \in C!Rails
    BY DEF C!Rails
  <2>3. /\ C!msm_clk_enable(id) \in Seq(Spares({}))
        /\ \A r \in C!Rails : InOrder(C!msm_clk_enable(id), r)
        /\ \A c : SurePut(C!set_grp_rail(TRUE), c) => SurePut(C!msm_clk_enable(id), c)
    BY <1>1, <2>1, <2>2, GrpOn, RailThen
  <2>4. C!RunBits(id) = C!RunBits("GRP")
    BY <1>4, RunBitsAre
  <2> QED BY <2>3, <2>4, GrpOn
<1>5. CASE id = "VDC"
  <2>1. C!msm_clk_enable(id) = C!set_vdc_rail(TRUE) \o C!EnableBit(id)
    BY <1>5, EnableIs
  <2>2. CASE state = TRUE
    BY <1>2, <1>5, <2>1, <2>2, VdcCallsAre
  <2>3. CASE state = FALSE
    <3>1. "VDC" \in C!Rails
      BY DEF C!Rails
    <3>2. /\ C!msm_clk_enable(id) \in Seq(Spares({}))
          /\ \A r \in C!Rails : InOrder(C!msm_clk_enable(id), r)
          /\ \A c : SurePut(C!set_vdc_rail(TRUE), c) => SurePut(C!msm_clk_enable(id), c)
      BY <1>1, <2>1, <2>3, <3>1, VdcOn, RailThen
    <3> QED BY <1>5, <2>3, <3>2, VdcOn
  <2> QED BY <2>2, <2>3
<1>6. CASE id = "VFE"
  <2>1. C!msm_clk_enable(id) = C!set_vfe_rail(TRUE) \o C!EnableBit(id)
    BY <1>6, EnableIs
  <2>2. CASE is_enabled = TRUE
    BY <1>2, <1>6, <2>1, <2>2, VfeCallsAre
  <2>3. CASE is_enabled = FALSE
    <3>1. "VFE" \in C!Rails
      BY DEF C!Rails
    <3>2. /\ C!msm_clk_enable(id) \in Seq(Spares({}))
          /\ \A r \in C!Rails : InOrder(C!msm_clk_enable(id), r)
          /\ \A c : SurePut(C!set_vfe_rail(TRUE), c) => SurePut(C!msm_clk_enable(id), c)
      BY <1>1, <2>1, <2>3, <3>1, VfeOn, RailThen
    <3> QED BY <1>6, <2>3, <3>2, VfeOn
  <2> QED BY <2>2, <2>3
<1> QED BY <1>3, <1>4, <1>5, <1>6

\* To disable a clock takes no other away, but for the one that shares its bits.
LEMMA DisableInOrder ==
    ASSUME NEW id, state \in BOOLEAN, is_enabled \in BOOLEAN
    PROVE  /\ C!msm_clk_disable(id) \in Seq(Spares(C!Sharing(id)))
           /\ \A r \in C!Rails : InOrder(C!msm_clk_disable(id), r)
<1>1. CASE id \notin {"IMEM", "GRP", "VFE", "VDC"}
  <2>1. C!Sharing(id) = {id}
    BY <1>1 DEF C!Sharing
  <2> QED BY <1>1, <2>1, DisablePlain, PlainInOrder
<1>2. CASE id \in {"IMEM", "GRP"}
  <2>1. C!msm_clk_disable(id) = C!set_grp_rail(FALSE) \o <<C!REG_AND("CTL", {3})>>
    BY <1>2, DisableIs
  <2>2. C!Sharing(id) = {"GRP", "IMEM"}
    BY <1>2 DEF C!Sharing
  <2>3. C!REG_AND("CTL", {3}) \in Plain({"GRP", "IMEM"})
    <3>1. \A i \in Clocks \ {"GRP", "IMEM"} : \A c \in C!RunBits(i) : ~(c[1] = "CTL" /\ c[2] \in {3})
      BY Owners, RegistersAre DEF GatedRegs
    <3> QED BY <3>1, AndPlain, RegistersAre DEF C!Bits
  <2>4. <<C!REG_AND("CTL", {3})>> \in Seq(Plain({"GRP", "IMEM"}))
    BY <2>3
  <2>5. "GRP" \in C!Rails
    BY DEF C!Rails
  <2> QED BY <2>1, <2>2, <2>4, <2>5, GrpOff, RailThen
<1>3. ASSUME C!msm_clk_disable(id) = <<>>
      PROVE  /\ C!msm_clk_disable(id) \in Seq(Spares(C!Sharing(id)))
             /\ \A r \in C!Rails : InOrder(C!msm_clk_disable(id), r)
  BY <1>3, NothingPlain, PlainInOrder
<1>4. CASE id = "VDC"
  <2>1. C!msm_clk_disable(id) = C!set_vdc_rail(FALSE) /\ C!Sharing(id) = {"VDC"}
    BY <1>4, DisableIs DEF C!Sharing
  <2>2. CASE state = FALSE
    BY <1>3, <2>1, <2>2, VdcCallsAre
  <2>3. CASE state = TRUE
    <3>1. "VDC" \in C!Rails
      BY DEF C!Rails
    <3>2. /\ C!set_vdc_rail(FALSE) \o <<>> \in Seq(Spares({"VDC"}))
          /\ \A r \in C!Rails : InOrder(C!set_vdc_rail(FALSE) \o <<>>, r)
      BY <2>3, <3>1, VdcOff, RailThen, NothingPlain
    <3>3. C!set_vdc_rail(FALSE) \o <<>> = C!set_vdc_rail(FALSE)
      BY <2>3, VdcOff, NothingPlain
    <3> QED BY <2>1, <3>2, <3>3
  <2> QED BY <2>2, <2>3
<1>5. CASE id = "VFE"
  <2>1. C!msm_clk_disable(id) = C!set_vfe_rail(FALSE) /\ C!Sharing(id) = {"VFE"}
    BY <1>5, DisableIs DEF C!Sharing
  <2>2. CASE is_enabled = FALSE
    BY <1>3, <2>1, <2>2, VfeCallsAre
  <2>3. CASE is_enabled = TRUE
    <3>1. "VFE" \in C!Rails
      BY DEF C!Rails
    <3>2. /\ C!set_vfe_rail(FALSE) \o <<>> \in Seq(Spares({"VFE"}))
          /\ \A r \in C!Rails : InOrder(C!set_vfe_rail(FALSE) \o <<>>, r)
      BY <2>3, <3>1, VfeOff, RailThen, NothingPlain
    <3>3. C!set_vfe_rail(FALSE) \o <<>> = C!set_vfe_rail(FALSE)
      BY <2>3, VfeOff, NothingPlain
    <3> QED BY <2>1, <3>2, <3>3
  <2> QED BY <2>2, <2>3
<1> QED BY <1>1, <1>2, <1>4, <1>5

LEMMA RateInOrder ==
    ASSUME NEW id, NEW found \in BOOLEAN
    PROVE  /\ C!msm_clk_set_freq(id, found) \in Seq(Spares({}))
           /\ \A r \in C!Rails : InOrder(C!msm_clk_set_freq(id, found), r)
BY RatePlain, PlainInOrder

-----------------------------------------------------------------------------
(* Every step.                                                             *)

\* Nobody else has a call, or anything left to do.
Alone(t) == \A u \in ClockUsers \ {t} : serving[u] = C!NoCall /\ work[u] = <<>>
                                        /\ latch[u] = C!NotRead

LEMMA NothingLeft ==
    ASSUME NEW r \in C!Rails
    PROVE  InOrder(<<>>, r) /\ InOrder(<<>>, r)'
BY DEF InOrder

LEMMA ClkCall ==
    ASSUME ClkInv, "nobody" \notin ClockUsers, NEW t \in ClockUsers,
           NEW op \in {"enable", "disable", "rate"}, NEW id \in Clocks, NEW ws \in Seq(Writes),
           C!Call(t, op, id, ws), \A r \in C!Rails : InOrder(ws, r),
           op = "disable" => ws \in Seq(Spares(C!Sharing(id))),
           op # "disable" => ws \in Seq(Spares({})),
           op = "enable" => \/ id = "VDC" /\ state
                            \/ id = "VFE" /\ is_enabled
                            \/ \A c \in C!RunBits(id) : SurePut(ws, c)
    PROVE  ClkInv'
<1> DEFINE m == [op |-> op, id |-> id]
<1>1. /\ clk_mutex = "nobody" /\ clk_mutex' = t /\ regs' = regs /\ latch' = latch /\ on' = on
      /\ serving' = [serving EXCEPT ![t] = m]
      /\ work' = [work EXCEPT ![t] = ws]
      /\ state' = (IF id = "VDC" /\ op # "rate" THEN op = "enable" ELSE state)
      /\ is_enabled' = (IF id = "VFE" /\ op # "rate" THEN op = "enable" ELSE is_enabled)
  BY DEF C!Call, C!Free, C!Nobody
<1>2. ClkTypes /\ OneCall /\ RailsRight /\ Running /\ Remembered(state, "VDC")
      /\ Remembered(is_enabled, "VFE")
  BY DEF ClkInv
<1>3. m.op = op /\ m.id = id /\ m \in Calls /\ m # C!NoCall
  BY DEF Calls, C!NoCall
<1> HIDE DEF m
<1>4. \A u \in ClockUsers : serving[u] = C!NoCall /\ work[u] = <<>> /\ latch[u] = C!NotRead
  BY <1>1, <1>2 DEF OneCall
<1>5. /\ \A u \in ClockUsers : serving'[u] = IF u = t THEN m ELSE C!NoCall
      /\ \A u \in ClockUsers : work'[u] = IF u = t THEN ws ELSE <<>>
      /\ \A u \in ClockUsers : latch'[u] = C!NotRead
  BY <1>1, <1>2, <1>4 DEF ClkTypes
<1>6. C!NoCall.op = "none"
  BY DEF C!NoCall
<1>7. ClkTypes'
  <2>1. work' \in [ClockUsers -> Seq(Writes)] /\ serving' \in [ClockUsers -> Calls]
    BY <1>1, <1>2, <1>3 DEF ClkTypes
  <2>2. state' \in BOOLEAN
    BY <1>1, <1>2, Zenon DEF ClkTypes
  <2>3. is_enabled' \in BOOLEAN
    BY <1>1, <1>2, Zenon DEF ClkTypes
  <2> QED BY <1>1, <1>2, <2>1, <2>2, <2>3 DEF ClkTypes
<1>8. OneCall'
  <2> SUFFICES ASSUME NEW u \in ClockUsers
               PROVE  /\ clk_mutex' # u => serving'[u] = C!NoCall /\ work'[u] = <<>>
                      /\ clk_mutex' = u => serving'[u].op # "none" /\ serving'[u].id \in Clocks
                      /\ latch'[u] = C!NotRead
    BY DEF OneCall
  <2> QED BY <1>1, <1>3, <1>5
<1>9. \A c : IsOn(c)' <=> IsOn(c)
  BY <1>1 DEF IsOn
<1>10. ASSUME NEW r \in C!Rails, NEW u \in ClockUsers
       PROVE  InOrder(work[u], r)'
  <2>1. InOrder(ws, r)' <=> InOrder(ws, r)
    BY <1>1 DEF InOrder, SetBefore, ClearBefore, IsOn, Takes, Puts, Sure
  <2>2. CASE u = t
    BY <1>5, <2>1, <2>2
  <2>3. CASE u # t
    BY <1>5, <2>3, NothingLeft
  <2> QED BY <2>2, <2>3
<1>11. RailsRight'
  BY <1>2, <1>9, <1>10 DEF RailsRight
<1>12. \A i : ~GoingOff(i)
  BY <1>4, <1>6 DEF GoingOff
<1>13. \A i : GoingOff(i)' <=> (op = "disable" /\ i \in C!Sharing(id))
  BY <1>3, <1>5, <1>6 DEF GoingOff
<1>14. ASSUME NEW S, NEW i \in Clocks \ S, NEW c \in C!RunBits(i), ws \in Seq(Spares(S))
       PROVE  Spared(c)'
  <2>1. \A k \in 1 .. Len(ws) : ws[k] \in Spares(S)
    BY <1>14
  <2>2. \A k \in 1 .. Len(ws) : ~Takes(ws[k], c)
    BY <1>14, <2>1 DEF Spares
  <2>3. ASSUME NEW u \in ClockUsers, NEW k \in 1 .. Len(work'[u])
        PROVE  ~Takes(work'[u][k], c)
    <3>1. CASE u = t
      BY <1>5, <2>2, <2>3, <3>1
    <3>2. CASE u # t
      BY <1>5, <2>3, <3>2
    <3> QED BY <3>1, <3>2
  <2> QED BY <2>3 DEF Spared, Takes
<1>15. ASSUME NEW i \in on', ~GoingOff(i)', NEW c \in C!RunBits(i)
       PROVE  IsOn(c)' /\ Spared(c)'
  <2>1. i \in on /\ i \in Clocks
    BY <1>1, <1>2 DEF ClkTypes
  <2>2. IsOn(c)
    BY <1>2, <1>12, <2>1 DEF Running
  <2>3. CASE op = "disable"
    BY <1>9, <1>13, <1>14, <1>15, <2>1, <2>2, <2>3
  <2>4. CASE op # "disable"
    <3>1. ws \in Seq(Spares({})) /\ i \in Clocks \ {}
      BY <2>1, <2>4
    <3> QED BY <1>9, <1>14, <2>2, <3>1
  <2> QED BY <2>3, <2>4
<1>16. ASSUME op = "enable", NEW c \in C!RunBits(id)
       PROVE  Spared(c)' /\ (IsOn(c)' \/ SurePut(ws, c))
  <2>1. ws \in Seq(Spares({})) /\ id \in Clocks \ {}
    BY <1>16
  <2>2. Spared(c)'
    BY <1>14, <2>1
  <2>3. CASE id = "VDC" /\ state
    <3>1. id \in on
      BY <1>2, <1>3, <1>4, <1>6, <2>3 DEF Remembered
    <3> QED BY <1>2, <1>9, <1>12, <2>2, <3>1 DEF Running
  <2>4. CASE id = "VFE" /\ is_enabled
    <3>1. id \in on
      BY <1>2, <1>3, <1>4, <1>6, <2>4 DEF Remembered
    <3> QED BY <1>2, <1>9, <1>12, <2>2, <3>1 DEF Running
  <2> QED BY <1>16, <2>2, <2>3, <2>4
<1>17. Running'
  <2>1. ASSUME NEW u \in ClockUsers, serving'[u].op = "enable", NEW c \in C!RunBits(serving'[u].id)
        PROVE  Spared(c)' /\ (IsOn(c)' \/ \E i \in 1 .. Len(work'[u]) :
                                             Sure(work'[u][i]) /\ Puts(work'[u][i], c))
    <3>1. u = t /\ op = "enable" /\ c \in C!RunBits(id) /\ work'[u] = ws
      BY <1>3, <1>5, <1>6, <2>1
    <3> QED BY <1>16, <3>1 DEF SurePut
  <2> QED BY <1>15, <2>1 DEF Running, Sure, Puts
<1>18. C!Sharing("VDC") = {"VDC"} /\ C!Sharing("VFE") = {"VFE"}
       /\ ("VDC" \in C!Sharing(id) => id = "VDC") /\ ("VFE" \in C!Sharing(id) => id = "VFE")
  BY DEF C!Sharing
<1>19. ASSUME state'
       PROVE  \/ "VDC" \in on' /\ ~GoingOff("VDC")'
              \/ \E u \in ClockUsers : serving'[u] = [op |-> "enable", id |-> "VDC"]
  <2>1. CASE id = "VDC" /\ op # "rate"
    <3>1. op = "enable"
      BY <1>1, <1>19, <2>1
    <3> QED BY <1>5, <2>1, <3>1 DEF m
  <2>2. CASE ~(id = "VDC" /\ op # "rate")
    <3>1. state
      BY <1>1, <1>19, <2>2
    <3>2. "VDC" \in on
      BY <1>2, <1>4, <1>6, <3>1 DEF Remembered
    <3>3. ~GoingOff("VDC")'
      BY <1>13, <1>18, <2>2
    <3> QED BY <1>1, <3>2, <3>3
  <2> QED BY <2>1, <2>2
<1>20. ASSUME is_enabled'
       PROVE  \/ "VFE" \in on' /\ ~GoingOff("VFE")'
              \/ \E u \in ClockUsers : serving'[u] = [op |-> "enable", id |-> "VFE"]
  <2>1. CASE id = "VFE" /\ op # "rate"
    <3>1. op = "enable"
      BY <1>1, <1>20, <2>1
    <3> QED BY <1>5, <2>1, <3>1 DEF m
  <2>2. CASE ~(id = "VFE" /\ op # "rate")
    <3>1. is_enabled
      BY <1>1, <1>20, <2>2
    <3>2. "VFE" \in on
      BY <1>2, <1>4, <1>6, <3>1 DEF Remembered
    <3>3. ~GoingOff("VFE")'
      BY <1>13, <1>18, <2>2
    <3> QED BY <1>1, <3>2, <3>3
  <2> QED BY <2>1, <2>2
<1>21. Remembered(state, "VDC")' /\ Remembered(is_enabled, "VFE")'
  BY <1>19, <1>20 DEF Remembered
<1> QED BY <1>7, <1>8, <1>11, <1>17, <1>21 DEF ClkInv

LEMMA Served ==
    ASSUME ClkInv, NEW t \in ClockUsers, serving[t] # C!NoCall \/ work[t] # <<>>
    PROVE  clk_mutex = t /\ Alone(t)
<1>1. OneCall /\ clk_mutex = t
  BY DEF ClkInv, OneCall
<1> QED BY <1>1 DEF OneCall, Alone

\* A step that leaves the registers and the writes alone.
LEMMA RailsStay ==
    ASSUME RailsRight, regs' = regs, work' = work
    PROVE  RailsRight'
<1>1. \A c : IsOn(c)' <=> IsOn(c)
  BY DEF IsOn
<1>2. ASSUME NEW r \in C!Rails, NEW t \in ClockUsers
      PROVE  InOrder(work[t], r)'
  <2>1. PICK s : s = work[t]
    OBVIOUS
  <2>2. s = work'[t]
    BY <2>1
  <2>3. InOrder(s, r)' <=> InOrder(s, r)
    BY DEF InOrder, SetBefore, ClearBefore, IsOn, Takes, Puts, Sure
  <2> QED BY <2>1, <2>2, <2>3 DEF RailsRight
<1> QED BY <1>1, <1>2 DEF RailsRight

LEMMA RunningStays ==
    ASSUME Running, UNCHANGED <<regs, work, serving, on>>
    PROVE  Running'
<1>1. \A c : /\ IsOn(c)' <=> IsOn(c)
             /\ Spared(c)' <=> Spared(c)
  BY DEF IsOn, Spared, Takes
<1>2. \A i : GoingOff(i)' <=> GoingOff(i)
  BY DEF GoingOff
<1>3. \A i \in on' : GoingOff(i)' \/ \A c \in C!RunBits(i) : IsOn(c)' /\ Spared(c)'
  BY <1>1, <1>2 DEF Running
<1>4. ASSUME NEW u \in ClockUsers, serving'[u].op = "enable", NEW c \in C!RunBits(serving'[u].id)
      PROVE  Spared(c)' /\ (IsOn(c)' \/ \E i \in 1 .. Len(work'[u]) :
                                           Sure(work'[u][i]) /\ Puts(work'[u][i], c))
  <2>1. serving[u].op = "enable" /\ c \in C!RunBits(serving[u].id) /\ work'[u] = work[u]
    BY <1>4
  <2> QED BY <1>1, <2>1 DEF Running
<1> QED BY <1>3, <1>4 DEF Running, Sure, Puts

LEMMA ClkRead ==
    ASSUME ClkInv, NEW t \in ClockUsers, C!readl(t)
    PROVE  ClkInv'
<1>1. /\ ClkTypes /\ OneCall /\ RailsRight /\ Running /\ Remembered(state, "VDC")
      /\ Remembered(is_enabled, "VFE")
  BY DEF ClkInv
<1>2. /\ work[t] # <<>> /\ latch' = [latch EXCEPT ![t] = regs[Head(work[t]).reg]]
      /\ UNCHANGED <<regs, clk_mutex, work, serving, state, is_enabled, on>>
  BY DEF C!readl
<1>3. work[t] \in Seq(Writes) /\ Head(work[t]) \in Writes
  BY <1>1, <1>2, TailAt DEF ClkTypes
<1>4. regs[Head(work[t]).reg] \in SUBSET (0 .. 32)
  <2>1. Head(work[t]).reg \in C!Registers
    BY <1>3 DEF Writes
  <2>2. C!Bits \subseteq 0 .. 32
    BY DEF C!Bits
  <2> QED BY <1>1, <2>1, <2>2 DEF ClkTypes
<1>5. ClkTypes'
  BY <1>1, <1>2, <1>4 DEF ClkTypes
<1>6. \A u \in ClockUsers : latch'[u] = IF u = t THEN regs[Head(work[t]).reg] ELSE latch[u]
  BY <1>1, <1>2 DEF ClkTypes
<1>7. OneCall'
  BY <1>1, <1>2, <1>6 DEF OneCall
<1>8. RailsRight'
  BY <1>1, <1>2, RailsStay
<1>9. Running'
  BY <1>1, <1>2, RunningStays
<1>10. Remembered(state, "VDC")' /\ Remembered(is_enabled, "VFE")'
  BY <1>1, <1>2 DEF Remembered, GoingOff
<1> QED BY <1>5, <1>7, <1>8, <1>9, <1>10 DEF ClkInv

LEMMA ClkWrite ==
    ASSUME ClkInv, NEW t \in ClockUsers, C!writel(t)
    PROVE  ClkInv'
<1>1. /\ ClkTypes /\ OneCall /\ RailsRight /\ Running /\ Remembered(state, "VDC")
      /\ Remembered(is_enabled, "VFE")
  BY DEF ClkInv
<1>2. /\ work[t] # <<>> /\ latch[t] # C!NotRead
      /\ regs' = [regs EXCEPT ![Head(work[t]).reg] = C!New(Head(work[t]), latch[t])]
      /\ latch' = [latch EXCEPT ![t] = C!NotRead]
      /\ work' = [work EXCEPT ![t] = Tail(work[t])]
      /\ UNCHANGED <<clk_mutex, serving, state, is_enabled, on>>
  BY DEF C!writel
<1>3. clk_mutex = t /\ Alone(t)
  BY <1>2, Served
<1>4. PICK s \in Seq(Writes) : s = work[t]
  BY <1>1 DEF ClkTypes
<1>5. s # <<>>
  BY <1>2, <1>4
<1>6. /\ Head(s) = s[1] /\ s[1] \in Writes /\ Tail(s) \in Seq(Writes)
      /\ Len(s) \in Nat /\ Len(s) >= 1 /\ Len(Tail(s)) = Len(s) - 1
      /\ \A i \in 1 .. Len(s) - 1 : Tail(s)[i] = s[i + 1] /\ i + 1 \in 1 .. Len(s)
  BY <1>5, TailAt
<1>7. latch[t] = regs[Head(s).reg]
  BY <1>1, <1>2, <1>4 DEF OneCall
<1>8. regs' = [regs EXCEPT ![Head(s).reg] = C!New(Head(s), regs[Head(s).reg])]
  BY <1>2, <1>4, <1>7
<1>9. regs \in [C!Registers -> SUBSET C!Bits]
  BY <1>1 DEF ClkTypes
<1>10. /\ \A u \in ClockUsers : work'[u] = IF u = t THEN Tail(s) ELSE <<>>
       /\ \A u \in ClockUsers : latch'[u] = C!NotRead
       /\ \A u \in ClockUsers \ {t} : serving[u] = C!NoCall
  BY <1>1, <1>2, <1>3, <1>4 DEF ClkTypes, Alone
<1>11. C!NoCall.op = "none"
  BY DEF C!NoCall
<1>12. ClkTypes'
  <2>1. regs' \in [C!Registers -> SUBSET C!Bits]
    <3>1. Head(s).reg \in C!Registers
      BY <1>6 DEF Writes
    <3>2. regs[Head(s).reg] \in SUBSET C!Bits
      BY <1>9, <3>1
    <3>3. C!New(Head(s), regs[Head(s).reg]) \in SUBSET C!Bits
      <4>1. 0 \in C!Bits
        BY DEF C!Bits
      <4> QED BY <1>6, <3>2, <4>1, WriteIs
    <3> QED BY <1>8, <1>9, <3>3
  <2>2. work' \in [ClockUsers -> Seq(Writes)]
    BY <1>1, <1>2, <1>4, <1>6 DEF ClkTypes
  <2>3. latch' \in [ClockUsers -> SUBSET (0 .. 32)]
    <3>1. C!NotRead \in SUBSET (0 .. 32)
      BY DEF C!NotRead
    <3> QED BY <1>1, <1>2, <3>1 DEF ClkTypes
  <2> QED BY <1>1, <1>2, <2>1, <2>2, <2>3 DEF ClkTypes
<1>13. OneCall'
  <2> SUFFICES ASSUME NEW u \in ClockUsers
               PROVE  /\ clk_mutex' # u => serving'[u] = C!NoCall /\ work'[u] = <<>>
                      /\ clk_mutex' = u => serving'[u].op # "none" /\ serving'[u].id \in Clocks
                      /\ latch'[u] = C!NotRead
    BY DEF OneCall
  <2> QED BY <1>1, <1>2, <1>3, <1>10 DEF OneCall
<1>14. ASSUME NEW r \in C!Rails
       PROVE  /\ (IsOn(Clamp(r)) => IsOn(InReset(r)) /\ IsOn(PortOff(r)))'
              /\ (~IsOn(Clamp(r)) => IsOn(PowerOn(r)))'
              /\ \A u \in ClockUsers : InOrder(work[u], r)'
  <2>1. /\ InOrder(s, r)
        /\ IsOn(Clamp(r)) => IsOn(InReset(r)) /\ IsOn(PortOff(r))
        /\ ~IsOn(Clamp(r)) => IsOn(PowerOn(r))
    BY <1>1, <1>4 DEF RailsRight
  <2>2. /\ InOrder(Tail(s), r)'
        /\ (IsOn(Clamp(r)) => IsOn(InReset(r)) /\ IsOn(PortOff(r)))'
        /\ (~IsOn(Clamp(r)) => IsOn(PowerOn(r)))'
    BY <1>5, <1>8, <1>9, <2>1, RailStep
  <2>3. ASSUME NEW u \in ClockUsers
        PROVE  InOrder(work[u], r)'
    <3>1. CASE u = t
      <4>1. work'[u] = Tail(s)'
        BY <1>10, <3>1
      <4> QED BY <2>2, <4>1
    <3>2. CASE u # t
      BY <1>10, <3>2, NothingLeft
    <3> QED BY <3>1, <3>2
  <2> QED BY <2>2, <2>3
<1>15. RailsRight'
  BY <1>14 DEF RailsRight
<1>16. \A i : GoingOff(i)' <=> GoingOff(i)
  BY <1>2 DEF GoingOff
<1>17. ASSUME NEW i, NEW c \in C!RunBits(i)
       PROVE  /\ Spared(c) => Spared(c)'
              /\ Spared(c) /\ IsOn(c) => IsOn(c)'
              /\ Sure(s[1]) /\ Puts(s[1], c) => IsOn(c)'
  <2>1. Spared(c) => Spared(c)'
    <3> SUFFICES ASSUME Spared(c), NEW u \in ClockUsers, NEW k \in 1 .. Len(work'[u])
                 PROVE  ~Takes(work'[u][k], c)
      BY DEF Spared, Takes
    <3>1. CASE u = t
      <4>1. k \in 1 .. Len(s) - 1 /\ work'[u][k] = s[k + 1] /\ k + 1 \in 1 .. Len(s)
        BY <1>6, <1>10, <3>1
      <4> QED BY <1>4, <4>1 DEF Spared
    <3>2. CASE u # t
      BY <1>10, <3>2
    <3> QED BY <3>1, <3>2
  <2>2. \E a, b : c = <<a, b>>
    BY Zenon DEF C!RunBits
  <2>3. c[1] \in C!Registers /\ c[2] \in C!Bits
    BY RunInBits
  <2>4. c \in AllBits
    BY <2>2, <2>3 DEF AllBits
  <2>5. Spared(c) => ~Takes(s[1], c)
    <3>1. 1 \in 1 .. Len(s)
      BY <1>6
    <3> QED BY <1>4, <3>1 DEF Spared
  <2>6. /\ IsOn(c) /\ ~Takes(s[1], c) => IsOn(c)'
        /\ Sure(s[1]) /\ Puts(s[1], c) => IsOn(c)'
    BY <1>6, <1>8, <1>9, <2>4, StepBits
  <2> QED BY <2>1, <2>5, <2>6
<1>18. ASSUME NEW u \in ClockUsers, serving'[u].op = "enable", NEW c \in C!RunBits(serving'[u].id)
       PROVE  Spared(c)' /\ (IsOn(c)' \/ \E k \in 1 .. Len(work'[u]) :
                                            Sure(work'[u][k]) /\ Puts(work'[u][k], c))
  <2>1. u = t /\ serving[t].op = "enable" /\ c \in C!RunBits(serving[t].id)
    BY <1>2, <1>10, <1>11, <1>18
  <2>2. Spared(c) /\ (IsOn(c) \/ \E k \in 1 .. Len(s) : Sure(s[k]) /\ Puts(s[k], c))
    BY <1>1, <1>4, <2>1 DEF Running
  <2>3. Spared(c)' /\ (IsOn(c) => IsOn(c)')
    BY <1>17, <2>1, <2>2
  <2>4. ASSUME NEW k \in 1 .. Len(s), Sure(s[k]), Puts(s[k], c), ~IsOn(c)'
        PROVE  \E j \in 1 .. Len(work'[u]) : Sure(work'[u][j]) /\ Puts(work'[u][j], c)
    <3>1. k # 1
      BY <1>17, <2>1, <2>4
    <3>2. /\ k - 1 \in 1 .. Len(s) - 1 /\ Tail(s)[k - 1] = s[k]
      BY <1>6, <2>4, <3>1
    <3>3. k - 1 \in 1 .. Len(work'[u]) /\ work'[u][k - 1] = s[k]
      BY <1>6, <1>10, <2>1, <3>2
    <3> QED BY <2>4, <3>3
  <2> QED BY <2>2, <2>3, <2>4
<1>19. Running'
  <2>1. ASSUME NEW i \in on', ~GoingOff(i)', NEW c \in C!RunBits(i)
        PROVE  IsOn(c)' /\ Spared(c)'
    BY <1>1, <1>2, <1>16, <1>17, <2>1 DEF Running
  <2> QED BY <1>18, <2>1 DEF Running, Sure, Puts
<1>20. Remembered(state, "VDC")' /\ Remembered(is_enabled, "VFE")'
  BY <1>1, <1>2 DEF Remembered, GoingOff
<1> QED BY <1>12, <1>13, <1>15, <1>19, <1>20 DEF ClkInv

LEMMA ClkReturn ==
    ASSUME ClkInv, "nobody" \notin ClockUsers, NEW t \in ClockUsers, C!Return(t)
    PROVE  ClkInv'
<1>1. /\ ClkTypes /\ OneCall /\ RailsRight /\ Running /\ Remembered(state, "VDC")
      /\ Remembered(is_enabled, "VFE")
  BY DEF ClkInv
<1>2. /\ serving[t] # C!NoCall /\ work[t] = <<>> /\ clk_mutex' = "nobody"
      /\ serving' = [serving EXCEPT ![t] = C!NoCall]
      /\ on' = CASE serving[t].op = "enable" -> on \cup {serving[t].id}
                 [] serving[t].op = "disable" -> on \ C!Sharing(serving[t].id)
                 [] OTHER -> on
      /\ UNCHANGED <<regs, work, latch, state, is_enabled>>
  BY DEF C!Return, C!Nobody
<1>3. clk_mutex = t /\ Alone(t) /\ serving[t].id \in Clocks
  BY <1>1, <1>2, Served DEF OneCall
<1>4. /\ \A u \in ClockUsers : serving'[u] = C!NoCall /\ work'[u] = <<>> /\ work[u] = <<>>
      /\ \A u \in ClockUsers \ {t} : serving[u] = C!NoCall
  BY <1>1, <1>2, <1>3 DEF ClkTypes, Alone
<1>5. C!NoCall.op = "none" /\ C!NoCall \in Calls
  BY DEF C!NoCall, Calls
<1>6. \A i : ~GoingOff(i)'
  BY <1>4, <1>5 DEF GoingOff
<1>7. \A i : GoingOff(i) <=> (serving[t].op = "disable" /\ i \in C!Sharing(serving[t].id))
  BY <1>4, <1>5 DEF GoingOff
<1>8. \A i : i \in on' <=> \/ i \in on /\ ~GoingOff(i)
                           \/ serving[t].op = "enable" /\ i = serving[t].id
  <2>1. CASE serving[t].op = "enable"
    <3>1. on' = on \cup {serving[t].id}
      BY <1>2, <2>1
    <3> QED BY <1>7, <2>1, <3>1
  <2>2. CASE serving[t].op = "disable"
    <3>1. on' = on \ C!Sharing(serving[t].id)
      BY <1>2, <2>2
    <3> QED BY <1>7, <2>2, <3>1
  <2>3. CASE serving[t].op # "enable" /\ serving[t].op # "disable"
    <3>1. on' = on
      BY <1>2, <2>3
    <3> QED BY <1>7, <2>3, <3>1
  <2> QED BY <2>1, <2>2, <2>3
<1>9. on' \subseteq Clocks
  BY <1>1, <1>3, <1>8 DEF ClkTypes
<1>10. ClkTypes'
  BY <1>1, <1>2, <1>5, <1>9 DEF ClkTypes
<1>11. OneCall'
  BY <1>1, <1>2, <1>4 DEF OneCall
<1>12. RailsRight'
  BY <1>1, <1>2, RailsStay
<1>13. ASSUME NEW i \in on', NEW c \in C!RunBits(i)
       PROVE  IsOn(c)' /\ Spared(c)'
  <2>1. Spared(c)'
    BY <1>4 DEF Spared
  <2>2. IsOn(c)
    <3>1. CASE i \in on /\ ~GoingOff(i)
      BY <1>1, <3>1 DEF Running
    <3>2. CASE serving[t].op = "enable" /\ i = serving[t].id
      BY <1>1, <1>2, <3>2 DEF Running
    <3> QED BY <1>8, <3>1, <3>2
  <2> QED BY <1>2, <2>1, <2>2 DEF IsOn
<1>14. Running'
  BY <1>4, <1>5, <1>13 DEF Running
<1>15. ASSUME NEW i, \/ i \in on /\ ~GoingOff(i)
                     \/ \E u \in ClockUsers : serving[u] = [op |-> "enable", id |-> i]
       PROVE  i \in on' /\ ~GoingOff(i)'
  <2>1. CASE i \in on /\ ~GoingOff(i)
    BY <1>6, <1>8, <2>1
  <2>2. ASSUME NEW u \in ClockUsers, serving[u] = [op |-> "enable", id |-> i]
        PROVE  i \in on' /\ ~GoingOff(i)'
    <3>1. serving[u].op = "enable" /\ serving[u].id = i
      BY <2>2
    <3>2. u = t
      BY <1>4, <1>5, <3>1
    <3> QED BY <1>6, <1>8, <3>1, <3>2
  <2> QED BY <1>15, <2>1, <2>2
<1>16. Remembered(state, "VDC")'
  BY <1>1, <1>2, <1>15 DEF Remembered
<1>17. Remembered(is_enabled, "VFE")'
  BY <1>1, <1>2, <1>15 DEF Remembered
<1> QED BY <1>10, <1>11, <1>12, <1>14, <1>16, <1>17 DEF ClkInv

LEMMA InitClk == C!ClkInit => ClkInv
<1> SUFFICES ASSUME C!ClkInit
             PROVE  ClkInv
  OBVIOUS
<1>1. PICK powered \in SUBSET C!Rails :
        regs = [g \in C!Registers |->
                  CASE \E q \in powered : g = C!GFS[q] -> {C!Powered}
                    [] g = "CLAMP" -> {C!ClampBit[q] : q \in C!Rails \ powered}
                    [] g = "AXI_RESET" -> {C!ResetBit[q] : q \in C!Rails \ powered}
                    [] \E q \in C!Rails : g = C!Port[q] ->
                         {C!PortBit[q] : q \in {k \in C!Rails \ powered : C!Port[k] = g}}
                    [] OTHER -> {}]
  BY DEF C!ClkInit
<1>2. /\ clk_mutex = "nobody" /\ work = [t \in ClockUsers |-> <<>>]
      /\ latch = [t \in ClockUsers |-> C!NotRead]
      /\ serving = [t \in ClockUsers |-> C!NoCall]
      /\ state = FALSE /\ is_enabled = FALSE /\ on = {}
  BY DEF C!ClkInit, C!Nobody
<1>3. \A q \in C!Rails : /\ C!GFS[q] \in {"GRP_GFS", "VDC_GFS", "VFE_GFS"}
                         /\ C!Port[q] \in {"AXI+0x10080", "AXI+0x20080"}
                         /\ C!GFS[q] \in C!Registers /\ C!Port[q] \in C!Registers
                         /\ C!ClampBit[q] \in C!Bits /\ C!ResetBit[q] \in C!Bits
                         /\ C!PortBit[q] \in C!Bits
  BY DEF C!Rails, C!GFS, C!Port, C!Registers, C!ClampBit, C!ResetBit, C!PortBit, C!Bits
<1>4. "CLAMP" \in C!Registers /\ "AXI_RESET" \in C!Registers /\ C!Powered \in C!Bits
  BY DEF C!Registers, C!Powered, C!Bits
<1>5. regs["CLAMP"] = {C!ClampBit[q] : q \in C!Rails \ powered}
  BY <1>1, <1>3, <1>4
<1>6. regs["AXI_RESET"] = {C!ResetBit[q] : q \in C!Rails \ powered}
  BY <1>1, <1>3, <1>4
<1>7. \A q \in powered : regs[C!GFS[q]] = {C!Powered}
  BY <1>1, <1>3
<1>8. ASSUME NEW q \in C!Rails
      PROVE  regs[C!Port[q]] = {C!PortBit[k] : k \in {j \in C!Rails \ powered : C!Port[j] = C!Port[q]}}
  <2>1. /\ ~\E k \in powered : C!Port[q] = C!GFS[k]
        /\ C!Port[q] # "CLAMP" /\ C!Port[q] # "AXI_RESET"
    BY <1>3
  <2> QED BY <1>1, <1>3, <2>1
<1>9. regs \in [C!Registers -> SUBSET C!Bits]
  <2>1. ASSUME NEW g \in C!Registers
        PROVE  regs[g] \in SUBSET C!Bits
    <3>1. CASE \E q \in powered : g = C!GFS[q]
      BY <1>4, <1>7, <3>1
    <3>2. CASE g = "CLAMP"
      BY <1>3, <1>5, <3>2
    <3>3. CASE g = "AXI_RESET"
      BY <1>3, <1>6, <3>3
    <3>4. CASE \E q \in C!Rails : g = C!Port[q]
      BY <1>3, <1>8, <3>4
    <3>5. CASE /\ ~\E q \in powered : g = C!GFS[q]
               /\ g # "CLAMP" /\ g # "AXI_RESET"
               /\ ~\E q \in C!Rails : g = C!Port[q]
      <4>1. regs[g] = {}
        BY <1>1, <3>5
      <4> QED BY <4>1
    <3> QED BY <3>1, <3>2, <3>3, <3>4, <3>5
  <2> QED BY <1>1, <2>1
<1>10. ClkTypes
  <2>1. C!NoCall \in Calls
    BY DEF C!NoCall, Calls
  <2>2. C!NotRead \in SUBSET (0 .. 32)
    BY DEF C!NotRead
  <2>3. <<>> \in Seq(Writes)
    OBVIOUS
  <2>4. state \in BOOLEAN /\ is_enabled \in BOOLEAN
    BY <1>2
  <2> QED BY <1>2, <1>9, <2>1, <2>2, <2>3, <2>4 DEF ClkTypes
<1>11. OneCall
  <2> SUFFICES ASSUME NEW t \in ClockUsers, clk_mutex = t
               PROVE  serving[t].op # "none" /\ serving[t].id \in Clocks
    BY <1>2 DEF OneCall
  <2> QED BY <1>2, DriversAssumption
<1>12. RailsRight
  <2> SUFFICES ASSUME NEW r \in C!Rails
               PROVE  /\ IsOn(Clamp(r)) => IsOn(InReset(r)) /\ IsOn(PortOff(r))
                      /\ ~IsOn(Clamp(r)) => IsOn(PowerOn(r))
                      /\ \A t \in ClockUsers : InOrder(work[t], r)
    BY DEF RailsRight
  <2>1. IsOn(Clamp(r)) <=> r \notin powered
    BY <1>5 DEF IsOn, Clamp, C!Rails, C!ClampBit
  <2>2. r \notin powered => IsOn(InReset(r))
    BY <1>6 DEF IsOn, InReset
  <2>3. r \notin powered => IsOn(PortOff(r))
    BY <1>8 DEF IsOn, PortOff
  <2>4. r \in powered => IsOn(PowerOn(r))
    BY <1>7 DEF IsOn, PowerOn
  <2>5. \A t \in ClockUsers : InOrder(work[t], r)
    BY <1>2, NothingLeft
  <2> QED BY <2>1, <2>2, <2>3, <2>4, <2>5
<1>13. Running
  BY <1>2 DEF Running, C!NoCall
<1>14. Remembered(state, "VDC") /\ Remembered(is_enabled, "VFE")
  BY <1>2 DEF Remembered
<1> QED BY <1>10, <1>11, <1>12, <1>13, <1>14 DEF ClkInv

LEMMA SparesAreWrites ==
    ASSUME NEW S, NEW s \in Seq(Spares(S))
    PROVE  s \in Seq(Writes)
BY DEF Spares

LEMMA NextClk ==
    ASSUME ClkInv, C!ClkNext
    PROVE  ClkInv'
<1>1. "nobody" \notin ClockUsers
  BY DriversAssumption
<1>2. state \in BOOLEAN /\ is_enabled \in BOOLEAN
  BY DEF ClkInv, ClkTypes
<1>3. PICK t \in ClockUsers :
        \/ \E id \in Clocks : C!clk_enable(t, id) \/ C!clk_disable(t, id)
        \/ \E id \in Clocks, found \in BOOLEAN : C!clk_set_rate(t, id, found)
        \/ C!readl(t) \/ C!writel(t) \/ C!Return(t)
  BY DEF C!ClkNext
<1>4. ASSUME NEW id \in Clocks, C!clk_enable(t, id)
      PROVE  ClkInv'
  <2>1. /\ C!msm_clk_enable(id) \in Seq(Spares({})) /\ C!msm_clk_enable(id) \in Seq(Writes)
        /\ \A r \in C!Rails : InOrder(C!msm_clk_enable(id), r)
        /\ \/ id = "VDC" /\ state
           \/ id = "VFE" /\ is_enabled
           \/ \A c \in C!RunBits(id) : SurePut(C!msm_clk_enable(id), c)
    BY <1>2, EnableInOrder, SparesAreWrites
  <2>2. C!Call(t, "enable", id, C!msm_clk_enable(id))
    BY <1>4 DEF C!clk_enable
  <2> QED BY <1>1, <2>1, <2>2, ClkCall
<1>5. ASSUME NEW id \in Clocks, C!clk_disable(t, id)
      PROVE  ClkInv'
  <2>1. /\ C!msm_clk_disable(id) \in Seq(Spares(C!Sharing(id)))
        /\ C!msm_clk_disable(id) \in Seq(Writes)
        /\ \A r \in C!Rails : InOrder(C!msm_clk_disable(id), r)
    BY <1>2, DisableInOrder, SparesAreWrites
  <2>2. C!Call(t, "disable", id, C!msm_clk_disable(id))
    BY <1>5 DEF C!clk_disable
  <2> QED BY <1>1, <2>1, <2>2, ClkCall
<1>6. ASSUME NEW id \in Clocks, NEW found \in BOOLEAN, C!clk_set_rate(t, id, found)
      PROVE  ClkInv'
  <2>1. /\ C!msm_clk_set_freq(id, found) \in Seq(Spares({}))
        /\ C!msm_clk_set_freq(id, found) \in Seq(Writes)
        /\ \A r \in C!Rails : InOrder(C!msm_clk_set_freq(id, found), r)
    BY RateInOrder, SparesAreWrites
  <2>2. C!Call(t, "rate", id, C!msm_clk_set_freq(id, found))
    BY <1>6 DEF C!clk_set_rate
  <2> QED BY <1>1, <2>1, <2>2, ClkCall
<1> QED BY <1>1, <1>3, <1>4, <1>5, <1>6, ClkRead, ClkWrite, ClkReturn

LEMMA ClkStays ==
    ASSUME ClkInv, UNCHANGED clock
    PROVE  ClkInv'
<1>1. /\ ClkTypes /\ OneCall /\ RailsRight /\ Running /\ Remembered(state, "VDC")
      /\ Remembered(is_enabled, "VFE")
  BY DEF ClkInv
<1>2. UNCHANGED <<regs, clk_mutex, work, latch, serving, state, is_enabled, on>>
  BY DEF clock
<1>3. ClkTypes' /\ OneCall'
  BY <1>1, <1>2 DEF ClkTypes, OneCall
<1>4. RailsRight'
  BY <1>1, <1>2, RailsStay
<1>5. Running'
  BY <1>1, <1>2, RunningStays
<1>6. Remembered(state, "VDC")' /\ Remembered(is_enabled, "VFE")'
  BY <1>1, <1>2 DEF Remembered, GoingOff
<1> QED BY <1>1, <1>3, <1>4, <1>5, <1>6 DEF ClkInv

\* What a reader of the registers sees of it.
LEMMA ClkTellsOrder == ClkInv => ClocksInOrder
<1> SUFFICES ASSUME ClkInv
             PROVE  ClocksInOrder
  OBVIOUS
<1>1. OneCall /\ RailsRight /\ Running
  BY DEF ClkInv
<1>2. C!RailsInOrder
  BY <1>1 DEF RailsRight, C!RailsInOrder, IsOn, Clamp, InReset, PortOff, PowerOn
<1>3. C!EnabledRuns
  <2> SUFFICES ASSUME clk_mutex = "nobody", NEW id \in on, NEW b \in C!RunBits(id)
               PROVE  b[2] \in regs[b[1]]
    BY DEF C!EnabledRuns, C!Nobody
  <2>1. \A t \in ClockUsers : serving[t] = C!NoCall
    BY <1>1, DriversAssumption DEF OneCall
  <2>2. ~GoingOff(id)
    BY <2>1 DEF GoingOff, C!NoCall
  <2> QED BY <1>1, <2>2 DEF Running, IsOn
<1> QED BY <1>2, <1>3 DEF ClocksInOrder

-----------------------------------------------------------------------------
(* The platform                                                            *)

LEMMA ClockMoves == [PlatformNext]_allvars => [C!ClkNext]_clock
<1>1. CASE UNCHANGED allvars
  BY <1>1 DEF allvars, clock
<1>2. CASE Only("clock") /\ C!ClkNext
  BY <1>2
<1>3. CASE \E m \in Machines \ {"clock"} : Only(m)
  BY <1>3 DEF Only, Still
<1> QED BY <1>1, <1>2, <1>3 DEF PlatformNext, Machines

LEMMA NextClkInv == ClkInv /\ [PlatformNext]_allvars => ClkInv'
BY ClockMoves, NextClk, ClkStays

\* clock.c: for any threads and clocks that share a chip, between any two register
\* accesses, no rail drives the chip without power, none is out of reset or reachable
\* on the bus while it is clamped, and whenever the mutex is free every clock that was
\* enabled runs.
THEOREM ClocksStayInOrder == PlatformSpec => []ClocksInOrder
<1>1. PlatformInit => ClkInv
  BY InitClk DEF PlatformInit
<1> QED BY <1>1, NextClkInv, ClkTellsOrder, PTL DEF PlatformSpec

=============================================================================
