------------------------------- MODULE Clock -------------------------------
(***************************************************************************)
(* The clock driver of the MSM7200A (src/platform/msm7200a/clock.c): every  *)
(* call reads registers, changes some of their bits and writes them back,   *)
(* one register after the other, with clk_mutex held.  A register is the    *)
(* set of its bits that are 1; those that hold a rate are left out.  What a *)
(* call does is a sequence of read-modify-writes; its waits, for 20 ms or   *)
(* for at most 100 polls, end whatever the hardware does and change nothing.*)
(***************************************************************************)
EXTENDS Integers, Sequences, FiniteSets, SequencesExt

CONSTANTS
    Threads,      \* the threads that call the driver
    Clocks,       \* the clocks they call it for
    Rated         \* those of them whose rate they set

VARIABLES
    regs,         \* the registers
    clk_mutex,    \* its holder
    work,         \* per thread: the writes its call still has to do
    latch,        \* per thread: the value read, or what says there is none
    serving,      \* per thread: the call
    state,        \* set_vdc_rail's
    is_enabled,   \* set_vfe_rail's
    on            \* the clocks that were enabled, and since then neither
                  \* disabled nor taken away with one that shares its bits

clkvars == <<regs, clk_mutex, work, latch, serving, state, is_enabled, on>>

Nobody == "nobody"
NotRead == {32}     \* no value of a register
NoCall == [op |-> "none", id |-> "none"]

-----------------------------------------------------------------------------
(* The parameters of the clocks, and the registers.                         *)

offset == [ADSP |-> "0x34", GP |-> "0x5c", I2C |-> "0x68", MDC |-> "0x7c", MDP |-> "0x8c",
           PMDH |-> "0x8c", SDAC |-> "0x9c", SDC1 |-> "0xa4", SDC2 |-> "0xac", SDC3 |-> "0xb4",
           SDC4 |-> "0xbc", UART1 |-> "0xe0", UART2 |-> "0xe0", UART3 |-> "0xe0",
           UART1DM |-> "0xd4", UART2DM |-> "0xdc", USB_HS |-> "0x2c0", VFE |-> "0x44",
           VFE_MDC |-> "0x44", VDC |-> "0xf0"]

idx == [GRP |-> 3, IMEM |-> 3, SDC1_PCLK |-> 7, SDC2_PCLK |-> 8, SDC3_PCLK |-> 27,
        SDC4_PCLK |-> 28, UART1DM |-> 17, UART2DM |-> 26, USB_HS_PCLK |-> 25]

setup_mdns == {"I2C", "SDC1", "SDC2", "SDC3", "SDC4", "UART1DM", "UART2DM", "VFE"}

Rails == {"GRP", "VDC", "VFE"}
GFS == [GRP |-> "GRP_GFS", VDC |-> "VDC_GFS", VFE |-> "VFE_GFS"]
Powered == 8
ClampBit == [GRP |-> 2, VDC |-> 1, VFE |-> 3]
ResetBit == [GRP |-> 5, VDC |-> 1, VFE |-> 0]
Port == [GRP |-> "AXI+0x10080", VDC |-> "AXI+0x10080", VFE |-> "AXI+0x20080"]
PortBit == [GRP |-> 0, VDC |-> 2, VFE |-> 0]

Registers == {offset[c] : c \in DOMAIN offset} \cup {GFS[r] : r \in Rails}
             \cup {Port[r] : r \in Rails}
             \cup {"CTL", "GRP_NS", "AXI_RESET", "ROW_RESET", "APPS_RESET", "CLAMP", "AXI+0xf0"}

-----------------------------------------------------------------------------
(* One write: of the value read, the bits in clear go and those in set come, *)
(* if one of the bits in when is set and none of those in unless.           *)

Bits == 0 .. 31
W(reg, clear, set) == [reg |-> reg, clear |-> clear, set |-> set, when |-> Bits, unless |-> {}]
REG_OR(reg, set) == W(reg, {}, set)
REG_AND(reg, clear) == W(reg, clear, {})
REG_SET(reg, set) == W(reg, Bits, set)
REG_ANDM_OR(reg, set) == W(reg, {}, set)      \* the bits it masks out are not used
KeepOr(reg, keep, set) == W(reg, Bits \ keep, set)

New(w, value) == IF (w.when = Bits \/ value \cap w.when # {}) /\ value \cap w.unless = {}
                 THEN (value \ w.clear) \cup w.set ELSE value

ForEach(bits, Do(_)) == [i \in DOMAIN bits |-> Do({bits[i]})]

\* Fault: the power goes before the outputs are clamped.
set_grp_rail_PowerFirst(enable) ==
    <<REG_OR(Port["GRP"], {0}), REG_OR("AXI_RESET", {5}), REG_OR("ROW_RESET", {17}),
      REG_SET(GFS["GRP"], {}), REG_OR("CLAMP", {2})>>

set_grp_rail(enable) ==
    LET clocks(Do(_)) == ForEach(<<11, 7, 9>>, Do) IN
    IF enable
    THEN <<REG_OR("AXI_RESET", {5}), REG_OR("ROW_RESET", {17}), REG_SET(GFS["GRP"], {Powered})>>
         \o clocks(LAMBDA b : REG_OR("GRP_NS", b))
         \o <<REG_OR("CTL", {3}), REG_AND("CLAMP", {2}), REG_AND(Port["GRP"], {0}),
              REG_AND("AXI_RESET", {5}), REG_AND("ROW_RESET", {17})>>
    ELSE clocks(LAMBDA b : REG_OR("GRP_NS", b))
         \o <<REG_OR("CTL", {3}), REG_OR(Port["GRP"], {0}),
              REG_OR("AXI_RESET", {5}), REG_OR("ROW_RESET", {17})>>
         \o clocks(LAMBDA b : REG_AND("GRP_NS", b))
         \o <<REG_OR("CLAMP", {2}), REG_SET(GFS["GRP"], {})>>

\* Going off, the clock's bits are cleared in another register than they are set in.
set_vdc_rail(enable) ==
    LET clocks == <<REG_OR("0xf0", {11}), [REG_OR("0xf0", {8}) EXCEPT !.when = {5, 6}],
                    REG_OR("0xf0", {9})>> IN
    IF state = enable THEN <<>>
    ELSE IF enable
    THEN clocks
         \o <<REG_ANDM_OR("0x34", {20}), REG_OR("CTL", {3}), REG_ANDM_OR("AXI_RESET", {1}),
              REG_ANDM_OR("ROW_RESET", {0}), REG_ANDM_OR("APPS_RESET", {7}),
              REG_SET(GFS["VDC"], {Powered}), REG_AND("CLAMP", {1}), REG_AND(Port["VDC"], {2}),
              REG_AND("AXI_RESET", {1}), REG_AND("ROW_RESET", {0}), REG_AND("APPS_RESET", {7})>>
    ELSE clocks
         \o <<REG_OR("CTL", {3}), REG_OR(Port["VDC"], {2}), REG_OR("AXI_RESET", {1}),
              REG_OR("ROW_RESET", {0})>>
         \o ForEach(<<9, 8, 11>>, LAMBDA b : REG_AND("AXI+0xf0", b))
         \o <<REG_OR("CLAMP", {1}), REG_SET(GFS["VDC"], {})>>

\* REG_AND(reg, 1 << n) clears the bits up to n: its macro puts no brackets
\* around the mask it complements.
set_vfe_rail(enable) ==
    LET clocks == ForEach(<<9, 13, 11>>, LAMBDA b : REG_OR("0x44", b))
                  \o <<REG_AND("0x44", {1, 2})>> IN
    IF is_enabled = enable THEN <<>>
    ELSE IF enable
    THEN <<REG_ANDM_OR("AXI_RESET", {0}), REG_ANDM_OR("APPS_RESET", {0}),
           REG_SET(GFS["VFE"], {Powered})>>
         \o clocks
         \o <<REG_AND("CLAMP", {3}), REG_AND(Port["VFE"], {0}), REG_AND("AXI_RESET", {0}),
              REG_AND("APPS_RESET", {0})>>
    ELSE <<REG_ANDM_OR("CTL", {2})>> \o clocks
         \o <<REG_OR(Port["VFE"], {0}), REG_ANDM_OR("AXI_RESET", {0}),
              REG_ANDM_OR("APPS_RESET", {0}), REG_OR("0x44", {1, 2}), REG_AND("0x44", 0 .. 11),
              REG_AND("0x44", 0 .. 13), REG_AND("0x44", 0 .. 9), REG_ANDM_OR("CLAMP", {3}),
              REG_SET(GFS["VFE"], {})>>

-----------------------------------------------------------------------------
(* What a call does for each clock.                                         *)

Gated == {"SDAC", "SDC1", "SDC2", "SDC3", "SDC4", "USB_HS"}
UARTs == {"UART1", "UART2", "UART3"}
UartBits == [UART1 |-> <<4, 5>>, UART2 |-> <<10, 11>>, UART3 |-> <<16, 17>>]

EnableBit(id) == IF id \in DOMAIN idx THEN <<REG_OR("CTL", {idx[id]})>> ELSE <<>>

msm_clk_enable(id) ==
    (CASE id = "MDP" -> <<REG_OR("CTL", {9})>>
       [] id = "PMDH" -> <<KeepOr(offset[id], (0 .. 6) \cup {9, 10}, {11}),
                           KeepOr(offset[id], (0 .. 6) \cup {10, 11}, {9})>>
       [] id = "I2C" -> <<KeepOr(offset[id], {9, 10}, {11}), KeepOr(offset[id], {10, 11}, {9})>>
       [] id = "ADSP" -> <<REG_OR(offset[id], {11}), REG_OR(offset[id], {20})>>
       [] id \in UARTs -> ForEach(UartBits[id], LAMBDA b : REG_OR(offset[id], b))
       [] id \in Gated -> ForEach(<<11, 8, 9>>, LAMBDA b : REG_OR(offset[id], b))
       [] id \in {"IMEM", "GRP"} -> set_grp_rail(TRUE)
       [] id = "MDC" -> ForEach(<<11, 9>>, LAMBDA b : REG_OR(offset[id], b))
       [] id = "VFE" -> set_vfe_rail(TRUE)
       [] id = "VDC" -> set_vdc_rail(TRUE)
       [] OTHER -> <<>>)
    \o EnableBit(id)

\* A clock that has only a bit in the first register is not disabled.
msm_clk_disable(id) ==
    CASE id = "MDP" -> <<REG_AND("CTL", {9})>>
      [] id \in UARTs -> ForEach(Reverse(UartBits[id]), LAMBDA b : REG_AND(offset[id], b))
      [] id \in Gated -> ForEach(<<9, 11, 8>>, LAMBDA b : REG_AND(offset[id], b))
      [] id = "I2C" -> <<KeepOr(offset[id], {10, 11}, {}), KeepOr(offset[id], {9, 10}, {})>>
      [] id = "ADSP" -> <<REG_AND(offset[id], {20}),
                          [REG_AND(offset[id], {11}) EXCEPT !.unless = {7, 9}]>>
      [] id = "PMDH" -> <<KeepOr(offset[id], (0 .. 6) \cup {10, 11}, {}),
                          KeepOr(offset[id], (0 .. 6) \cup {9, 10}, {})>>
      [] id \in {"IMEM", "GRP"} -> set_grp_rail(FALSE) \o <<REG_AND("CTL", {idx[id]})>>
      [] id = "MDC" -> ForEach(<<9, 11>>, LAMBDA b : REG_AND(offset[id], b))
      [] id = "VFE" -> set_vfe_rail(FALSE)
      [] id = "VDC" -> set_vdc_rail(FALSE)
      [] OTHER -> <<>>

\* The seven bits of the rate change; which PLL and divider is chosen depends
\* on what stands before the table of rates, pll_freqs[TCXO] being its element -1.
msm_set_rate_simple_div_pll(id) == <<REG_OR(offset[id], {})>>

\* A rate the table has: with it come the bits that let the clock run.  A rate
\* below all of the table changes nothing.
FromTable(id, found) ==
    IF ~found THEN <<>>
    ELSE IF id = "VFE" THEN <<KeepOr(offset[id], {1, 2, 9, 11, 13, 14}, {8})>>
    ELSE <<REG_SET(offset[id], {8, 9, 11})>>

msm_clk_is_enabled(id) == id \in DOMAIN idx /\ idx[id] \in regs["CTL"]

msm_clk_set_freq(id, found) ==
    LET set == CASE id \in {"MDP", "PMDH", "ADSP", "GP"} -> msm_set_rate_simple_div_pll(id)
                 [] id \in setup_mdns -> FromTable(id, found)
                 [] OTHER -> <<>> IN
    IF id \notin DOMAIN offset THEN <<>>
    ELSE IF msm_clk_is_enabled(id) THEN msm_clk_disable(id) \o set \o msm_clk_enable(id)
    ELSE set

-----------------------------------------------------------------------------
\* The rails are as the system that ran before left them.
ClkInit ==
    /\ \E live \in SUBSET Rails :
         LET off(bit) == {bit[r] : r \in Rails \ live} IN
         regs = [r \in Registers |->
                   CASE \E x \in live : r = GFS[x] -> {Powered}
                     [] r = "CLAMP" -> off(ClampBit)
                     [] r = "AXI_RESET" -> off(ResetBit)
                     [] \E x \in Rails : r = Port[x] ->
                          {PortBit[x] : x \in {y \in Rails \ live : Port[y] = r}}
                     [] OTHER -> {}]
    /\ clk_mutex = Nobody
    /\ work = [t \in Threads |-> <<>>]
    /\ latch = [t \in Threads |-> NotRead]
    /\ serving = [t \in Threads |-> NoCall]
    /\ state = FALSE /\ is_enabled = FALSE /\ on = {}

\* Fault: the driver does without its mutex.
Free_Always == TRUE
Free == clk_mutex = Nobody

Call(t, op, id, writes) ==
    /\ serving[t] = NoCall /\ Free
    /\ clk_mutex' = t
    /\ serving' = [serving EXCEPT ![t] = [op |-> op, id |-> id]]
    /\ work' = [work EXCEPT ![t] = writes]
    /\ state' = IF id = "VDC" /\ op # "rate" THEN op = "enable" ELSE state
    /\ is_enabled' = IF id = "VFE" /\ op # "rate" THEN op = "enable" ELSE is_enabled
    /\ UNCHANGED <<regs, latch, on>>

clk_enable(t, id) == Call(t, "enable", id, msm_clk_enable(id))
clk_disable(t, id) == Call(t, "disable", id, msm_clk_disable(id))
clk_set_rate(t, id, found) == id \in Rated /\ Call(t, "rate", id, msm_clk_set_freq(id, found))

readl(t) ==
    /\ work[t] # <<>> /\ latch[t] = NotRead
    /\ latch' = [latch EXCEPT ![t] = regs[Head(work[t]).reg]]
    /\ UNCHANGED <<regs, clk_mutex, work, serving, state, is_enabled, on>>

writel(t) ==
    /\ work[t] # <<>> /\ latch[t] # NotRead
    /\ regs' = [regs EXCEPT ![Head(work[t]).reg] = New(Head(work[t]), latch[t])]
    /\ latch' = [latch EXCEPT ![t] = NotRead]
    /\ work' = [work EXCEPT ![t] = Tail(@)]
    /\ UNCHANGED <<clk_mutex, serving, state, is_enabled, on>>

Sharing(id) == IF id \in {"GRP", "IMEM"} THEN {"GRP", "IMEM"} ELSE {id}

Return(t) ==
    /\ serving[t] # NoCall /\ work[t] = <<>>
    /\ clk_mutex' = Nobody
    /\ serving' = [serving EXCEPT ![t] = NoCall]
    /\ on' = CASE serving[t].op = "enable" -> on \cup {serving[t].id}
               [] serving[t].op = "disable" -> on \ Sharing(serving[t].id)
               [] OTHER -> on
    /\ UNCHANGED <<regs, work, latch, state, is_enabled>>

ClkNext == \E t \in Threads :
             \/ \E id \in Clocks : clk_enable(t, id) \/ clk_disable(t, id)
             \/ \E id \in Clocks, found \in BOOLEAN : clk_set_rate(t, id, found)
             \/ readl(t) \/ writel(t) \/ Return(t)

ClkSpec == ClkInit /\ [][ClkNext]_clkvars

-----------------------------------------------------------------------------
\* Outputs that are not clamped come from a rail that has power, and a block
\* that is out of reset or reachable on the bus is not clamped: whatever calls
\* for the three rails follow one another, the writes of clock.c come in an
\* order that never lets a block without power drive the chip.
RailsInOrder ==
    \A r \in Rails :
        LET clamped == ClampBit[r] \in regs["CLAMP"] IN
        /\ ~clamped => Powered \in regs[GFS[r]]
        /\ ResetBit[r] \notin regs["AXI_RESET"] => ~clamped
        /\ PortBit[r] \notin regs[Port[r]] => ~clamped

\* The bits that let a clock run.
RunBits(id) ==
    CASE id = "MDP" -> {<<"CTL", 9>>}
      [] id \in {"PMDH", "I2C", "MDC"} -> {<<offset[id], 9>>, <<offset[id], 11>>}
      [] id = "ADSP" -> {<<offset[id], 11>>, <<offset[id], 20>>}
      [] id \in UARTs -> {<<offset[id], b>> : b \in ToSet(UartBits[id])}
      [] id \in Gated -> {<<offset[id], b>> : b \in {8, 9, 11}}
      [] id \in {"IMEM", "GRP"} -> {<<"CTL", 3>>} \cup {<<"GRP_NS", b>> : b \in {7, 9, 11}}
      [] id = "VFE" -> {<<offset[id], b>> : b \in {9, 11, 13}}
      [] id = "VDC" -> {<<offset[id], 9>>, <<offset[id], 11>>}
      [] id \in DOMAIN idx \ {"IMEM", "GRP"} -> {<<"CTL", idx[id]>>}
      [] OTHER -> {}

\* Between two calls, every clock that was enabled runs: no call for another
\* clock, though it writes the same registers, takes it away.  clk_mutex is what
\* keeps two threads from writing back each other's old values.
EnabledRuns == clk_mutex = Nobody => \A id \in on : \A b \in RunBits(id) : b[2] \in regs[b[1]]

=============================================================================
