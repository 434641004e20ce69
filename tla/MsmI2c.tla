-------------------------------- MODULE MsmI2c --------------------------------
(***************************************************************************)
(* The I2C driver of the msm7200a, src/platform/msm_shared/msm_i2c.c: the   *)
(* caller sets a transfer up and polls the bus, the interrupt handler moves *)
(* the bytes, and the controller shifts them meanwhile, one ahead.  Devices *)
(* refuse bytes, hold the clock and go on when nobody expects it any more.  *)
(***************************************************************************)
EXTENDS Integers, Sequences

CONSTANTS
    Lengths,       \* the counts given to msm_i2c_read and msm_i2c_write
    Retries,       \* MSM_I2C_READ_RETRY_TIMES, MSM_I2C_WRITE_RETRY_TIMES
    MaxTrouble     \* bound: refused bytes, ignored stops, held clocks

VARIABLES
    caller,     \* where msm_i2c_xfer is, the tries left and its results
    dev,        \* the driver's struct msm_i2c_dev; msg is 0 for NULL
    sent, got,  \* the bytes the device took, and those in the caller's buffer
    reg,        \* WRITE_DATA: "empty" or what waits there to be shifted
    bus,        \* "idle", "tx" or "rx"
    rd,         \* READ_DATA: the number of the byte in it, 0 for none
    shifted,    \* the bytes the device sent since it was addressed
    error, irq, \* error bits of the status; the interrupt line
    held,       \* the device holds the clock
    trouble

i2cvars == <<caller, dev, sent, got, reg, bus, rd, shifted, error, irq, held, trouble>>
hardware == <<reg, bus, rd, shifted, error, irq, held>>

\* A read first writes the number of the register.
Message(rdflag, len) == [rd |-> rdflag, len |-> len]
Write(n) == <<Message(FALSE, n)>>
Read(n) == <<Message(FALSE, 1), Message(TRUE, n)>>

Byte(kind, last) == [kind |-> kind, last |-> last]
Empty == Byte("empty", FALSE)
msg(d) == caller.msgs[d.msg]
I2cAt(p) == caller.pc = p
Mine == ~(irq /\ dev.unmasked)     \* a raised interrupt comes first

-----------------------------------------------------------------------------
(* The interrupt handler.                                                   *)

\* What msm_i2c_fill_write_buffer writes, or Empty for nothing.
Filling ==
    IF dev.pos < 0
    THEN Byte(IF msg(dev).rd THEN "read" ELSE "write", dev.rem = 1 /\ msg(dev).len = 0)
    ELSE IF msg(dev).rd \/ dev.cnt = 0 THEN Empty
    ELSE Byte("data", dev.cnt = 1 /\ dev.rem = 1)

Filled == IF dev.pos < 0 THEN [dev EXCEPT !.pos = 0]
          ELSE IF Filling = Empty THEN dev
          ELSE [dev EXCEPT !.pos = @ + 1, !.cnt = @ - 1]

\* The controller is one byte ahead: the stop is asked for while the last byte
\* but one is fetched, and of a single byte one too many is shifted.
StopWanted(d) == d.cnt = 2 \/ (d.cnt = 1 /\ d.pos = 0)

Expected(d) == msg(d).rd /\ d.pos >= 0 /\ d.cnt > 0

Fetched(d) ==
    IF Expected(d)
    THEN [d EXCEPT !.cnt = @ - 1, !.pos = @ + 1,
                   !.need_flush = @ \/ (d.cnt = 1 /\ d.pos = 0)]
    ELSE IF d.need_flush THEN [d EXCEPT !.need_flush = FALSE]
    ELSE [d EXCEPT !.flush_cnt = @ + 1]

\* Fault: the next message starts where this one ended.
NextMessage_Continued(d) ==
    IF d.pos >= 0 /\ d.cnt = 0 /\ d.rem > 1
    THEN [d EXCEPT !.rem = @ - 1, !.msg = @ + 1, !.cnt = caller.msgs[d.msg + 1].len]
    ELSE d

NextMessage(d) ==
    IF d.pos >= 0 /\ d.cnt = 0 /\ d.rem > 1
    THEN [d EXCEPT !.rem = @ - 1, !.msg = @ + 1, !.pos = -1,
                   !.cnt = caller.msgs[d.msg + 1].len]
    ELSE d

\* A write to a register that is not empty is an error of its own.
PutTwice == /\ reg' = Empty /\ error' = TRUE /\ irq' = TRUE

\* A transfer starts with an address: anything else is lost on an idle bus.
Put(b) ==
    IF b = Empty \/ (bus = "idle" /\ b.kind \notin {"read", "write"})
    THEN UNCHANGED <<reg, bus, shifted, error>> /\ irq' = FALSE
    ELSE IF reg # Empty THEN PutTwice /\ UNCHANGED <<bus, shifted>>
    ELSE /\ reg' = b /\ irq' = FALSE
         \* the bus is active from the address on
         /\ bus' = IF b.kind \in {"read", "write"} /\ bus = "idle" THEN "tx" ELSE bus
         /\ UNCHANGED <<shifted, error>>

\* With the message NULL the handler leaves everything as it is.
interrupt_locked ==
    IF dev.msg = 0 THEN irq' = FALSE /\ UNCHANGED <<dev, got, reg, bus, rd, shifted, error>>
    ELSE IF error THEN /\ dev' = [dev EXCEPT !.ret = -1]
                       /\ irq' = FALSE /\ error' = FALSE
                       /\ UNCHANGED <<got, reg, bus, rd, shifted>>
    ELSE LET d == IF reg = Empty THEN Filled ELSE dev
             fill == IF reg = Empty THEN Filling ELSE Empty
             stop == \/ Expected(d) /\ StopWanted(d)
                     \/ ~Expected(d) /\ d.flush_cnt % 2 = 1
         IN /\ dev' = NextMessage(IF rd > 0 THEN Fetched(d) ELSE d)
            /\ got' = IF rd > 0 /\ Expected(d) THEN Append(got, rd) ELSE got
            /\ rd' = 0
            /\ IF rd > 0 /\ stop
               THEN IF fill # Empty THEN PutTwice /\ UNCHANGED <<bus, shifted>>
                    ELSE Put(Byte("stop", TRUE))
               ELSE Put(fill)

msm_i2c_isr ==
    /\ irq /\ dev.unmasked
    /\ interrupt_locked
    /\ UNCHANGED <<caller, sent, held, trouble>>

-----------------------------------------------------------------------------
(* The controller and the device.                                           *)

Release == bus' = "idle" /\ irq' = TRUE /\ reg' = Empty

shift_out ==
    /\ ~held /\ bus # "idle" /\ reg # Empty /\ reg.kind # "stop"
    /\ \/ /\ sent' = IF reg.kind = "data" THEN sent + 1 ELSE sent
          /\ shifted' = IF reg.kind = "read" THEN 0 ELSE shifted
          /\ IF reg.last THEN Release
             ELSE /\ bus' = IF reg.kind = "read" THEN "rx" ELSE "tx"
                  /\ reg' = Empty /\ irq' = TRUE
          /\ UNCHANGED <<error, trouble>>
       \/ \* refused by the device
          /\ trouble < MaxTrouble /\ trouble' = trouble + 1
          /\ error' = TRUE /\ Release
          /\ UNCHANGED <<sent, shifted>>
    /\ UNCHANGED <<caller, dev, got, rd, held>>

\* A stop that is asked for in time ends the transfer behind this byte, but
\* "stop requests are sometimes ignored".
shift_in ==
    /\ ~held /\ bus = "rx" /\ rd = 0
    /\ rd' = shifted + 1 /\ shifted' = shifted + 1
    /\ \/ reg # Empty /\ Release /\ UNCHANGED trouble
       \/ reg = Empty /\ irq' = TRUE /\ UNCHANGED <<reg, bus, trouble>>
       \/ /\ reg # Empty /\ trouble < MaxTrouble /\ trouble' = trouble + 1
          /\ reg' = Empty /\ irq' = TRUE /\ UNCHANGED bus
    /\ UNCHANGED <<caller, dev, sent, got, error, held>>

hold == /\ ~held /\ bus # "idle" /\ trouble < MaxTrouble
        /\ held' = TRUE /\ trouble' = trouble + 1
        /\ UNCHANGED <<caller, dev, sent, got, reg, bus, rd, shifted, error, irq>>

let_go == /\ held /\ held' = FALSE
          /\ UNCHANGED <<caller, dev, sent, got, reg, bus, rd, shifted, error, irq, trouble>>

-----------------------------------------------------------------------------
(* msm_i2c_read, msm_i2c_write and msm_i2c_xfer.                            *)

msm_i2c_call(m) ==
    /\ I2cAt("out") /\ caller.calls > 0
    /\ caller' = [caller EXCEPT !.pc = "notbusy", !.msgs = m, !.tries = Retries + 1,
                                !.calls = @ - 1]
    /\ dev' = [dev EXCEPT !.unmasked = TRUE]
    /\ UNCHANGED <<sent, got, hardware, trouble>>

\* Polled for a second: the transfer before timed out, and nobody goes on with it.
notbusy ==
    /\ I2cAt("notbusy") /\ Mine
    /\ \/ bus = "idle" /\ caller' = [caller EXCEPT !.pc = "setup"]
       \/ bus # "idle" /\ caller' = [caller EXCEPT !.pc = "recover"]
    /\ UNCHANGED <<dev, sent, got, hardware, trouble>>

\* The bus is clocked by hand until the device lets the data line go, if it does.
Recovered ==
    IF bus = "idle" /\ reg = Empty
    THEN UNCHANGED <<reg, bus, rd, error, irq>>
    ELSE /\ rd' = 0 /\ UNCHANGED <<error, irq>>
         /\ \/ reg' = Empty /\ bus' = "idle"
            \/ held /\ UNCHANGED <<reg, bus>>

recover ==
    /\ I2cAt("recover") /\ Mine
    /\ Recovered
    /\ caller' = [caller EXCEPT !.pc = IF bus' = "idle" THEN "setup" ELSE "leave", !.rc = -1]
    /\ UNCHANGED <<dev, sent, got, shifted, held, trouble>>

\* The transfer is set up, and its first byte written, with interrupts off.
\* The bytes are counted from here.
setup ==
    /\ I2cAt("setup") /\ Mine
    /\ dev' = [dev EXCEPT !.msg = 1, !.rem = Len(caller.msgs), !.pos = -1,
                          !.ret = Len(caller.msgs), !.need_flush = FALSE, !.flush_cnt = 0,
                          !.cnt = caller.msgs[1].len]
    /\ sent' = 0 /\ got' = <<>>
    /\ caller' = [caller EXCEPT !.pc = "first"]
    /\ UNCHANGED <<hardware, trouble>>

first ==
    /\ I2cAt("first")
    /\ interrupt_locked
    /\ caller' = [caller EXCEPT !.pc = "poll"]
    /\ UNCHANGED <<sent, held, trouble>>

\* Fault: the driver does not wait for the bus.
poll_Hasty ==
    /\ I2cAt("poll") /\ Mine
    /\ caller' = [caller EXCEPT !.pc = "end", !.timeout = FALSE]
    /\ UNCHANGED <<dev, sent, got, hardware, trouble>>

poll ==
    /\ I2cAt("poll") /\ Mine
    /\ \/ bus = "idle" /\ caller' = [caller EXCEPT !.pc = "end", !.timeout = FALSE]
       \/ bus # "idle" /\ held /\ caller' = [caller EXCEPT !.pc = "end", !.timeout = TRUE]
    /\ UNCHANGED <<dev, sent, got, hardware, trouble>>

\* Fault: the message stays with the driver when the caller goes.
end_Kept ==
    /\ I2cAt("end") /\ Mine
    /\ caller' = [caller EXCEPT !.rc = IF caller.timeout THEN -2 ELSE dev.ret,
                                !.pc = IF caller.timeout \/ dev.ret < 0 THEN "clean" ELSE "leave"]
    /\ UNCHANGED <<dev, sent, got, hardware, trouble>>

end ==
    /\ I2cAt("end") /\ Mine
    /\ caller' = [caller EXCEPT !.rc = IF caller.timeout THEN -2 ELSE dev.ret,
                                !.pc = IF caller.timeout \/ dev.ret < 0 THEN "clean" ELSE "leave"]
    /\ dev' = [dev EXCEPT !.msg = 0, !.rem = 0, !.pos = 0, !.ret = 0, !.flush_cnt = 0, !.cnt = 0]
    /\ UNCHANGED <<sent, got, hardware, trouble>>

\* Whatever the recovery brings is not looked at.
clean ==
    /\ I2cAt("clean") /\ Mine
    /\ Recovered
    /\ caller' = [caller EXCEPT !.pc = "leave"]
    /\ UNCHANGED <<dev, sent, got, shifted, held, trouble>>

leave ==
    /\ I2cAt("leave") /\ Mine
    /\ \/ /\ caller.rc = Len(caller.msgs) \/ caller.tries = 1
          /\ caller' = [caller EXCEPT !.pc = "out"]
          /\ dev' = [dev EXCEPT !.unmasked = FALSE]
       \/ /\ caller.rc # Len(caller.msgs) /\ caller.tries > 1
          /\ caller' = [caller EXCEPT !.pc = "notbusy", !.tries = @ - 1]
          /\ UNCHANGED dev
    /\ UNCHANGED <<sent, got, hardware, trouble>>

-----------------------------------------------------------------------------
I2cInit ==
    /\ caller = [pc |-> "out", msgs |-> Write(1), tries |-> 0, timeout |-> FALSE, rc |-> 0,
                 calls |-> 2]
    /\ dev = [msg |-> 0, rem |-> 0, pos |-> 0, cnt |-> 0, ret |-> 0, need_flush |-> FALSE,
              flush_cnt |-> 0, unmasked |-> FALSE]
    /\ sent = 0 /\ got = <<>> /\ reg = Empty /\ bus = "idle" /\ rd = 0 /\ shifted = 0
    /\ error = FALSE /\ irq = FALSE /\ held = FALSE /\ trouble = 0

Calling == notbusy \/ recover \/ setup \/ first \/ poll \/ end \/ clean \/ leave
Shifting == shift_out \/ shift_in

I2cNext == \/ \E n \in Lengths : msm_i2c_call(Read(n)) \/ msm_i2c_call(Write(n))
           \/ msm_i2c_isr \/ Calling \/ Shifting \/ hold \/ let_go

I2cFairness == WF_i2cvars(msm_i2c_isr) /\ WF_i2cvars(Calling) /\ WF_i2cvars(Shifting)
I2cSpec == I2cInit /\ [][I2cNext]_i2cvars /\ I2cFairness

-----------------------------------------------------------------------------
\* The handler touches a message only while its caller waits for it, and within
\* its buffer: the messages lie on the caller's stack.
I2cInBounds ==
    /\ dev.msg # 0 => /\ caller.pc \in {"first", "poll", "end"}
                      /\ dev.msg + dev.rem = Len(caller.msgs) + 1
                      /\ dev.cnt >= 0
                      /\ IF dev.pos < 0 THEN dev.cnt = msg(dev).len
                                        ELSE dev.pos + dev.cnt = msg(dev).len
                      /\ Len(got) <= caller.msgs[Len(caller.msgs)].len

\* A transfer that is reported as done moved every byte: the device took all
\* those written, and the caller has the first ones the device sent, in order
\* and without one left over from an earlier try.
I2cMoved ==
    (I2cAt("leave") /\ caller.rc = Len(caller.msgs)) =>
        LET last == caller.msgs[Len(caller.msgs)] IN
        IF last.rd THEN sent = 1 /\ got = [i \in 1 .. last.len |-> i]
                   ELSE sent = last.len

\* A call returns, after its retries at the latest.
I2cEnds == caller.pc # "out" ~> caller.pc = "out"

=============================================================================
