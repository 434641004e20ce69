---------------------------------- MODULE Qup ----------------------------------
(***************************************************************************)
(* The other I2C driver, src/platform/msm_shared/i2c_qup.c: messages are    *)
(* written into the output FIFO as tagged entries, two to a word, in passes  *)
(* that stop and start the controller; the controller executes the entries.  *)
(***************************************************************************)
EXTENDS Integers, Sequences, SequencesExt

CONSTANTS
    QupLists,    \* the lists of messages qup_i2c_xfer is given
    OutBlock,    \* out_blk_sz, in entries
    OutFifo,     \* out_fifo_sz
    MaxBad       \* bound: errors of the bus, and states that are not reached

VARIABLES
    qup,         \* the locals of qup_i2c_xfer and the fields of the device
    stream,      \* the entries written, in the order the controller sees them
    inbuf,       \* what the caller's buffers received, by message
    avail,       \* bytes in the input FIFO
    owed,        \* bytes the controller has still to fetch
    bad

qupvars == <<qup, stream, inbuf, avail, owed, bad>>

Entry(tag, m, n) == [tag |-> tag, m |-> m, n |-> n]
QupAt(p) == qup.pc = p
this == qup.msgs[qup.m]
follows == qup.msgs[qup.m + 1]

-----------------------------------------------------------------------------
(* One call of qup_issue_read and qup_issue_write.                          *)

\* A word left half full by the write before is completed with the start.
Carried == IF qup.idx % 4 # 0 THEN qup.carry ELSE <<>>

\* Fault: the byte carried over from the write is forgotten.
IssuedRead_Bare == [stream |-> <<Entry("start", qup.m, 1), Entry("rec", qup.m, qup.cnt)>>,
                    q |-> [qup EXCEPT !.idx = @ + 4, !.carry = <<>>]]

IssuedRead ==
    [stream |-> Carried \o <<Entry("start", qup.m, 1), Entry("rec", qup.m, qup.cnt)>>,
     q |-> [qup EXCEPT !.idx = @ + 4, !.carry = <<>>]]

\* One entry for the start, or for the pause in front of the later blocks.
Room == IF qup.cnt + 1 > qup.wr_sz - qup.idx \div 2
        THEN qup.wr_sz - qup.idx \div 2 ELSE qup.cnt + 1

IssuedWrite ==
    LET lead == IF qup.pos = 0 THEN Entry("start", qup.m, 0) ELSE Entry("nop", 0, 0)
        n == IF Room < 2 THEN 2 ELSE Room
        last == qup.pos + n - 2
        tag == IF last < this.len - 1 \/ qup.rem > 1 THEN "data" ELSE "stop"
        head == <<lead>> \o [i \in 1 .. n - 2 |-> Entry("data", qup.m, qup.pos + i - 1)]
        end == <<Entry(tag, qup.m, last)>>
        at == qup.idx + 2 * (n - 1)     \* idx when the last entry is written
        \* Read start and read command are to be in one block.
        nop == at % 4 = 0 /\ qup.rem > 1 /\ follows.addr = this.addr /\ at = qup.wr_sz * 2 - 4
        held == at % 4 = 0 /\ qup.rem > 1 /\ ~nop
    IN  [stream |-> head \o (IF held THEN <<>> ELSE end)
                    \o (IF nop THEN <<Entry("nop", 0, 0)>> ELSE <<>>),
         q |-> [qup EXCEPT !.idx = at + (IF nop THEN 4 ELSE 2),
                           !.carry = IF held THEN end ELSE <<>>,
                           !.pos = last + 1, !.cnt = this.len - last - 1]]

-----------------------------------------------------------------------------
(* qup_i2c_xfer.                                                            *)

Fails == /\ bad < MaxBad /\ bad' = bad + 1
         /\ qup' = [qup EXCEPT !.pc = "out_err", !.ret = -1]
         /\ UNCHANGED <<stream, inbuf, avail, owed>>

qup_i2c_xfer(msgs) ==
    /\ QupAt("out") /\ qup.calls > 0
    /\ qup' = [qup EXCEPT !.pc = "begin", !.msgs = msgs, !.m = 1, !.rem = Len(msgs), !.pos = 0,
                          !.cnt = msgs[1].len, !.calls = @ - 1]
    /\ stream' = <<>> /\ inbuf' = [m \in DOMAIN msgs |-> 0] /\ avail' = 0 /\ owed' = 0
    /\ UNCHANGED bad

\* The modes: a write that fills the FIFO goes block by block, and then nothing
\* is written before the first interrupt.  More than 256 bytes cannot be read.
begin ==
    /\ QupAt("begin")
    /\ LET block == ~this.rd /\ this.len >= OutFifo - 1
           toolong == \/ this.rd /\ qup.cnt > 256
                      \/ ~this.rd /\ qup.rem > 1 /\ follows.rd /\ follows.addr = this.addr
                         /\ follows.len > 256
       IN  qup' = [qup EXCEPT !.pc = IF toolong THEN "out_err" ELSE "fill", !.idx = 0,
                              !.ret = IF toolong THEN -2 ELSE @, !.err = FALSE,
                              !.wr_sz = IF block THEN OutBlock ELSE OutFifo, !.filled = block]
    /\ UNCHANGED <<stream, inbuf, avail, owed, bad>>

\* With the controller paused: one message, and the next one if it is a read of
\* the same device and there is room.
Combined(q) == ~q.msgs[q.m].rd /\ q.rem > 1 /\ q.idx < q.wr_sz * 2
               /\ q.msgs[q.m + 1].addr = q.msgs[q.m].addr /\ q.msgs[q.m + 1].rd

fill ==
    /\ QupAt("fill")
    /\ IF qup.filled THEN qup' = [qup EXCEPT !.pc = "run"] /\ UNCHANGED <<stream, owed>>
       ELSE LET issued == IF this.rd THEN IssuedRead ELSE IssuedWrite
                q == issued.q
            IN  /\ stream' = stream \o issued.stream
                /\ owed' = IF this.rd THEN this.len ELSE owed
                /\ qup' = IF Combined(q)
                          THEN [q EXCEPT !.rem = @ - 1, !.m = @ + 1, !.pos = 0,
                                         !.cnt = q.msgs[q.m + 1].len]
                          ELSE [q EXCEPT !.filled = TRUE, !.pc = "run"]
    /\ UNCHANGED <<inbuf, avail, bad>>

\* A state that is not reached ends the transfer.
wont_run == QupAt("fill") /\ Fails

\* The controller runs; an error that the handler noted ends the transfer.
run ==
    /\ QupAt("run")
    /\ qup' = IF qup.err THEN [qup EXCEPT !.pc = "out_err", !.ret = -3]
              ELSE IF this.rd THEN [qup EXCEPT !.pc = "read"]
              ELSE [qup EXCEPT !.pc = "pass", !.filled = FALSE]
    /\ UNCHANGED <<stream, inbuf, avail, owed, bad>>

\* The bytes that are there, two to a word.
read ==
    /\ QupAt("read")
    /\ LET n == IF avail > this.len - qup.pos THEN this.len - qup.pos ELSE avail
       IN  /\ inbuf' = [inbuf EXCEPT ![qup.m] = @ + n]
           /\ avail' = avail - n
           /\ qup' = [qup EXCEPT !.pc = "pass", !.pos = @ + n, !.cnt = @ - n]
    /\ UNCHANGED <<stream, owed, bad>>

\* Fault: the loop ends one byte early.
pass_Early ==
    /\ QupAt("pass")
    /\ qup' = IF qup.cnt > 1 THEN [qup EXCEPT !.pc = "fill", !.idx = 0, !.carry = <<>>]
              ELSE [qup EXCEPT !.pc = "idle"]
    /\ UNCHANGED <<stream, inbuf, avail, owed, bad>>

\* The next pass starts with an empty word.
pass ==
    /\ QupAt("pass")
    /\ qup' = IF qup.cnt > 0 THEN [qup EXCEPT !.pc = "fill", !.idx = 0, !.carry = <<>>]
              ELSE [qup EXCEPT !.pc = "idle"]
    /\ UNCHANGED <<stream, inbuf, avail, owed, bad>>

idle ==
    /\ QupAt("idle")
    /\ \/ Fails
       \/ /\ qup' = IF qup.rem = 1 THEN [qup EXCEPT !.pc = "out_err", !.ret = Len(qup.msgs)]
                    ELSE [qup EXCEPT !.pc = "begin", !.rem = @ - 1, !.m = @ + 1, !.pos = 0,
                                     !.cnt = follows.len]
          /\ UNCHANGED <<stream, inbuf, avail, owed, bad>>

out_err ==
    /\ QupAt("out_err") /\ qup' = [qup EXCEPT !.pc = "out", !.err = FALSE]
    /\ UNCHANGED <<stream, inbuf, avail, owed, bad>>

-----------------------------------------------------------------------------
(* The controller.  An error is noted for the pass, and forgotten with the   *)
(* next interrupt that brings none: qup_i2c_interrupt sets err either way.   *)

\* The word is there with its second half, unless the message ends with the first.
fetch ==
    /\ owed > 0
    /\ LET n == IF owed = 1 THEN 1 ELSE 2 IN owed' = owed - n /\ avail' = avail + n
    /\ qup' = [qup EXCEPT !.err = FALSE]
    /\ UNCHANGED <<stream, inbuf, bad>>

refuse ==
    /\ ~QupAt("out") /\ bad < MaxBad /\ bad' = bad + 1
    /\ qup' = [qup EXCEPT !.err = TRUE]
    /\ UNCHANGED <<stream, inbuf, avail, owed>>

-----------------------------------------------------------------------------
QupInit ==
    /\ qup = [pc |-> "out", msgs |-> <<>>, m |-> 1, rem |-> 0, pos |-> 0, cnt |-> 0, wr_sz |-> 0,
              filled |-> FALSE, idx |-> 0, carry |-> <<>>, err |-> FALSE, ret |-> 0, calls |-> 1]
    /\ stream = <<>> /\ inbuf = <<>> /\ avail = 0 /\ owed = 0 /\ bad = 0

QupCaller == begin \/ fill \/ run \/ read \/ pass \/ idle \/ out_err

QupNext == \/ \E msgs \in QupLists : qup_i2c_xfer(msgs)
           \/ QupCaller \/ wont_run \/ fetch \/ refuse

QupFairness == WF_qupvars(QupCaller) /\ WF_qupvars(fetch)
QupSpec == QupInit /\ [][QupNext]_qupvars /\ QupFairness

-----------------------------------------------------------------------------
\* What the messages mean to the controller: a start, then the bytes in order,
\* the last of all with the stop, or the number of bytes to read.
Encoding(msgs) ==
    FlattenSeq([m \in DOMAIN msgs |->
        IF msgs[m].rd THEN <<Entry("start", m, 1), Entry("rec", m, msgs[m].len)>>
        ELSE <<Entry("start", m, 0)>> \o
             [i \in 1 .. msgs[m].len |->
                Entry(IF m = Len(msgs) /\ i = msgs[m].len THEN "stop" ELSE "data", m, i - 1)]])

\* A write that ends with the first half of a word keeps that half for the start of
\* the message behind it.  Only a read of the same device takes it: in front of any
\* other message it is lost, and its last byte never reaches the device.  The last
\* block has one byte for each entry but the first.
LosesLastByte(msgs, m) ==
    LET blocks == IF msgs[m].len >= OutFifo - 1 THEN OutBlock - 1 ELSE OutFifo
        tail == ((msgs[m].len - 1) % blocks) + 1
    IN  /\ ~msgs[m].rd /\ m < Len(msgs) /\ tail % 2 = 0
        /\ ~(msgs[m + 1].rd /\ msgs[m + 1].addr = msgs[m].addr)

\* A transfer that is reported done put the messages into the FIFO in order, however
\* they were cut into blocks and combined, whole but for the last byte of those that
\* LosesLastByte names - one of even length in front of another device's message, or
\* of a second write - and took every byte that was read.
MessagesWhole ==
    LET lost == {Entry("data", m, qup.msgs[m].len - 1) :
                     m \in {k \in DOMAIN qup.msgs : LosesLastByte(qup.msgs, k)}}
    IN  (QupAt("out_err") /\ qup.ret = Len(qup.msgs)) =>
            /\ SelectSeq(stream, LAMBDA e : e.tag # "nop")
                 = SelectSeq(Encoding(qup.msgs), LAMBDA e : e \notin lost)
            /\ \A m \in DOMAIN qup.msgs : qup.msgs[m].rd => inbuf[m] = qup.msgs[m].len

=============================================================================
