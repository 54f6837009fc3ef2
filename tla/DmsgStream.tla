----------------------------- MODULE DmsgStream -----------------------------
(***************************************************************************)
(* One direction of an unencrypted iocom of libdmsg.  Any thread queues a  *)
(* message on txmsgq and writes a byte into the wakeup pipe; the sender's  *)
(* I/O thread moves the queue to ioq_tx and writes as much as the socket   *)
(* takes; the receiver's I/O thread assembles the messages again in the    *)
(* staging buffer of ioq_rx, through the states HEADER1 to AUXDATA2.       *)
(*                                                                         *)
(* Sizes are in units of half a base header.  A message is a record of the *)
(* sizes of its header and of its auxiliary data and of a number.          *)
(***************************************************************************)
EXTENDS Integers, Sequences, TLC

CONSTANTS HdrSize,       \* sizeof(struct dmsg_hdr)
          HdrMax,    \* sizeof(msg->any)
          StageSize,  \* sizeof(ioq->buf)
          SockSize,   \* units that the socket holds
          SeqWrap,     \* message sequence numbers are modulo 256
          MaxSent     \* bound: messages that are queued

ASSUME StreamAssumption ==
    /\ HdrSize \in Nat \ {0} /\ HdrMax \in Nat /\ HdrMax >= HdrSize
    /\ StageSize \in Nat /\ StageSize >= 2 * HdrMax /\ SockSize \in Nat \ {0}
    /\ SeqWrap \in Nat \ {0} /\ MaxSent \in Nat

VARIABLES queued,      \* history: the messages queued, in order
          txmsgq, wakeup,             \* queue of the other threads, wakeup pipe
          txq, txDone, txSeq, txFlags,\* ioq_tx: messages, units of the first written
          sock, sockEof,              \* units on the way
          stage, fifoBeg,             \* ioq_rx: contents of the buffer, and where they begin
          rxState, rxMsg, rxAux, rxSeq, rxFlags, rxError,
          delivered                   \* history: messages returned by ioq_read
txVars == <<queued, txmsgq, wakeup, txq, txDone, txSeq, txFlags>>
rxVars == <<stage, fifoBeg, rxState, rxMsg, rxAux, rxSeq, rxFlags, rxError, delivered>>
streamVars == <<txVars, sock, sockEof, rxVars>>

NoneMsg == [h |-> 0, a |-> 0, n |-> 0]
StreamInit ==
    /\ queued = <<>> /\ txmsgq = <<>> /\ wakeup = FALSE
    /\ txq = <<>> /\ txDone = 0 /\ txSeq = 0 /\ txFlags = {}
    /\ sock = <<>> /\ sockEof = FALSE
    /\ stage = <<>> /\ fifoBeg = 0 /\ rxState = "HEADER1" /\ rxMsg = NoneMsg /\ rxAux = 0
    /\ rxSeq = 0 /\ rxFlags = {"RREQ"} /\ rxError = "" /\ delivered = <<>>

-----------------------------------------------------------------------------
\* dmsg_msg_write: queue the message, then wake the I/O thread up.
MsgWrite(m) ==
    /\ Len(queued) < MaxSent /\ ~sockEof
    /\ queued' = Append(queued, m) /\ txmsgq' = Append(txmsgq, m)
    /\ wakeup' = TRUE
    /\ UNCHANGED <<txq, txDone, txSeq, txFlags, sock, sockEof, rxVars>>

\* dmsg_iocom_core of the sender: poll, and the wakeup pipe.
PollTx ==
    /\ txFlags \cap {"PWORK", "WWORK"} = {}
    /\ wakeup \/ ("WREQ" \in txFlags /\ (Len(sock) < SockSize \/ sockEof))
    /\ txFlags' = txFlags \cup (IF wakeup THEN {"PWORK"} ELSE {})
                          \cup (IF "WREQ" \in txFlags /\ Len(sock) < SockSize THEN {"WWORK"} ELSE {})
    /\ UNCHANGED <<queued, txmsgq, wakeup, txq, txDone, txSeq, sock, sockEof, rxVars>>

ClearPipe ==
    /\ "PWORK" \in txFlags
    /\ wakeup' = FALSE
    /\ txFlags' = (txFlags \ {"PWORK"}) \cup {"WWORK"}
    /\ UNCHANGED <<queued, txmsgq, txq, txDone, txSeq, sock, sockEof, rxVars>>

\* dmsg_iocom_flush1 and flush2.  A message is numbered when it moves to ioq_tx.
Numbered(ms) == [i \in 1..Len(ms) |-> ms[i] @@ [seq |-> (txSeq + i - 1) % SeqWrap]]
Bytes(m) == [i \in 1..m.h + m.a |-> <<m.n, m.seq>>]
RECURSIVE Pending(_, _)
Pending(q, done) == IF q = <<>> THEN <<>>
                    ELSE SubSeq(Bytes(q[1]), done + 1, q[1].h + q[1].a) \o Pending(Tail(q), 0)
\* The message that unit number k of the queue belongs to, and its place in it.
RECURSIVE Written(_, _)
Written(q, k) == IF q # <<>> /\ k >= q[1].h + q[1].a
                 THEN Written(Tail(q), k - q[1].h - q[1].a) ELSE [q |-> q, done |-> k]

\* Mutant: the units already written of the first message are written again.
FlushRestarts ==
    /\ "WWORK" \in txFlags /\ "PWORK" \notin txFlags
    /\ LET q == txq \o Numbered(txmsgq)
           out == Pending(q, 0)
           space == SockSize - Len(sock)
           n == IF Len(out) < space THEN Len(out) ELSE space IN
       /\ sock' = sock \o SubSeq(out, 1, n)
       /\ txq' = Written(q, n).q /\ txDone' = Written(q, n).done
       /\ txFlags' = (txFlags \ {"WREQ", "WWORK"}) \cup
                     (IF out # <<>> /\ n = 0 THEN {"WREQ"} ELSE IF txq' # <<>> THEN {"WWORK"} ELSE {})
       /\ txSeq' = (txSeq + Len(txmsgq)) % SeqWrap
    /\ txmsgq' = <<>>
    /\ UNCHANGED <<queued, wakeup, sockEof, rxVars>>

\* writev takes any part of what is pending, or fails with EAGAIN when the
\* socket is full; a socket error drains ioq_tx.
Flush ==
    /\ "WWORK" \in txFlags /\ "PWORK" \notin txFlags
    /\ LET q == txq \o Numbered(txmsgq)
           out == Pending(q, txDone)
           space == SockSize - Len(sock) IN
       \/ /\ out = <<>>
          /\ txFlags' = txFlags \ {"WREQ", "WWORK"}
          /\ UNCHANGED <<sock, txq, txDone>>
       \/ /\ out # <<>> /\ space = 0 /\ ~sockEof
          /\ txFlags' = (txFlags \ {"WWORK"}) \cup {"WREQ"}
          /\ txq' = q
          /\ UNCHANGED <<sock, txDone>>
       \/ /\ ~sockEof
          /\ \E n \in 1..(IF Len(out) < space THEN Len(out) ELSE space) :
               /\ sock' = sock \o SubSeq(out, 1, n)
               /\ txq' = Written(q, txDone + n).q /\ txDone' = Written(q, txDone + n).done
          /\ txFlags' = (txFlags \ {"WREQ", "WWORK"}) \cup (IF txq' # <<>> THEN {"WWORK"} ELSE {})
       \/ /\ out # <<>> /\ sockEof
          /\ txFlags' = txFlags \ {"WREQ", "WWORK"}
          /\ txq' = <<>> /\ txDone' = 0
          /\ UNCHANGED sock
    /\ txSeq' = (txSeq + Len(txmsgq)) % SeqWrap
    /\ txmsgq' = <<>>
    /\ UNCHANGED <<queued, wakeup, sockEof, rxVars>>

\* The connection is lost: what is on the way may still arrive.
Disconnect ==
    /\ ~sockEof
    /\ sockEof' = TRUE
    /\ \E n \in 0..Len(sock) : sock' = SubSeq(sock, 1, n)
    /\ UNCHANGED <<txVars, rxVars>>

-----------------------------------------------------------------------------
\* dmsg_ioq_makeroom: where the contents begin after it.
RoomAt(beg, n) == StageSize - (beg + n)

\* The contents move to the front when the room behind them is short.
MakeRoom(beg, n, needed) == IF n + RoomAt(beg, n) \div 2 < needed THEN 0 ELSE beg

\* The header that starts with unit u.
Known(u) == queued[u[1]] @@ [seq |-> u[2]]

\* read(): what fits behind the contents, if the socket has data.
Load(beg) ==
    LET room == RoomAt(beg, Len(stage))
        n == IF Len(sock) < room THEN Len(sock) ELSE room
    IN [stage |-> stage \o SubSeq(sock, 1, n), sock |-> SubSeq(sock, n + 1, Len(sock)),
        eof |-> sock = <<>> /\ sockEof, room |-> room]
Unread == [stage |-> stage, sock |-> sock, eof |-> FALSE, room |-> 1]

Wait == rxFlags' = (rxFlags \ {"RWORK"}) \cup {"RREQ"}
Keep == UNCHANGED <<txVars, sockEof>>
IoqError(e) ==
    /\ rxError' = e /\ rxState' = "ERROR" /\ rxMsg' = NoneMsg
    /\ rxFlags' = rxFlags \ {"RWORK", "RREQ"}
    /\ UNCHANGED <<sock, stage, fifoBeg, rxAux, rxSeq, delivered>>

PollRx ==
    /\ "RWORK" \notin rxFlags /\ "RREQ" \in rxFlags
    /\ sock # <<>> \/ sockEof
    /\ rxFlags' = rxFlags \cup {"RWORK"}
    /\ Keep /\ UNCHANGED <<sock, stage, fifoBeg, rxState, rxMsg, rxAux, rxSeq, rxError, delivered>>

\* Mutant: after a message the receiver always waits for the socket.
CompleteWaits(m, rest, beg) ==
    /\ rxSeq' = (rxSeq + 1) % SeqWrap
    /\ delivered' = Append(delivered, m.n)
    /\ stage' = rest /\ fifoBeg' = (IF rest = <<>> THEN 0 ELSE beg)
    /\ rxFlags' = {"RREQ"}
    /\ rxState' = "HEADER1" /\ rxMsg' = NoneMsg /\ rxAux' = 0 /\ UNCHANGED rxError

\* The message is complete: check its sequence number and hand it over.
Complete(m, rest, beg) ==
    IF m.seq # rxSeq
    THEN /\ rxError' = "MSGSEQ" /\ rxState' = "ERROR"
         /\ stage' = rest /\ fifoBeg' = beg
         /\ rxFlags' = {} /\ UNCHANGED <<rxSeq, delivered, rxMsg, rxAux>>
    ELSE /\ rxSeq' = (rxSeq + 1) % SeqWrap
         /\ delivered' = Append(delivered, m.n)
         /\ stage' = rest /\ fifoBeg' = (IF rest = <<>> THEN 0 ELSE beg)
         /\ rxFlags' = IF rest = <<>> THEN {"RREQ"} ELSE {"RWORK"}
         /\ rxState' = "HEADER1" /\ rxMsg' = NoneMsg /\ rxAux' = 0 /\ UNCHANGED rxError

Header1 ==
    /\ rxState = "HEADER1" /\ "RWORK" \in rxFlags
    /\ LET beg == MakeRoom(fifoBeg, Len(stage), HdrSize)
           l == IF Len(stage) < HdrSize THEN Load(beg) ELSE Unread IN
       IF l.eof THEN IoqError("EOF")
       ELSE /\ stage' = l.stage /\ sock' = l.sock
            /\ IF Len(l.stage) < HdrSize
               THEN fifoBeg' = beg /\ Wait /\ UNCHANGED <<rxState, rxMsg>>
               ELSE /\ rxState' = "HEADER2" /\ rxMsg' = Known(l.stage[1])
                    /\ fifoBeg' = MakeRoom(beg, Len(l.stage), rxMsg'.h)
                    /\ UNCHANGED rxFlags
            /\ UNCHANGED <<rxAux, rxSeq, rxError, delivered>>
    /\ Keep

\* The room for the extended header is made when HEADER1 falls through; a
\* retry of HEADER2 makes none.
Header2 ==
    /\ rxState = "HEADER2" /\ "RWORK" \in rxFlags
    /\ LET l == IF Len(stage) < rxMsg.h THEN Load(fifoBeg) ELSE Unread
           beg == fifoBeg IN
       IF l.eof THEN IoqError("EOF")
       ELSE /\ sock' = l.sock
            /\ IF Len(l.stage) < rxMsg.h
               THEN /\ stage' = l.stage /\ fifoBeg' = beg
                    /\ Wait /\ UNCHANGED <<rxState, rxMsg, rxAux, rxSeq, rxError, delivered>>
               ELSE LET rest == SubSeq(l.stage, rxMsg.h + 1, Len(l.stage)) IN
                    IF rxMsg.a = 0 THEN Complete(rxMsg, rest, beg + rxMsg.h)
                    ELSE /\ stage' = rest /\ fifoBeg' = beg + rxMsg.h
                         /\ rxState' = "AUXDATA1"
                         /\ UNCHANGED <<rxMsg, rxAux, rxSeq, rxFlags, rxError, delivered>>
    /\ Keep

\* Take n units of auxiliary data from the buffer.
TakeAux(n) ==
    /\ stage' = SubSeq(stage, n + 1, Len(stage)) /\ fifoBeg' = fifoBeg + n
    /\ rxAux' = rxAux + n
Auxdata1 ==
    /\ rxState = "AUXDATA1" /\ "RWORK" \in rxFlags
    /\ TakeAux(IF Len(stage) < rxMsg.a THEN Len(stage) ELSE rxMsg.a)
    /\ rxState' = "AUXDATA2"
    /\ Keep /\ UNCHANGED <<sock, rxMsg, rxSeq, rxFlags, rxError, delivered>>

Auxdata2 ==
    /\ rxState = "AUXDATA2" /\ "RWORK" \in rxFlags
    /\ LET beg == MakeRoom(fifoBeg, Len(stage), rxMsg.a - rxAux)
           l == IF rxAux < rxMsg.a THEN Load(beg) ELSE Unread
           need == rxMsg.a - rxAux
           n == IF Len(l.stage) < need THEN Len(l.stage) ELSE need
           rest == SubSeq(l.stage, n + 1, Len(l.stage)) IN
       IF l.eof THEN IoqError("EOF")
       ELSE /\ sock' = l.sock
            /\ IF n < need
               THEN /\ stage' = rest /\ fifoBeg' = beg + n /\ rxAux' = rxAux + n
                    /\ Wait /\ UNCHANGED <<rxState, rxMsg, rxSeq, rxError, delivered>>
               ELSE Complete(rxMsg, rest, beg + n)
    /\ Keep

IoqRead == Header1 \/ Header2 \/ Auxdata1 \/ Auxdata2
StreamNext(Ms) ==
    \/ \E m \in Ms : MsgWrite(m @@ [n |-> Len(queued) + 1])
    \/ PollTx \/ ClearPipe \/ Flush \/ Disconnect \/ PollRx \/ IoqRead

\* Each I/O thread keeps running its loop.
StreamFair == WF_streamVars(PollTx \/ ClearPipe \/ Flush) /\ WF_streamVars(PollRx \/ IoqRead)
StreamSpec(Ms) == StreamInit /\ [][StreamNext(Ms)]_streamVars /\ StreamFair

-----------------------------------------------------------------------------
\* The receiver sees the messages that were queued, in order and whole, however
\* the socket cuts the stream: the sequence check never fails.
StreamInOrder ==
    /\ rxError # "MSGSEQ"
    /\ Len(delivered) <= Len(queued)
    /\ \A i \in 1..Len(delivered) : delivered[i] = queued[i].n

\* The staging buffer never overflows, and whenever a state has to read more
\* there is room for at least one more unit (assert(nmax > 0)).
StageHasRoom ==
    /\ fifoBeg >= 0 /\ fifoBeg + Len(stage) <= StageSize
    /\ rxState = "HEADER1" /\ Len(stage) < HdrSize => RoomAt(MakeRoom(fifoBeg, Len(stage), HdrSize), Len(stage)) > 0
    /\ rxState = "HEADER2" /\ Len(stage) < rxMsg.h => RoomAt(fifoBeg, Len(stage)) > 0
    /\ rxState = "AUXDATA2" /\ rxAux < rxMsg.a => RoomAt(MakeRoom(fifoBeg, Len(stage), rxMsg.a - rxAux), Len(stage)) > 0

\* Unless the connection is lost every message queued is delivered, and the
\* receiver catches up again and again: no wakeup is missed, neither of the
\* sender nor of the receiver.
AllDelivered == []<>(Len(delivered) = Len(queued) \/ sockEof)

\* dmsg_iocom_flush2 and dmsg_ioq_read carry every message over whole and in
\* order, however the socket cuts the stream, within the staging buffer.
StreamSound == StreamInOrder /\ StageHasRoom
=============================================================================
