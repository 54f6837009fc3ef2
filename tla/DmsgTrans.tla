----------------------------- MODULE DmsgTrans -----------------------------
(***************************************************************************)
(* The transactions of libdmsg over one connection.  A transaction is a    *)
(* state on each of its two sides: the initiator allocates it with the     *)
(* message that has CREATE set, and the other side when that message       *)
(* arrives; each side closes its direction with a DELETE, and the state    *)
(* goes when both directions are closed.  A transaction may be stacked     *)
(* under another one, its circuit.  When the connection fails, every side  *)
(* simulates the DELETE of its peer for all its transactions, bottom up,   *)
(* and the states are told by reference counts when they may be freed.     *)
(*                                                                         *)
(* A transaction is named by its initiator and a number, which is free for *)
(* reuse when the initiator's state is freed, as its address is.           *)
(*                                                                         *)
(* A step is everything that an I/O thread does with one message or one    *)
(* call of the application.  The mutex of the iocom is locked again by     *)
(* the thread that holds it, which POSIX leaves undefined; Relock has the  *)
(* outcomes that are considered.                                           *)
(***************************************************************************)
EXTENDS Integers, Sequences, FiniteSets, TLC

CONSTANTS Sides,       \* the two ends of the connection
          Numbers,     \* message ids of one side
          MaxNew,      \* bound: transactions created in all
          Relock,      \* a subset of {"deadlock" (glibc), "error" (DragonFly BSD)}
          Orphans      \* applications close a circuit with open sub-transactions

ASSUME TransAssumption ==
    /\ Cardinality(Sides) = 2 /\ MaxNew \in Nat
    /\ Relock \subseteq {"deadlock", "error"} /\ Orphans \in BOOLEAN

VARIABLES st,          \* st[n]: the states of side n, by name
          wire,        \* wire[n]: the messages sent by n and not yet received
          lost,        \* the connection has failed
          seenEof,     \* sides whose ioq_rx has met the failure
          awake,       \* sides with a byte in the wakeup pipe
          stuck,       \* sides whose I/O thread blocks on its own mutex
          created      \* history: transactions created so far
transVars == <<st, wire, lost, seenEof, awake, stuck, created>>

Peer(n) == CHOOSE m \in Sides : m # n
Root == <<>>

TransInit ==
    /\ st = [n \in Sides |-> <<>>] /\ wire = [n \in Sides |-> <<>>]
    /\ lost = FALSE /\ seenEof = {} /\ awake = {} /\ stuck = {} /\ created = 0

\* dmsg_state_hold and dmsg_state_drop.  The root is never freed.
Subs(N, p) == {t \in DOMAIN N.st : N.st[t].sub /\ N.st[t].parent = p}
Hold(N, t) == IF t = Root THEN N ELSE [N EXCEPT !.st[t].refs = @ + 1]
Drop(N, t) ==
    IF t = Root THEN N
    ELSE IF t \notin DOMAIN N.st THEN [N EXCEPT !.bad = TRUE]
    ELSE IF N.st[t].refs > 1 THEN [N EXCEPT !.st[t].refs = @ - 1]
    ELSE [N EXCEPT !.st = [u \in DOMAIN @ \ {t} |-> @[u]],
                   !.bad = @ \/ N.st[t].rb \/ N.st[t].sub \/ Subs(N, t) # {}]

NewState(p, rx, dying) ==
    [parent |-> p, tx |-> {}, rx |-> rx, dying |-> dying, aborting |-> FALSE,
     rb |-> TRUE, sub |-> TRUE, refs |-> 3]

\* A new state under p: it is on p's subq, in the tree and held by its message.
Enter(N, t, p, rx, dying) ==
    LET held == IF Subs(N, p) = {} THEN Hold(N, p) ELSE N
    IN [held EXCEPT !.st = (t :> NewState(p, rx, dying)) @@ @]

\* dmsg_subq_delete.
SubqDelete(N, t) ==
    IF ~N.st[t].sub THEN N
    ELSE LET p == N.st[t].parent
             off == [N EXCEPT !.st[t].sub = FALSE, !.st[t].parent = Root]
             up == IF Subs(off, p) = {} THEN Drop(off, p) ELSE off
         IN Drop(up, t)

\* Both directions are closed: out of the tree.
RbRemove(N, t) ==
    Drop([N EXCEPT !.bad = @ \/ ~N.st[t].rb, !.st[t].rb = FALSE], t)

\* dmsg_state_dying.
RECURSIVE Dying(_, _), DyingAll(_, _)
Dying(N, t) == IF N.st[t].dying THEN N
               ELSE DyingAll([N EXCEPT !.st[t].dying = TRUE], Subs(N, t))
DyingAll(N, S) == IF S = {} THEN N
                  ELSE LET t == CHOOSE x \in S : TRUE IN DyingAll(Dying(N, t), S \ {t})

\* Mutant: the state stays in the tree when both directions are closed.
RxDeleteStays(N, t) == [N EXCEPT !.st[t].rx = @ \cup {"D"}]

\* What msgrx does to a state whose peer closed its direction.
RxDelete(N, t) ==
    LET del == [N EXCEPT !.bad = @ \/ "D" \in N.st[t].rx, !.st[t].rx = @ \cup {"D"}]
    IN IF "D" \in N.st[t].tx THEN RbRemove(del, t) ELSE del

\* Mutant: off the subq as soon as the peer has closed its direction.
CleanupRxEarly(N, t) ==
    LET s == N.st[t] IN
    Drop(IF s.sub /\ "D" \in s.rx THEN SubqDelete(N, t) ELSE N, t)

\* dmsg_state_cleanuprx: after the callback.
CleanupRx(N, t) ==
    LET s == N.st[t] IN
    Drop(IF s.sub /\ "D" \in s.rx /\ "D" \in s.tx THEN SubqDelete(N, t) ELSE N, t)

RECURSIVE MsgWriteT(_, _, _, _, _, _), CleanupTx(_, _, _, _, _), Simulate(_, _, _, _, _),
          Abort(_, _, _, _), SimulateAll(_, _, _, _), Callback(_, _, _, _)

\* dmsg_msg_write of a message that holds t: n is the writing side and lazy the
\* states whose application answers a DELETE later.
MsgWriteT(N, n, t, create, delete, lazy) ==
    LET c == IF create THEN [N EXCEPT !.st[t].tx = {"C"}] ELSE N
        msg == [t |-> t, circ |-> c.st[t].parent, create |-> create, delete |-> delete,
                reply |-> t[1] # n]
        clean == CleanupTx(Hold(c, t), n, t, delete, lazy)
    IN IF "D" \in c.st[t].tx THEN Drop(c, t)
       ELSE IF c.st[t].dying
       THEN LET sim == IF clean.st[t].aborting THEN clean ELSE Simulate(clean, n, t, TRUE, lazy)
            IN Drop(Drop(sim, t), t)
       ELSE Drop([CleanupTx(c, n, t, delete, lazy) EXCEPT !.out = Append(@, msg)], t)

CleanupTx(N, n, t, delete, lazy) ==
    LET h == Hold(N, t)
        s == h.st[t]
        closed == IF ~delete \/ "D" \in s.tx THEN h
                  ELSE IF "D" \in s.rx
                  THEN LET d == [h EXCEPT !.st[t].tx = @ \cup {"D"}, !.bad = @ \/ ~s.rb,
                                          !.st[t].rb = FALSE]
                       IN Drop(SubqDelete(d, t), t)
                  ELSE [h EXCEPT !.st[t].tx = @ \cup {"D"}]
        c == closed.st[t]
        deferred == IF (c.aborting \/ c.dying) /\ "D" \notin c.rx
                    THEN Simulate([closed EXCEPT !.st[t].aborting = FALSE], n, t, TRUE, lazy)
                    ELSE closed
    IN Drop(deferred, t)

\* dmsg_simulate_failure, and its loop over the sub-states.
Simulate(N, n, t, meto, lazy) ==
    LET h == Hold(N, t)
        a == IF meto THEN Abort(h, n, t, lazy) ELSE h
    IN Drop(SimulateAll(a, n, t, lazy), t)
SimulateAll(N, n, t, lazy) ==
    LET more == {u \in Subs(N, t) : ~N.st[u].aborting} IN
    IF more = {} THEN N
    ELSE SimulateAll(Simulate(N, n, CHOOSE u \in more : TRUE, TRUE, lazy), n, t, lazy)

\* The callback of a DELETE answers it at once, unless t is in lazy.
Callback(N, n, t, lazy) ==
    IF t \in lazy \/ "D" \in N.st[t].tx THEN N
    ELSE MsgWriteT(Hold(N, t), n, t, "C" \notin N.st[t].tx, TRUE, lazy)

\* dmsg_state_abort: the peer's DELETE is simulated and given to the callback.
Abort(N, n, t, lazy) ==
    LET d == Dying([N EXCEPT !.st[t].aborting = TRUE], t)
        rx == RxDelete([Hold(d, t) EXCEPT !.st[t].rx = @ \cup {"C"}], t)
    IN IF N.st[t].aborting THEN N
       ELSE IF "D" \in N.st[t].rx THEN d ELSE CleanupRx(Callback(rx, n, t, lazy), t)

-----------------------------------------------------------------------------
Now(n) == [st |-> st[n], out |-> <<>>, bad |-> FALSE]
\* A failed assertion ends the process: it is recorded in st as the name Root.
Set(n, N) ==
    /\ st' = [st EXCEPT ![n] = IF N.bad THEN Root :> "assert" ELSE N.st]
    /\ wire' = [wire EXCEPT ![n] = IF lost THEN @ ELSE @ \o N.out]
    /\ awake' = IF lost /\ N.out # <<>> THEN awake \cup {n} ELSE awake
Crashed(n) == Root \in DOMAIN st[n]
Runs(n) == ~Crashed(n) /\ n \notin stuck
Lazy(n) == SUBSET (DOMAIN st[n])

\* The application creates a transaction under p (dmsg_msg_alloc and write).
Create(n, t, p) ==
    /\ Runs(n) /\ created < MaxNew /\ t \notin DOMAIN st[n] /\ t[1] = n
    /\ p = Root \/ (p \in DOMAIN st[n] /\ st[n][p].rb /\ (Orphans \/ "D" \notin st[n][p].tx))
    /\ \E oneshot \in BOOLEAN, lazy \in SUBSET {t} :
         LET N == Enter(Now(n), t, p, {}, p # Root /\ st[n][p].dying)
         IN Set(n, MsgWriteT(N, n, t, TRUE, oneshot, lazy))
    /\ created' = created + 1
    /\ UNCHANGED <<lost, seenEof, stuck>>

\* dmsg_msg_result and dmsg_msg_reply: the application answers on t, and closes
\* its direction if del is set.
Open(n, t) == t \in DOMAIN st[n] /\ "D" \notin st[n][t].tx
Reply(n, t, del) ==
    /\ Runs(n) /\ Open(n, t)
    /\ del /\ ~Orphans => Subs(Now(n), t) = {}
    /\ ~del => "C" \notin st[n][t].tx
    /\ \E lazy \in Lazy(n) :
         Set(n, MsgWriteT(Hold(Now(n), t), n, t, "C" \notin st[n][t].tx, del, lazy))
    /\ UNCHANGED <<lost, seenEof, stuck, created>>

\* dmsg_state_msgrx: the circuit and the transaction are looked up in the trees.
\* A message whose circuit is gone is dropped.
InTree(N, t) == t \in DOMAIN N.st /\ N.st[t].rb
CircuitGone(N, m) == m.circ # Root /\ ~InTree(N, m.circ)
MsgRx(N, m) ==
    IF m.create /\ ~m.reply
    THEN IF InTree(N, m.t) THEN [N EXCEPT !.bad = TRUE]
         ELSE Enter(Hold(N, m.circ), m.t, m.circ, {"C"}, FALSE)
    ELSE IF ~InTree(N, m.t) \/ (~m.create /\ "C" \notin N.st[m.t].rx)
    THEN [N EXCEPT !.bad = TRUE]
    ELSE [Hold(N, m.t) EXCEPT !.bad = N.st[m.t].parent # m.circ,
                              !.st[m.t].rx = IF m.create THEN {"C"} ELSE @]

\* One message: state processing, the callback and the clean-up, which locks the
\* mutex that the caller holds.
Receive(n) ==
    /\ Runs(n) /\ wire[Peer(n)] # <<>>
    /\ LET m == Head(wire[Peer(n)])
           r == MsgRx(Now(n), m)
           d == IF m.delete THEN RxDelete(r, m.t) ELSE r
           dead == CircuitGone(Now(n), m) IN
       \E lazy \in SUBSET (DOMAIN st[n] \cup {m.t}) :
         LET N == IF dead THEN Now(n)
                  ELSE IF r.bad THEN r
                  ELSE IF m.delete /\ ~(~Orphans /\ Subs(d, m.t) # {})
                  THEN CleanupRx(Callback(d, n, m.t, lazy), m.t)
                  ELSE CleanupRx(d, m.t) IN
         /\ st' = [st EXCEPT ![n] = IF N.bad THEN Root :> "assert" ELSE N.st]
         /\ wire' = [wire EXCEPT ![Peer(n)] = Tail(@), ![n] = IF lost THEN @ ELSE @ \o N.out]
         /\ awake' = IF lost /\ N.out # <<>> THEN awake \cup {n} ELSE awake
    /\ stuck' \in {IF r = "deadlock" THEN stuck \cup {n} ELSE stuck : r \in Relock}
    /\ UNCHANGED <<lost, seenEof, created>>

\* The connection is lost: each side may still receive a part of what was sent.
Lose ==
    /\ ~lost
    /\ lost' = TRUE
    /\ \E k \in [Sides -> 0..MaxNew * 4] :
         /\ \A n \in Sides : k[n] <= Len(wire[n])
         /\ wire' = [n \in Sides |-> SubSeq(wire[n], 1, k[n])]
    /\ UNCHANGED <<st, seenEof, awake, stuck, created>>

\* ioq_read meets the error, or is woken after it: what is queued is drained and
\* all transactions of the iocom fail.
Eof(n) ==
    /\ Runs(n) /\ lost /\ wire[Peer(n)] = <<>> /\ (n \notin seenEof \/ n \in awake)
    /\ \E lazy \in Lazy(n) :
         LET N == SimulateAll(Now(n), n, Root, lazy) IN
         /\ st' = [st EXCEPT ![n] = IF N.bad THEN Root :> "assert" ELSE N.st]
         /\ awake' = IF N.out = <<>> THEN awake \ {n} ELSE awake \cup {n}
    /\ seenEof' = seenEof \cup {n}
    /\ stuck' \in {IF r = "deadlock" THEN stuck \cup {n} ELSE stuck : r \in Relock}
    /\ UNCHANGED <<wire, lost, created>>

Names == Sides \X Numbers
TransNext ==
    \E n \in Sides :
        \/ \E t \in Names : \E p \in Names \cup {Root} : Create(n, t, p)
        \/ \E t \in Names, del \in BOOLEAN : Reply(n, t, del)
        \/ Receive(n) \/ Eof(n) \/ Lose

TransSpec == TransInit /\ [][TransNext]_transVars

-----------------------------------------------------------------------------
Live(n, t) == ~Crashed(n) /\ t \in DOMAIN st[n] /\ st[n][t].rb

\* No assertion of msg.c fails: no message meets a transaction that its side
\* does not know, no DELETE comes twice, no state is freed while it is in a tree
\* or has sub-states, however closes, the failure and reused ids cross.
AssertsHold == \A n \in Sides : ~Crashed(n)

\* A state in a tree, on a subq, or with sub-states is referenced for each.
RefsSuffice ==
    \A n \in Sides : ~Crashed(n) => \A t \in DOMAIN st[n] :
        LET s == st[n][t] IN
        s.refs >= (IF s.rb THEN 1 ELSE 0) + (IF s.sub THEN 1 ELSE 0)
                  + (IF Subs(Now(n), t) # {} THEN 1 ELSE 0)

\* While the connection is up and nothing is on the way, the sides agree on
\* every transaction: what one has sent, the other has received.
SidesAgree ==
    (~lost /\ \A n \in Sides : wire[n] = <<>> /\ ~Crashed(n)) =>
        \A n \in Sides, t \in Names :
            /\ Live(n, t) <=> Live(Peer(n), t)
            /\ Live(n, t) => st[n][t].tx = st[Peer(n)][t].rx

\* Once a side has met the failure no transaction of it waits for its peer: what
\* is still open waits for the answer of its own application only, also when it
\* was created after the failure.
OnlyOwnAnswers ==
    \A n \in seenEof \ awake, t \in Names :
        Live(n, t) => "D" \in st[n][t].rx /\ "D" \notin st[n][t].tx

\* No I/O thread waits for a mutex that it holds itself.
NeverStuck == stuck = {}

\* Transactions end in the order that the assertions of msg.c ask for, and no
\* state is freed while something refers to it.
TransSafe == AssertsHold /\ RefsSuffice

\* Both sides hold the same view of every transaction when nothing is on the
\* way, and after a failure a side waits for nothing that its peer would have
\* to send.
TransAgree == SidesAgree /\ OnlyOwnAnswers
=============================================================================
