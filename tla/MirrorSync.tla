----------------------------- MODULE MirrorSync -----------------------------
(***************************************************************************)
(* What mirroring promises, with no processes and no link: a source that   *)
(* commits transactions one after the other, a target that receives        *)
(* records of the source in any order and any number of times, and a       *)
(* synchronization point of the target, sync_end_tid, that is published    *)
(* only for a TID up to which the target lacks nothing.                    *)
(***************************************************************************)
EXTENDS Integers

CONSTANT FirstTid     \* sync_beg_tid of a new PFS

VARIABLES src, srcEnd, tgt, tgtEnd

syncVars == <<src, srcEnd, tgt, tgtEnd>>

SyncInit ==
    /\ src = {} /\ srcEnd = FirstTid
    /\ tgt = {} /\ tgtEnd \in {0, FirstTid}

\* The target holds every record of the source up to t.
CompleteTo(t) == \A x \in src : x.tid <= t => x \in tgt

\* The source completes a flush cycle.
Commit ==
    /\ srcEnd' = srcEnd + 1
    /\ src \subseteq src'
    /\ \A x \in src' \ src : x.tid = srcEnd + 1
    /\ UNCHANGED <<tgt, tgtEnd>>

\* The target takes records of the source.
Receive ==
    /\ tgt \subseteq tgt' /\ tgt' \subseteq tgt \cup src
    /\ UNCHANGED <<src, srcEnd, tgtEnd>>

\* The target announces a new synchronization point.
Publish ==
    /\ tgtEnd' \in 0..srcEnd
    /\ CompleteTo(tgtEnd')
    /\ UNCHANGED <<src, srcEnd, tgt>>

SyncNext == Commit \/ Receive \/ Publish

SyncSpec == SyncInit /\ [][SyncNext]_syncVars
=============================================================================
