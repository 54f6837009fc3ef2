------------------------------ MODULE Softprune ------------------------------
(***************************************************************************)
(* hammer prune builds the array of ranges for HAMMERIOC_PRUNE in place:   *)
(* entries are appended with their timestamp (addentry, scanmeta, addelm), *)
(* then hammer_softprune_finalize sorts the array, drops duplicates, takes *)
(* out what prune_min protects, drops the first entry and adds a last one. *)
(* Each loop of finalize is a step of this specification, so that the      *)
(* array's bounds and the assertion on maxelms can be checked, and the     *)
(* result compared with PruneRanges.                                       *)
(***************************************************************************)
EXTENDS Integers, Sequences, PruneRanges

CONSTANTS MaxTid,      \* snapshots have TIDs 2..MaxTid
          MaxNow,      \* time(NULL) when finalize runs
          PruneMin,    \* the PFS's prune_min, 0 for none
          FirstMax,    \* the array's first size (32 in the code)
          MaxAdd       \* bound: entries added

ASSUME SoftpruneAssumption ==
    /\ MaxTid \in Nat /\ MaxNow \in Nat /\ PruneMin \in Nat /\ MaxAdd \in Nat
    /\ FirstMax \in Nat \ {0, 1}

HAMMER_MAX_TID == MaxTid + 1

VARIABLES elms,      \* the array's nelms entries, [beg, end, mod]
          maxelms,   \* its allocated size
          i,         \* the index of finalize's loop
          scanned,   \* history: the <<tid, timestamp>> pairs added
          pc
vars == <<elms, maxelms, i, scanned, pc>>

Tids == 2..MaxTid
Times == 0..MaxNow

Init ==
    /\ elms = <<>> /\ maxelms = FirstMax /\ i = 0 /\ scanned = {} /\ pc = "scan"

\* realloc leaves one entry free for the terminator.
Grow(n, m) == IF n >= m - 1 THEN (m * 3) \div 2 ELSE m

\* An entry is appended with the older of its two times.
AddElm ==
    /\ pc = "scan" /\ Len(elms) < MaxAdd
    /\ \E tid \in Tids, ct, mt \in Times :
         LET t == IF ct < mt THEN ct ELSE mt IN
         /\ elms' = Append(elms, [beg |-> tid, end |-> 0, mod |-> t])
         /\ scanned' = scanned \cup {<<tid, t>>}
    /\ maxelms' = Grow(Len(elms), maxelms)
    /\ UNCHANGED <<i, pc>>

\* qsort leaves entries of the same TID in any order.
Orders(n) == {p \in [1..n -> 1..n] : \A l \in 1..n : \E k \in 1..n : p[k] = l}
Sorted(s) ==
    {t \in {[k \in 1..Len(s) |-> s[p[k]]] : p \in Orders(Len(s))} :
        \A k \in 1..Len(s) - 1 : t[k].beg >= t[k + 1].beg}

Sort ==
    /\ pc = "scan"
    /\ IF elms = <<>> THEN elms' = elms /\ pc' = "done"
       ELSE elms' \in Sorted(elms) /\ pc' = "dedup"
    /\ i' = 1
    /\ UNCHANGED <<maxelms, scanned>>

Without(s, k) == [l \in 1..Len(s) - 1 |-> IF l < k THEN s[l] ELSE s[l + 1]]

IsDup(s, k) == k > 1 /\ s[k].beg = s[k - 1].beg

\* Mutant: the index moves on past a removed duplicate.
DedupSkips ==
    /\ pc = "dedup"
    /\ IF i > Len(elms) THEN pc' = "prune_min" /\ UNCHANGED <<elms, i>>
       ELSE /\ elms' = IF IsDup(elms, i)
                       THEN Without(elms, i)
                       ELSE [elms EXCEPT ![i].end = IF i = 1 THEN HAMMER_MAX_TID
                                                    ELSE elms[i - 1].beg]
            /\ i' = i + 1 /\ UNCHANGED pc
    /\ UNCHANGED <<maxelms, scanned>>

\* One turn of the loop over the sorted entries: i is the entry looked at.
Dedup ==
    /\ pc = "dedup"
    /\ \/ /\ i > Len(elms)
          /\ pc' = "prune_min" /\ UNCHANGED <<elms, i>>
       \/ /\ i <= Len(elms) /\ IsDup(elms, i)
          /\ elms' = Without(elms, i) /\ UNCHANGED <<i, pc>>
       \/ /\ i <= Len(elms) /\ ~IsDup(elms, i)
          /\ elms' = [elms EXCEPT ![i].end = IF i = 1 THEN HAMMER_MAX_TID
                                             ELSE elms[i - 1].beg]
          /\ i' = i + 1 /\ UNCHANGED pc
    /\ UNCHANGED <<maxelms, scanned>>

IsYoung(t) == t # 0 /\ MaxNow - t < PruneMin

\* How many entries the scan from the oldest takes out.
Taken(s) ==
    LET young == {k \in 1..Len(s) : IsYoung(s[k].mod)} IN
    IF PruneMin = 0 \/ young = {} THEN 0 ELSE CHOOSE k \in young : \A l \in young : l <= k

\* What is left when the first n entries are gone.
LeftOf(s, n) == [k \in 1..Len(s) - n |-> s[n + k]]

TakeYoung ==
    /\ pc = "prune_min"
    /\ LET left == LeftOf(elms, Taken(elms)) IN
       elms' = IF left = <<>> \/ Taken(elms) = 0 THEN left
               ELSE [left EXCEPT ![1].end = HAMMER_MAX_TID]
    /\ pc' = "first"
    /\ UNCHANGED <<maxelms, i, scanned>>

\* The first entry is removed; a last one covers what is older than them all.
Finish ==
    /\ pc = "first"
    /\ LET left == IF elms = <<>> THEN <<>> ELSE Tail(elms) IN
       elms' = IF left = <<>> THEN <<>>
               ELSE Append(left, [beg |-> 1, end |-> left[Len(left)].beg, mod |-> 0])
    /\ pc' = "done"
    /\ UNCHANGED <<maxelms, i, scanned>>

Next == AddElm \/ Sort \/ Dedup \/ TakeYoung \/ Finish

Spec == Init /\ [][Next]_vars
-----------------------------------------------------------------------------
\* The array never holds more entries than it has room for, the terminator
\* included: the assertion in hammer_softprune_finalize.
FitsArray == Len(elms) <= maxelms

Snaps == {p[1] : p \in scanned}

\* The snapshots taken for young, when a duplicate keeps any one of its times.
TakenForYoung(young) ==
    /\ \A s \in young : \E p \in scanned : p[1] = s /\ PruneMin > 0 /\ IsYoung(p[2])
    /\ \A s \in Snaps \ young :
         \E p \in scanned : p[1] = s /\ ~(PruneMin > 0 /\ IsYoung(p[2]))

\* The array handed to the ioctl is in descending order and is, as a set, what
\* PruneRanges says, for some choice among the timestamps of a duplicate.
FinalizeIsRanges ==
    pc = "done" =>
        /\ \A k \in 1..Len(elms) - 1 : elms[k].beg >= elms[k + 1].end
        /\ \E young \in SUBSET Snaps :
             /\ TakenForYoung(young)
             /\ {[beg |-> elms[k].beg, end |-> elms[k].end] : k \in 1..Len(elms)} =
                  Ranges(Kept(Snaps, young))

\* "All other history is deleted": what is older than the oldest snapshot is
\* pruned whenever a snapshot is found.
OldHistoryPruned ==
    pc = "done" /\ PruneMin = 0 /\ scanned # {} =>
        \E k \in 1..Len(elms) : elms[k].beg = 1

\* hammer_softprune_addelm and hammer_softprune_finalize stay within the array
\* that they grow, and what they leave in it are the ranges of PruneRanges.
ArrayIsRanges == FitsArray /\ FinalizeIsRanges
-----------------------------------------------------------------------------
(* Why ArrayIsRanges holds: the inductive invariant. *)

SoftpruneType ==
    /\ elms \in Seq([beg : Nat, end : Nat, mod : Times])
    /\ maxelms \in Nat \ {0, 1} /\ i \in Nat /\ scanned \subseteq Tids \X Times
    /\ pc \in {"scan", "dedup", "prune_min", "first", "done"}

\* Every entry has the TID and the time of a snapshot found, and every snapshot
\* found still has an entry.
FromScan ==
    /\ \A k \in 1..Len(elms) : <<elms[k].beg, elms[k].mod>> \in scanned
    /\ \A s \in Snaps : \E k \in 1..Len(elms) : elms[k].beg = s

\* The first n entries descend, and each ends where the one before begins.
Chained(n) ==
    \A k \in 1..n :
        /\ elms[k].end = IF k = 1 THEN HAMMER_MAX_TID ELSE elms[k - 1].beg
        /\ \A l \in 1..k - 1 : elms[k].beg < elms[l].beg

SoftpruneIInv ==
    /\ SoftpruneType
    /\ Len(elms) < maxelms
    /\ pc \in {"scan", "dedup", "prune_min"} => FromScan
    /\ pc = "dedup" =>
         /\ i \in 1..Len(elms) + 1 /\ Chained(i - 1)
         /\ \A k \in 1..Len(elms) - 1 : elms[k].beg >= elms[k + 1].beg
    /\ pc \in {"prune_min", "first"} => Chained(Len(elms))
    /\ pc = "first" =>
         \E young \in SUBSET Snaps :
            /\ TakenForYoung(young)
            /\ {elms[k].beg : k \in 1..Len(elms)} = Kept(Snaps, young)
    /\ FinalizeIsRanges
=============================================================================
