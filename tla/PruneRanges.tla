----------------------------- MODULE PruneRanges -----------------------------
(***************************************************************************)
(* What hammer prune asks of HAMMERIOC_PRUNE, as sets.  The snapshots it   *)
(* has found are the teeth of a comb: between two neighbouring ones all    *)
(* history goes, after the newest one it all stays.                        *)
(***************************************************************************)
EXTENDS Naturals

\* prune_min: the oldest snapshot younger than prune_min, and everything
\* after it, is taken out of the comb.
Kept(S, young) == {s \in S : \A y \in young : s < y}

\* The entry of the newest snapshot is removed, which keeps the history up to
\* the present.
Teeth(K) == {s \in K : \E t \in K : s < t}

IsNext(K, s, n) == s < n /\ \A k \in K : ~(s < k /\ k < n)

\* Mutant: the ranges include the transaction after their end.
RangesInclusive(K) ==
    {[beg |-> r.beg, end |-> r.end + 1] :
        r \in {q \in [beg : Teeth(K), end : K] : IsNext(K, q.beg, q.end)}}

\* One range from each tooth to the next, and one for all that is older.
Ranges(K) ==
    {r \in [beg : Teeth(K), end : K] : IsNext(K, r.beg, r.end)}
        \cup {r \in [beg : {1}, end : Teeth(K)] : \A s \in Teeth(K) : r.end <= s}

\* HAMMERIOC_PRUNE deletes a record whose life lies within a range.
Prunes(r, v) == v.del # 0 /\ r.beg <= v.cre /\ v.del <= r.end

\* The record is part of the filesystem as of transaction s.
VisibleAt(v, s) == v.cre < s /\ (v.del = 0 \/ s < v.del)
=============================================================================
