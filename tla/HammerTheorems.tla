--------------------------- MODULE HammerTheorems ----------------------------
(***************************************************************************)
(* Proofs about two of the programs of hammer(8).                          *)
(*                                                                         *)
(* hammer prune (Softprune), for any number of snapshots, any timestamps   *)
(* and any prune-min time: the array handed to HAMMERIOC_PRUNE is the set  *)
(* of ranges of PruneRanges.                                               *)
(*                                                                         *)
(* The PFS commands (HammerPfs), for any number of commands, one after the *)
(* other: links lead to the PFSs made under them, and prune-min times are  *)
(* shown as they would be given.                                           *)
(***************************************************************************)
EXTENDS HammerPfs, Softprune, NaturalsInduction, WellFoundedInduction, TLAPS

-----------------------------------------------------------------------------
(* hammer prune.  The loops of hammer_softprune_finalize are the steps;    *)
(* SoftpruneIInv is what each of them keeps.                               *)

\* The entries of the array.
Entry == [beg : Nat, end : Nat, mod : Times]

\* What is known of the length and the entries of the array.
LEMMA ArrayFacts ==
    ASSUME NEW s \in Seq(Entry)
    PROVE  /\ Len(s) \in Nat /\ (s = <<>> <=> Len(s) = 0)
           /\ \A k \in 1..Len(s) : /\ s[k] \in Entry /\ s[k].beg \in Nat
                                   /\ s[k].end \in Nat /\ s[k].mod \in Times
<1>1. \A k \in 1..Len(s) : s[k] \in Entry
  OBVIOUS
<1>2. Len(s) \in Nat /\ (s = <<>> <=> Len(s) = 0)
  OBVIOUS
<1> QED BY <1>1, <1>2 DEF Entry

\* The invariant names the entries' type in full.
LEMMA ArrayType == SoftpruneType => elms \in Seq(Entry)
  BY DEF SoftpruneType, Entry

\* An array that is given entry by entry.
LEMMA MadeFacts ==
    ASSUME NEW n \in Nat, NEW s \in [1..n -> Entry]
    PROVE  s \in Seq(Entry) /\ Len(s) = n
  OBVIOUS

\* The array with one entry more.
LEMMA AppendedFacts ==
    ASSUME NEW s \in Seq(Entry), NEW e \in Entry
    PROVE  /\ Append(s, e) \in Seq(Entry) /\ Len(Append(s, e)) = Len(s) + 1
           /\ \A k \in 1..Len(s) : Append(s, e)[k] = s[k]
           /\ Append(s, e)[Len(s) + 1] = e
  OBVIOUS

\* The array with one entry changed.
LEMMA ChangedFacts ==
    ASSUME NEW s \in Seq(Entry), NEW k \in 1..Len(s), NEW e \in Entry,
           NEW t, t = [s EXCEPT ![k] = e]
    PROVE  /\ t \in Seq(Entry) /\ Len(t) = Len(s)
           /\ \A l \in 1..Len(s) : t[l] = IF l = k THEN e ELSE s[l]
<1>1. Len(s) \in Nat /\ s \in [1..Len(s) -> Entry]
  OBVIOUS
<1>2. t \in [1..Len(s) -> Entry] /\ \A l \in 1..Len(s) : t[l] = IF l = k THEN e ELSE s[l]
  BY <1>1
<1>3. t \in Seq(Entry) /\ Len(t) = Len(s)
  BY <1>1, <1>2, MadeFacts
<1> QED BY <1>2, <1>3

\* The array without its first entry.
LEMMA TailFacts ==
    ASSUME NEW s \in Seq(Entry), s # <<>>
    PROVE  /\ Tail(s) \in Seq(Entry) /\ Len(Tail(s)) = Len(s) - 1
           /\ \A k \in 1..Len(s) - 1 : Tail(s)[k] = s[k + 1]
<1>1. Len(s) \in Nat \ {0}
  OBVIOUS
<1>2. Tail(s) \in Seq(Entry) /\ Len(Tail(s)) = Len(s) - 1
  BY <1>1
<1>3. \A k \in 1..Len(s) - 1 : Tail(s)[k] = s[k + 1]
  BY <1>1
<1> QED BY <1>2, <1>3

\* The loop that removes entry k moves the later ones down.
LEMMA WithoutFacts ==
    ASSUME NEW s \in Seq(Entry), NEW k \in 1..Len(s)
    PROVE  /\ Without(s, k) \in Seq(Entry) /\ Len(Without(s, k)) = Len(s) - 1
           /\ \A l \in 1..Len(s) - 1 :
                Without(s, k)[l] = IF l < k THEN s[l] ELSE s[l + 1]
<1> DEFINE t == Without(s, k)
<1>1. Len(s) \in Nat /\ Len(s) - 1 \in Nat /\ \A l \in 1..Len(s) : s[l] \in Entry
  BY ArrayFacts
<1>2. \A l \in 1..Len(s) - 1 : l \in 1..Len(s) /\ l + 1 \in 1..Len(s)
  BY <1>1
<1>3. /\ t \in [1..Len(s) - 1 -> Entry]
      /\ \A l \in 1..Len(s) - 1 : t[l] = IF l < k THEN s[l] ELSE s[l + 1]
  BY <1>1, <1>2 DEF Without
<1> HIDE DEF t
<1>4. t \in Seq(Entry) /\ Len(t) = Len(s) - 1
  BY <1>1, <1>3, MadeFacts
<1> QED BY <1>3, <1>4 DEF t

\* Sorting keeps the number of entries, what they are, and puts them in
\* descending order.
LEMMA SortedFacts ==
    ASSUME NEW s \in Seq(Entry), NEW t \in Sorted(s)
    PROVE  /\ t \in Seq(Entry) /\ Len(t) = Len(s)
           /\ \A k \in 1..Len(s) : \E l \in 1..Len(s) : t[k] = s[l]
           /\ \A k \in 1..Len(s) : \E l \in 1..Len(s) : t[l] = s[k]
           /\ \A k \in 1..Len(s) - 1 : t[k].beg >= t[k + 1].beg
<1> DEFINE n == Len(s)
<1>1. n \in Nat /\ \A k \in 1..n : s[k] \in Entry
  BY ArrayFacts
<1>2. PICK p \in Orders(n) : t = [k \in 1..n |-> s[p[k]]]
  BY Zenon DEF Sorted
<1>3. p \in [1..n -> 1..n] /\ \A l \in 1..n : \E k \in 1..n : p[k] = l
  BY <1>2, Zenon DEF Orders
<1>4. \A k \in 1..n - 1 : t[k].beg >= t[k + 1].beg
  BY Zenon DEF Sorted
<1> HIDE DEF n
<1>5. t \in [1..n -> Entry] /\ \A k \in 1..n : t[k] = s[p[k]] /\ p[k] \in 1..n
  BY <1>1, <1>2, <1>3, Zenon
<1>6. t \in Seq(Entry) /\ Len(t) = n
  BY <1>1, <1>5, MadeFacts
<1>7. \A k \in 1..n : \E l \in 1..n : t[k] = s[l]
  BY <1>5
<1>8. ASSUME NEW k \in 1..n
      PROVE  \E l \in 1..n : t[l] = s[k]
  <2>1. PICK l \in 1..n : p[l] = k
    BY <1>3, Zenon
  <2>2. t[l] = s[k]
    BY <1>5, <2>1
  <2> QED BY <2>2, Zenon
<1> QED BY Zenon, <1>4, <1>6, <1>7, <1>8 DEF n

-----------------------------------------------------------------------------
(* What every step keeps. *)

\* The search for snapshots begins with an empty array.
LEMMA SoftpruneInitial == Init => SoftpruneIInv
<1> SUFFICES ASSUME Init PROVE SoftpruneIInv
  OBVIOUS
<1>1. elms = <<>> /\ maxelms = FirstMax /\ i = 0 /\ scanned = {} /\ pc = "scan"
  BY DEF Init
<1>2. elms \in Seq([beg : Nat, end : Nat, mod : Times]) /\ Len(elms) = 0
  BY <1>1
<1>3. SoftpruneType /\ Len(elms) < maxelms
  BY <1>1, <1>2, SoftpruneAssumption DEF SoftpruneType
<1>4. FromScan
  BY <1>1, <1>2 DEF FromScan, Snaps
<1> QED BY <1>1, <1>3, <1>4 DEF SoftpruneIInv, FinalizeIsRanges

\* hammer_softprune_addelm grows the array before it is full.
LEMMA GrowFacts ==
    ASSUME NEW n \in Nat, NEW m \in Nat \ {0, 1}, n < m
    PROVE  Grow(n, m) \in Nat \ {0, 1} /\ n + 1 < Grow(n, m)
<1> DEFINE g == (m * 3) \div 2
<1>1. g \in Nat /\ 2 * g >= m * 3 - 1
  BY SMT
<1> HIDE DEF g
<1>2. g >= m + 1
  BY <1>1
<1> QED BY <1>2, <1>1 DEF Grow, g

\* An entry is added for a snapshot that is found.
LEMMA AddElmInv == ASSUME SoftpruneIInv, AddElm PROVE SoftpruneIInv'
<1>1. SoftpruneType /\ FromScan /\ Len(elms) < maxelms /\ pc = "scan" /\ pc' = "scan"
      /\ i' = i /\ elms \in Seq(Entry)
  BY ArrayType DEF SoftpruneIInv, AddElm
<1>2. PICK s \in Tids, t \in Times :
        /\ elms' = Append(elms, [beg |-> s, end |-> 0, mod |-> t])
        /\ scanned' = scanned \cup {<<s, t>>}
  <2>1. PICK s \in Tids, ct \in Times, mt \in Times :
          LET t == IF ct < mt THEN ct ELSE mt IN
          /\ elms' = Append(elms, [beg |-> s, end |-> 0, mod |-> t])
          /\ scanned' = scanned \cup {<<s, t>>}
    BY DEF AddElm
  <2> QED BY <2>1
<1> DEFINE e == [beg |-> s, end |-> 0, mod |-> t]
<1>3. e \in Entry /\ e.beg = s /\ e.mod = t
  BY SoftpruneAssumption DEF Entry, Tids
<1>4. elms' = Append(elms, e)
  BY <1>2
<1> HIDE DEF e
<1>5. /\ elms' \in Seq(Entry) /\ Len(elms') = Len(elms) + 1
      /\ \A k \in 1..Len(elms) : elms'[k] = elms[k]
      /\ elms'[Len(elms) + 1] = e /\ Len(elms) \in Nat
  BY <1>1, <1>3, <1>4, AppendedFacts, ArrayFacts, Zenon
<1>6. maxelms' \in Nat \ {0, 1} /\ Len(elms') < maxelms'
  <2>1. maxelms' = Grow(Len(elms), maxelms) /\ maxelms \in Nat \ {0, 1}
    BY <1>1 DEF AddElm, SoftpruneType
  <2> QED BY <1>1, <1>5, <2>1, GrowFacts
<1>7. SoftpruneType'
  BY <1>1, <1>2, <1>5, <1>6 DEF SoftpruneType, Entry
<1>8. FromScan'
  <2>1. ASSUME NEW k \in 1..Len(elms') PROVE <<elms'[k].beg, elms'[k].mod>> \in scanned'
    <3>1. CASE k \in 1..Len(elms)
      BY <1>1, <1>2, <1>5, <3>1 DEF FromScan
    <3>2. CASE k = Len(elms) + 1
      BY <1>2, <1>3, <1>5, <3>2
    <3> QED BY <1>5, <3>1, <3>2
  <2>2. ASSUME NEW q \in Snaps' PROVE \E k \in 1..Len(elms') : elms'[k].beg = q
    <3>1. q \in Snaps \/ q = s
      BY <1>2 DEF Snaps
    <3>2. CASE q \in Snaps
      <4>1. PICK k \in 1..Len(elms) : elms[k].beg = q
        BY <1>1, <3>2 DEF FromScan
      <4> QED BY <1>5, <4>1
    <3>3. CASE q = s
      <4>1. Len(elms) + 1 \in 1..Len(elms') /\ elms'[Len(elms) + 1].beg = q
        BY <1>3, <1>5, <3>3
      <4> QED BY <4>1
    <3> QED BY <3>1, <3>2, <3>3
  <2> QED BY <2>1, <2>2 DEF FromScan
<1> QED BY <1>1, <1>6, <1>7, <1>8 DEF SoftpruneIInv, FinalizeIsRanges

\* Sorting an array that is not empty leaves it with the same snapshots; with
\* no snapshot there is nothing to prune.
LEMMA SortInv == ASSUME SoftpruneIInv, Sort PROVE SoftpruneIInv'
<1>1. /\ SoftpruneType /\ FromScan /\ Len(elms) < maxelms /\ elms \in Seq(Entry)
      /\ i' = 1 /\ maxelms' = maxelms /\ scanned' = scanned
  BY ArrayType DEF SoftpruneIInv, Sort
<1>2. Snaps' = Snaps
  BY <1>1 DEF Snaps
<1>3. CASE elms = <<>>
  <2>1. elms' = elms /\ pc' = "done" /\ Len(elms) = 0
    BY <1>1, <1>3, ArrayFacts DEF Sort
  <2>2. SoftpruneType'
    BY <1>1, <2>1 DEF SoftpruneType
  <2>3. Snaps' = {}
    BY <1>1, <1>2, <2>1 DEF FromScan
  <2>4. FinalizeIsRanges'
    <3>1. TakenForYoung({})'
      BY <2>3 DEF TakenForYoung
    <3>2. Ranges(Kept(Snaps', {})) = {}
      BY <2>3 DEF Ranges, Kept, Teeth
    <3>3. {[beg |-> elms'[k].beg, end |-> elms'[k].end] : k \in 1..Len(elms')} = {}
      BY <2>1
    <3>4. \A k \in 1..Len(elms') - 1 : elms'[k].beg >= elms'[k + 1].end
      BY <2>1
    <3> QED BY <3>1, <3>2, <3>3, <3>4 DEF FinalizeIsRanges
  <2> QED BY <1>1, <2>1, <2>2, <2>4 DEF SoftpruneIInv
<1>4. CASE elms # <<>>
  <2>1. elms' \in Sorted(elms) /\ pc' = "dedup"
    BY <1>4 DEF Sort
  <2>2. /\ elms' \in Seq(Entry) /\ Len(elms') = Len(elms) /\ Len(elms) \in Nat
        /\ \A k \in 1..Len(elms) : \E l \in 1..Len(elms) : elms'[k] = elms[l]
        /\ \A k \in 1..Len(elms) : \E l \in 1..Len(elms) : elms'[l] = elms[k]
        /\ \A k \in 1..Len(elms) - 1 : elms'[k].beg >= elms'[k + 1].beg
    BY <1>1, <2>1, SortedFacts, ArrayFacts, Zenon
  <2>3. SoftpruneType'
    BY <1>1, <2>1, <2>2 DEF SoftpruneType, Entry
  <2>4. FromScan'
    <3>1. ASSUME NEW k \in 1..Len(elms') PROVE <<elms'[k].beg, elms'[k].mod>> \in scanned'
      BY <1>1, <2>2, Zenon DEF FromScan
    <3>2. ASSUME NEW q \in Snaps' PROVE \E k \in 1..Len(elms') : elms'[k].beg = q
      <4>1. PICK k \in 1..Len(elms) : elms[k].beg = q
        BY <1>1, <1>2 DEF FromScan
      <4>2. PICK l \in 1..Len(elms) : elms'[l] = elms[k]
        BY <2>2
      <4> QED BY <2>2, <4>1, <4>2, Zenon
    <3> QED BY <3>1, <3>2 DEF FromScan
  <2>5. Chained(i - 1)' /\ i' \in 1..Len(elms') + 1
    BY <1>1, <2>2 DEF Chained
  <2> QED BY <1>1, <2>1, <2>2, <2>3, <2>4, <2>5 DEF SoftpruneIInv, FinalizeIsRanges
<1> QED BY <1>3, <1>4

\* One turn of the loop that removes duplicates and chains the entries.
LEMMA DedupInv == ASSUME SoftpruneIInv, Dedup PROVE SoftpruneIInv'
<1>1. /\ SoftpruneType /\ FromScan /\ Len(elms) < maxelms /\ elms \in Seq(Entry)
      /\ maxelms' = maxelms /\ scanned' = scanned /\ pc = "dedup"
      /\ i \in 1..Len(elms) + 1 /\ Chained(i - 1)
      /\ \A k \in 1..Len(elms) - 1 : elms[k].beg >= elms[k + 1].beg
  BY ArrayType DEF SoftpruneIInv, Dedup
<1>2. /\ Len(elms) \in Nat /\ maxelms \in Nat /\ i \in Nat /\ 1 <= i /\ Snaps' = Snaps
      /\ \A k \in 1..Len(elms) : elms[k] \in Entry /\ elms[k].beg \in Nat
  BY <1>1, ArrayFacts DEF Snaps, SoftpruneType
<1>3. CASE i > Len(elms) /\ pc' = "prune_min" /\ UNCHANGED <<elms, i>>
  <2>1. i - 1 = Len(elms)
    BY <1>1, <1>2, <1>3
  <2>2. Chained(Len(elms))' /\ FromScan' /\ SoftpruneType'
    BY <1>1, <1>2, <1>3, <2>1, Zenon DEF Chained, FromScan, SoftpruneType
  <2> QED BY <1>1, <1>3, <2>2 DEF SoftpruneIInv, FinalizeIsRanges
<1>4. CASE i <= Len(elms) /\ IsDup(elms, i) /\ elms' = Without(elms, i)
           /\ UNCHANGED <<i, pc>>
  <2>1. i \in 1..Len(elms) /\ i > 1 /\ elms[i].beg = elms[i - 1].beg
    BY <1>1, <1>4 DEF IsDup
  <2>2. /\ elms' \in Seq(Entry) /\ Len(elms') = Len(elms) - 1
        /\ \A l \in 1..Len(elms) - 1 : elms'[l] = IF l < i THEN elms[l] ELSE elms[l + 1]
    BY <1>1, <1>4, <2>1, WithoutFacts, Zenon
  <2>3. SoftpruneType' /\ Len(elms') < maxelms' /\ i' \in 1..Len(elms') + 1
    <3>1. SoftpruneType'
      BY <1>1, <1>4, <2>2 DEF SoftpruneType, Entry
    <3>2. Len(elms') < maxelms' /\ i' \in 1..Len(elms') + 1
      BY <1>1, <1>2, <1>4, <2>1, <2>2
    <3> QED BY <3>1, <3>2
  <2>4. \A l \in 1..i - 1 : l \in 1..Len(elms) - 1 /\ elms'[l] = elms[l]
    <3>1. \A l \in 1..i - 1 : l \in 1..Len(elms) - 1 /\ l < i
      BY <1>2, <2>1
    <3> QED BY <2>2, <3>1, Zenon
  <2>5. Chained(i - 1)'
    <3> SUFFICES ASSUME NEW k \in 1..i - 1
                 PROVE  /\ elms'[k].end = IF k = 1 THEN HAMMER_MAX_TID
                                          ELSE elms'[k - 1].beg
                        /\ \A l \in 1..k - 1 : elms'[k].beg < elms'[l].beg
      BY <1>4 DEF Chained
    <3>1. elms'[k] = elms[k] /\ \A l \in 1..k - 1 : elms'[l] = elms[l]
      BY <1>2, <2>4
    <3>2. k # 1 => elms'[k - 1] = elms[k - 1]
      BY <1>2, <3>1
    <3> QED BY <1>1, <3>1, <3>2, Zenon DEF Chained
  <2>6. ASSUME NEW k \in 1..Len(elms') - 1 PROVE elms'[k].beg >= elms'[k + 1].beg
    <3>1. /\ k \in 1..Len(elms) - 1 /\ k + 1 \in 1..Len(elms) - 1 /\ k + 1 + 1 \in 1..Len(elms)
          /\ k \in 1..Len(elms)
      BY <1>2, <2>2
    <3>2. elms[k].beg >= elms[k + 1].beg /\ elms[k + 1].beg >= elms[k + 1 + 1].beg
      BY <1>1, <3>1
    <3>3. CASE k + 1 < i
      <4>1. elms'[k] = elms[k] /\ elms'[k + 1] = elms[k + 1]
        <5>1. k < i
          BY <1>2, <3>3
        <5> QED BY <2>2, <3>1, <3>3, <5>1
      <4> QED BY <3>2, <4>1
    <3>4. CASE k + 1 = i
      <4>1. elms'[k] = elms[k] /\ elms'[k + 1] = elms[k + 1 + 1]
        BY <2>2, <3>1, <3>4
      <4> QED BY <1>2, <3>1, <3>2, <4>1
    <3>5. CASE k + 1 > i
      <4>1. elms'[k] = elms[k + 1] /\ elms'[k + 1] = elms[k + 1 + 1]
        <5>1. ~(k < i) /\ ~(k + 1 < i)
          BY <1>2, <3>1, <3>5
        <5> QED BY <2>2, <3>1, <5>1
      <4> QED BY <3>2, <4>1
    <3> QED BY <1>2, <3>3, <3>4, <3>5
  <2>7. FromScan'
    <3>1. ASSUME NEW k \in 1..Len(elms') PROVE <<elms'[k].beg, elms'[k].mod>> \in scanned'
      <4>1. k \in 1..Len(elms) - 1 /\ k \in 1..Len(elms) /\ k + 1 \in 1..Len(elms)
        <5> DEFINE n == Len(elms)
        <5>1. n \in Nat /\ k \in 1..n - 1
          BY <1>2, <2>2
        <5> HIDE DEF n
        <5>2. k \in 1..n /\ k + 1 \in 1..n
          BY <5>1
        <5> QED BY <5>1, <5>2 DEF n
      <4>2. elms'[k] = elms[k] \/ elms'[k] = elms[k + 1]
        BY <2>2, <4>1
      <4> QED BY <1>1, <4>1, <4>2 DEF FromScan
    <3>2. ASSUME NEW q \in Snaps' PROVE \E k \in 1..Len(elms') : elms'[k].beg = q
      <4>1. PICK k \in 1..Len(elms) : elms[k].beg = q
        BY <1>1, <1>2 DEF FromScan
      <4>2. CASE k < i
        <5>1. k \in 1..Len(elms) - 1 /\ k \in 1..Len(elms')
          BY <1>2, <2>1, <2>2, <4>2
        <5>2. elms'[k] = elms[k]
          BY <2>2, <4>2, <5>1
        <5> QED BY <4>1, <5>1, <5>2
      <4>3. CASE k = i
        <5>1. i - 1 \in 1..Len(elms') /\ elms'[i - 1] = elms[i - 1]
          BY <1>2, <2>1, <2>2
        <5> QED BY <2>1, <4>1, <4>3, <5>1
      <4>4. CASE k > i
        <5>1. k - 1 \in 1..Len(elms') /\ elms'[k - 1] = elms[k]
          <6>1. k - 1 \in 1..Len(elms) - 1 /\ ~(k - 1 < i) /\ k - 1 + 1 = k
            BY <1>2, <2>1, <4>4
          <6> QED BY <2>2, <6>1
        <5> QED BY <4>1, <5>1
      <4> QED BY <1>2, <4>2, <4>3, <4>4
    <3> QED BY <3>1, <3>2 DEF FromScan
  <2> QED BY <1>1, <1>4, <2>3, <2>5, <2>6, <2>7 DEF SoftpruneIInv, FinalizeIsRanges
<1>5. CASE /\ i <= Len(elms) /\ ~IsDup(elms, i)
           /\ elms' = [elms EXCEPT ![i].end = IF i = 1 THEN HAMMER_MAX_TID
                                              ELSE elms[i - 1].beg]
           /\ i' = i + 1 /\ UNCHANGED pc
  <2> DEFINE v == IF i = 1 THEN HAMMER_MAX_TID ELSE elms[i - 1].beg
             e == [elms[i] EXCEPT !.end = v]
  <2>1. i \in 1..Len(elms) /\ elms[i] \in Entry
    BY <1>1, <1>2, <1>5
  <2>2. v \in Nat
    <3>1. i # 1 => i - 1 \in 1..Len(elms)
      BY <1>2, <2>1
    <3> QED BY <1>2, <3>1, SoftpruneAssumption DEF HAMMER_MAX_TID
  <2>3. elms' = [elms EXCEPT ![i] = e]
    BY <1>5
  <2> HIDE DEF v
  <2>4. e \in Entry /\ e.beg = elms[i].beg /\ e.mod = elms[i].mod /\ e.end = v
    BY <2>1, <2>2 DEF Entry
  <2> HIDE DEF e
  <2>5. /\ elms' \in Seq(Entry) /\ Len(elms') = Len(elms)
        /\ \A k \in 1..Len(elms) : elms'[k] = IF k = i THEN e ELSE elms[k]
    BY <1>1, <2>1, <2>3, <2>4, ChangedFacts
  <2>6. \A k \in 1..Len(elms) : /\ elms'[k].beg = elms[k].beg /\ elms'[k].mod = elms[k].mod
                                /\ k # i => elms'[k] = elms[k]
                                /\ k = i => elms'[k].end = v
    BY <2>4, <2>5
  <2>7. SoftpruneType' /\ Len(elms') < maxelms' /\ i' \in 1..Len(elms') + 1
    <3>1. i' \in Nat /\ pc' = pc
      BY <1>2, <1>5
    <3>2. SoftpruneType'
      BY <1>1, <2>5, <3>1, Zenon DEF SoftpruneType, Entry
    <3>3. Len(elms') = Len(elms) /\ maxelms' = maxelms /\ i' = i + 1 /\ i <= Len(elms)
      BY <1>1, <1>5, <2>5, Zenon
    <3>4. Len(elms') < maxelms' /\ i' \in 1..Len(elms') + 1
      BY <1>1, <1>2, <3>3
    <3> QED BY <3>2, <3>4
  <2>8. FromScan'
    BY <1>1, <1>2, <2>5, <2>6 DEF FromScan
  <2>9. ASSUME NEW k \in 1..Len(elms') - 1 PROVE elms'[k].beg >= elms'[k + 1].beg
    <3>1. k \in 1..Len(elms) - 1 /\ k \in 1..Len(elms) /\ k + 1 \in 1..Len(elms)
      BY <1>2, <2>5
    <3>2. elms[k].beg >= elms[k + 1].beg
      BY <1>1, <3>1
    <3> QED BY <2>6, <3>1, <3>2
  <2>10. ASSUME NEW k \in 1..i
         PROVE  /\ elms'[k].end = IF k = 1 THEN HAMMER_MAX_TID ELSE elms'[k - 1].beg
                /\ \A l \in 1..k - 1 : elms'[k].beg < elms'[l].beg
    <3>1. k \in 1..Len(elms) /\ \A l \in 1..k - 1 : l \in 1..Len(elms) /\ l # i
      BY <1>2, <2>1
    <3>2. k # 1 => k - 1 \in 1..Len(elms)
      BY <1>2, <2>1
    <3>3. CASE k # i
      <4>1. k \in 1..i - 1
        BY <1>2, <3>3
      <4>2. /\ elms[k].end = IF k = 1 THEN HAMMER_MAX_TID ELSE elms[k - 1].beg
            /\ \A l \in 1..k - 1 : elms[k].beg < elms[l].beg
        BY <1>1, <4>1 DEF Chained
      <4>3. elms'[k] = elms[k] /\ (k # 1 => elms'[k - 1].beg = elms[k - 1].beg)
        BY <2>6, <3>1, <3>2, <3>3
      <4> QED BY <2>6, <3>1, <4>2, <4>3
    <3>4. CASE k = i
      <4>1. elms'[k].end = IF k = 1 THEN HAMMER_MAX_TID ELSE elms'[k - 1].beg
        BY <2>6, <3>1, <3>2, <3>4 DEF v
      <4>2. ASSUME NEW l \in 1..k - 1 PROVE elms[k].beg < elms[l].beg
        <5>1. i - 1 \in 1..Len(elms) - 1 /\ i - 1 + 1 = i /\ i > 1 /\ i - 1 \in 1..i - 1
          BY <1>2, <2>1, <3>4
        <5>2. elms[i - 1].beg >= elms[i].beg
          BY <1>1, <5>1
        <5>3. elms[i].beg < elms[i - 1].beg
          <6>1. elms[i].beg # elms[i - 1].beg
            BY <1>5, <5>1 DEF IsDup
          <6>2. elms[i].beg \in Nat /\ elms[i - 1].beg \in Nat
            <7>1. i - 1 \in 1..Len(elms)
              BY <1>2, <5>1
            <7> QED BY <1>2, <2>1, <7>1
          <6> QED BY <5>2, <6>1, <6>2
        <5>4. l # i - 1 => l \in 1..(i - 1) - 1
          BY <1>2, <3>4
        <5>5. l # i - 1 => elms[i - 1].beg < elms[l].beg
          BY <1>1, <5>1, <5>4 DEF Chained
        <5>6. l \in 1..Len(elms)
          BY <3>1
        <5> QED BY <1>2, <2>1, <3>4, <5>1, <5>3, <5>5, <5>6
      <4> QED BY <2>6, <3>1, <4>1, <4>2
    <3> QED BY <3>3, <3>4
  <2>11. Chained(i - 1)'
    BY <1>2, <1>5, <2>10 DEF Chained
  <2> QED BY <1>1, <1>5, <2>7, <2>8, <2>9, <2>11 DEF SoftpruneIInv, FinalizeIsRanges
<1> QED BY <1>3, <1>4, <1>5 DEF Dedup

-----------------------------------------------------------------------------
(* The youngest entries that prune-min takes out. *)

\* The order of the natural numbers, as a relation.
Less == {p \in Nat \X Nat : p[1] < p[2]}

\* It is well-founded.
LEMMA LessWellFounded == IsWellFoundedOn(Less, Nat)
<1>1. OpToRel(<, Nat) = Less
  BY DEF OpToRel, Less
<1> QED BY <1>1, NatLessThanWellFounded, Zenon

\* Some indices below n + 1 have a last one.
LEMMA LastIndex ==
    ASSUME NEW n \in Nat, NEW Y \in SUBSET (1..n), Y # {}
    PROVE  \E k \in Y : \A l \in Y : l <= k
<1> DEFINE T == {n - k : k \in Y}
<1>1. T \subseteq Nat /\ T # {}
  <2>1. \A k \in Y : n - k \in Nat
    OBVIOUS
  <2>2. PICK k : k \in Y
    OBVIOUS
  <2> QED BY <2>1, <2>2
<1> HIDE DEF T
<1>2. PICK x \in T : \A y \in T : ~(<<y, x>> \in Less)
  BY <1>1, LessWellFounded, WFMin, Zenon
<1>3. ASSUME NEW y \in T PROVE x <= y
  <2>1. x \in Nat /\ y \in Nat /\ <<y, x>> \notin Less
    BY <1>1, <1>2
  <2>2. \A a, b \in Nat : a < b => <<a, b>> \in Less
    BY DEF Less
  <2> QED BY <2>1, <2>2
<1>4. PICK k \in Y : x = n - k
  BY DEF T
<1>5. ASSUME NEW l \in Y PROVE l <= k
  <2>1. n - l \in T
    BY DEF T
  <2>2. n - k <= n - l /\ k \in Nat /\ l \in Nat
    BY <1>3, <1>4, <2>1
  <2> QED BY <2>2
<1> QED BY <1>5

\* What the scan for entries younger than prune-min takes out ends with the
\* oldest of them.
LEMMA TakenFacts ==
    ASSUME NEW s \in Seq(Entry)
    PROVE  /\ Taken(s) \in 0..Len(s)
           /\ PruneMin # 0 => \A k \in 1..Len(s) : IsYoung(s[k].mod) => k <= Taken(s)
           /\ Taken(s) # 0 => PruneMin # 0 /\ IsYoung(s[Taken(s)].mod)
<1> DEFINE young == {k \in 1..Len(s) : IsYoung(s[k].mod)}
<1>1. Len(s) \in Nat
  BY ArrayFacts
<1>2. CASE PruneMin = 0 \/ young = {}
  <2>1. Taken(s) = 0
    BY <1>2 DEF Taken
  <2> QED BY <1>1, <1>2, <2>1
<1>3. CASE ~(PruneMin = 0 \/ young = {})
  <2>1. Taken(s) = CHOOSE k \in young : \A l \in young : l <= k
    BY <1>3, Zenon DEF Taken
  <2>2. young \in SUBSET (1..Len(s)) /\ young # {}
    BY <1>3
  <2> HIDE DEF young
  <2>3. \E k \in young : \A l \in young : l <= k
    BY <1>1, <2>2, LastIndex, Zenon
  <2>4. Taken(s) \in young /\ \A l \in young : l <= Taken(s)
    BY <2>1, <2>3
  <2>5. Taken(s) \in 1..Len(s) /\ IsYoung(s[Taken(s)].mod)
    BY <2>4 DEF young
  <2>6. ASSUME NEW k \in 1..Len(s), IsYoung(s[k].mod) PROVE k <= Taken(s)
    BY <2>4, <2>6 DEF young
  <2> QED BY <1>1, <1>3, <2>5, <2>6
<1> QED BY <1>2, <1>3

\* What is left of the array when the first t entries are gone.
LEMMA LeftFacts ==
    ASSUME NEW s \in Seq(Entry), NEW t \in 0..Len(s)
    PROVE  /\ LeftOf(s, t) \in Seq(Entry) /\ Len(LeftOf(s, t)) = Len(s) - t
           /\ \A k \in 1..Len(s) - t : LeftOf(s, t)[k] = s[t + k]
<1> DEFINE b == LeftOf(s, t)
<1>1. Len(s) - t \in Nat /\ \A k \in 1..Len(s) - t : t + k \in 1..Len(s)
  BY ArrayFacts
<1>2. b \in [1..Len(s) - t -> Entry] /\ \A k \in 1..Len(s) - t : b[k] = s[t + k]
  BY <1>1, ArrayFacts DEF LeftOf
<1> HIDE DEF b
<1>3. b \in Seq(Entry) /\ Len(b) = Len(s) - t
  BY <1>1, <1>2, MadeFacts, Zenon
<1> QED BY <1>2, <1>3 DEF b

\* In a chained array later entries are older, and only those.
LEMMA ChainedOrder ==
    ASSUME elms \in Seq(Entry), Chained(Len(elms)),
           NEW k \in 1..Len(elms), NEW l \in 1..Len(elms)
    PROVE  /\ k < l <=> elms[l].beg < elms[k].beg
           /\ k = l <=> elms[k].beg = elms[l].beg
<1>1. Len(elms) \in Nat /\ elms[k].beg \in Nat /\ elms[l].beg \in Nat
  BY ArrayFacts
<1>2. k < l => elms[l].beg < elms[k].beg
  <2>1. k < l => k \in 1..l - 1
    BY <1>1
  <2> QED BY <2>1 DEF Chained
<1>3. l < k => elms[k].beg < elms[l].beg
  <2>1. l < k => l \in 1..k - 1
    BY <1>1
  <2> QED BY <2>1 DEF Chained
<1> QED BY <1>1, <1>2, <1>3

\* Taking out the young entries leaves the snapshots that Kept says.
LEMMA TakeYoungInv == ASSUME SoftpruneIInv, TakeYoung PROVE SoftpruneIInv'
<1> DEFINE n == Len(elms)
           t == Taken(elms)
           left == LeftOf(elms, t)
           Young(k) == PruneMin # 0 /\ IsYoung(elms[k].mod)
           Y == {elms[k].beg : k \in {m \in 1..n : Young(m)}}
<1>1. /\ SoftpruneType /\ FromScan /\ n < maxelms /\ elms \in Seq(Entry)
      /\ maxelms' = maxelms /\ scanned' = scanned /\ i' = i /\ pc' = "first"
      /\ Chained(n)
      /\ elms' = IF left = <<>> \/ t = 0 THEN left
                 ELSE [left EXCEPT ![1].end = HAMMER_MAX_TID]
  BY ArrayType DEF SoftpruneIInv, TakeYoung
<1>2. /\ n \in Nat /\ maxelms \in Nat /\ Snaps' = Snaps
      /\ \A k \in 1..n : elms[k] \in Entry /\ elms[k].beg \in Nat /\ elms[k].mod \in Times
  BY <1>1, ArrayFacts DEF Snaps, SoftpruneType
<1>3. /\ t \in 0..n /\ \A k \in 1..n : Young(k) => k <= t
      /\ t # 0 => Young(t)
  BY <1>1, TakenFacts
<1>4. /\ left \in Seq(Entry) /\ Len(left) = n - t
      /\ \A k \in 1..n - t : left[k] = elms[t + k]
  BY <1>1, <1>3, LeftFacts
<1> HIDE DEF left, t, Young
<1>5. \A k \in 1..n - t : t + k \in 1..n
  BY <1>2, <1>3
<1>6. \A m \in 1..n : /\ m # 1 => elms[m].end = elms[m - 1].beg
                      /\ \A l \in 1..m - 1 : elms[m].beg < elms[l].beg
  BY <1>1 DEF Chained
<1>7. /\ elms' \in Seq(Entry) /\ Len(elms') = n - t
      /\ \A k \in 1..n - t : /\ elms'[k].beg = elms[t + k].beg
                             /\ elms'[k].end = IF k = 1 THEN HAMMER_MAX_TID
                                               ELSE elms[t + k - 1].beg
  <2>1. ASSUME NEW k \in 1..n - t, t + k # 1 PROVE elms[t + k].end = elms[t + k - 1].beg
    <3> DEFINE m == t + k
    <3>1. m \in 1..n /\ m # 1
      BY <1>5, <2>1
    <3> HIDE DEF m
    <3>2. elms[m].end = elms[m - 1].beg
      BY <1>6, <3>1
    <3>3. m - 1 = t + k - 1
      BY <1>2, <1>3 DEF m
    <3> QED BY <3>2, <3>3 DEF m
  <2>2. CASE left = <<>> \/ t = 0
    <3>1. elms' = left
      BY <1>1, <2>2
    <3>2. ASSUME NEW k \in 1..n - t
          PROVE  elms[t + k].end = IF k = 1 THEN HAMMER_MAX_TID ELSE elms[t + k - 1].beg
      <4>1. t = 0
        BY <1>2, <1>3, <1>4, <2>2, ArrayFacts
      <4>2. CASE k = 1
        <5>1. t + k = 1 /\ 1 \in 1..n
          BY <1>5, <4>1, <4>2
        <5> QED BY <1>1, <4>2, <5>1 DEF Chained
      <4>3. CASE k # 1
        BY <2>1, <4>1, <4>3
      <4> QED BY <4>2, <4>3
    <3> QED BY <1>4, <3>1, <3>2
  <2>3. CASE left # <<>> /\ t # 0
    <3> DEFINE e == [left[1] EXCEPT !.end = HAMMER_MAX_TID]
    <3>1. 1 \in 1..Len(left) /\ left[1] \in Entry /\ left[1] = elms[t + 1]
      BY <1>2, <1>3, <1>4, <2>3, ArrayFacts
    <3>2. e \in Entry /\ e.beg = left[1].beg /\ e.end = HAMMER_MAX_TID
      <4>1. HAMMER_MAX_TID \in Nat
        BY SoftpruneAssumption DEF HAMMER_MAX_TID
      <4>2. e \in Entry
        BY <3>1, <4>1, Zenon DEF Entry
      <4> QED BY <3>1, <4>2 DEF Entry
    <3>3. elms' = [left EXCEPT ![1] = e]
      BY <1>1, <2>3
    <3> HIDE DEF e
    <3>4. /\ elms' \in Seq(Entry) /\ Len(elms') = Len(left)
          /\ \A k \in 1..Len(left) : elms'[k] = IF k = 1 THEN e ELSE left[k]
      BY <1>4, <3>1, <3>2, <3>3, ChangedFacts
    <3>5. ASSUME NEW k \in 1..n - t
          PROVE  /\ elms'[k].beg = elms[t + k].beg
                 /\ elms'[k].end = IF k = 1 THEN HAMMER_MAX_TID ELSE elms[t + k - 1].beg
      <4>1. CASE k = 1
        BY <1>4, <3>1, <3>2, <3>4, <4>1
      <4>2. CASE k # 1
        <5>1. elms'[k] = elms[t + k] /\ t + k # 1
          BY <1>2, <1>3, <1>4, <2>3, <3>4, <4>2
        <5> QED BY <2>1, <4>2, <5>1
      <4> QED BY <4>1, <4>2
    <3> QED BY <1>4, <3>4, <3>5
  <2> QED BY <2>2, <2>3
<1>8. Chained(Len(elms))'
  <2> SUFFICES ASSUME NEW k \in 1..n - t
               PROVE  /\ elms'[k].end = IF k = 1 THEN HAMMER_MAX_TID ELSE elms'[k - 1].beg
                      /\ \A l \in 1..k - 1 : elms'[k].beg < elms'[l].beg
    BY <1>7 DEF Chained
  <2>1. /\ t \in Nat /\ k \in Nat /\ n - t \in Int
        /\ \A l \in 1..k - 1 : l \in 1..n - t /\ t + l \in 1..t + k - 1
    BY <1>2, <1>3
  <2>2. k # 1 => k - 1 \in 1..n - t /\ t + (k - 1) = t + k - 1
    BY <2>1
  <2>3. \A l \in 1..t + k - 1 : elms[t + k].beg < elms[l].beg
    <3> DEFINE m == t + k
    <3>1. m \in 1..n
      BY <1>5
    <3> HIDE DEF m
    <3>2. \A l \in 1..m - 1 : elms[m].beg < elms[l].beg
      BY <1>6, <3>1
    <3>3. m - 1 = t + k - 1
      BY <1>2, <1>3 DEF m
    <3> QED BY <3>2, <3>3 DEF m
  <2> QED BY <1>7, <2>1, <2>2, <2>3, Zenon
<1>9. Y \in SUBSET Snaps /\ TakenForYoung(Y)
  <2>1. \A k \in 1..n : /\ <<elms[k].beg, elms[k].mod>> \in scanned /\ elms[k].beg \in Snaps
                        /\ Young(k) <=> PruneMin > 0 /\ IsYoung(elms[k].mod)
    <3>1. \A k \in 1..n : <<elms[k].beg, elms[k].mod>> \in scanned
      BY <1>1 DEF FromScan
    <3>2. \A k \in 1..n : elms[k].beg \in Snaps
      <4> SUFFICES ASSUME NEW k \in 1..n PROVE elms[k].beg \in Snaps
        OBVIOUS
      <4>1. <<elms[k].beg, elms[k].mod>>[1] = elms[k].beg
        OBVIOUS
      <4> QED BY <3>1, <4>1, Zenon DEF Snaps
    <3>3. PruneMin # 0 <=> PruneMin > 0
      BY SoftpruneAssumption
    <3> QED BY <3>1, <3>2, <3>3 DEF Young
  <2>2. ASSUME NEW q \in Y
        PROVE  q \in Snaps /\ \E p \in scanned : p[1] = q /\ PruneMin > 0 /\ IsYoung(p[2])
    <3>1. PICK k \in 1..n : Young(k) /\ elms[k].beg = q
      OBVIOUS
    <3> DEFINE p == <<elms[k].beg, elms[k].mod>>
    <3>2. p \in scanned /\ p[1] = q /\ p[2] = elms[k].mod
      BY <2>1, <3>1
    <3> HIDE DEF p
    <3> QED BY <2>1, <3>1, <3>2, Zenon
  <2>3. ASSUME NEW q \in Snaps \ Y
        PROVE  \E p \in scanned : p[1] = q /\ ~(PruneMin > 0 /\ IsYoung(p[2]))
    <3>1. PICK k \in 1..n : elms[k].beg = q
      BY <1>1 DEF FromScan
    <3>2. ~Young(k)
      BY <2>3, <3>1
    <3> DEFINE p == <<elms[k].beg, elms[k].mod>>
    <3>3. p \in scanned /\ p[1] = q /\ p[2] = elms[k].mod
      BY <2>1, <3>1
    <3> HIDE DEF p
    <3> QED BY <2>1, <3>2, <3>3, Zenon
  <2> HIDE DEF Y
  <2> QED BY <2>2, <2>3 DEF TakenForYoung
<1>10. ASSUME NEW k \in 1..n - t PROVE elms'[k].beg \in Kept(Snaps, Y)
  <2>1. t + k \in 1..n /\ elms'[k].beg = elms[t + k].beg
    BY <1>5, <1>7
  <2>2. elms[t + k].beg \in Snaps
    <3>1. <<elms[t + k].beg, elms[t + k].mod>> \in scanned
      BY <1>1, <2>1 DEF FromScan
    <3>2. <<elms[t + k].beg, elms[t + k].mod>>[1] = elms[t + k].beg
      OBVIOUS
    <3> QED BY <3>1, <3>2 DEF Snaps
  <2>3. ASSUME NEW y \in Y PROVE elms[t + k].beg < y
    <3>1. PICK m \in 1..n : Young(m) /\ elms[m].beg = y
      OBVIOUS
    <3>2. m < t + k
      BY <1>2, <1>3, <3>1
    <3> QED BY <1>1, <2>1, <3>1, <3>2, ChainedOrder
  <2> HIDE DEF Y
  <2> QED BY <2>1, <2>2, <2>3 DEF Kept
<1>11. ASSUME NEW q \in Kept(Snaps, Y) PROVE \E k \in 1..n - t : elms'[k].beg = q
  <2>1. q \in Snaps /\ \A y \in Y : q < y
    BY DEF Kept
  <2>2. PICK m \in 1..n : elms[m].beg = q
    BY <1>1, <2>1 DEF FromScan
  <2>3. m > t
    <3>1. SUFFICES ASSUME m <= t PROVE FALSE
      BY <1>2, <1>3
    <3>2. t \in 1..n /\ t # 0
      BY <1>2, <1>3, <3>1
    <3>3. Young(t)
      BY <1>3, <3>2
    <3>4. elms[t].beg \in Y
      BY <3>2, <3>3
    <3>5. elms[m].beg < elms[t].beg
      BY <2>1, <2>2, <3>4
    <3>6. t < m
      BY <1>1, <3>2, <3>5, ChainedOrder
    <3> QED BY <1>2, <1>3, <3>1, <3>6
  <2>4. m - t \in 1..n - t /\ t + (m - t) = m
    BY <1>2, <1>3, <2>3
  <2>5. elms'[m - t].beg = q
    BY <1>7, <2>2, <2>4
  <2> QED BY <2>4, <2>5
<1> HIDE DEF Y, n
<1>12. {elms'[k].beg : k \in 1..Len(elms')} = Kept(Snaps, Y)
  BY <1>7, <1>10, <1>11
<1>13. SoftpruneType' /\ Len(elms') < maxelms'
  <2>1. SoftpruneType'
    BY <1>1, <1>7 DEF SoftpruneType, Entry
  <2> QED BY <1>1, <1>2, <1>3, <1>7, <2>1
<1>14. PICK Z : Z = Y
  OBVIOUS
<1>15. Z \in SUBSET Snaps' /\ TakenForYoung(Z)'
  BY <1>1, <1>2, <1>9, <1>14 DEF TakenForYoung
<1>16. {elms'[k].beg : k \in 1..Len(elms')} = Kept(Snaps', Z)
  BY <1>2, <1>12, <1>14
<1> QED BY <1>1, <1>8, <1>13, <1>15, <1>16 DEF SoftpruneIInv, FinalizeIsRanges

-----------------------------------------------------------------------------
(* The array that is handed to the ioctl. *)

\* The entries of a chained array are the ranges between neighbouring snapshots.
LEMMA ChainIsRanges ==
    ASSUME elms \in Seq(Entry), Chained(Len(elms)), Len(elms) >= 2,
           NEW K, K = {elms[k].beg : k \in 1..Len(elms)}, NEW r
    PROVE  r \in Ranges(K) <=>
             \/ \E k \in 2..Len(elms) : r = [beg |-> elms[k].beg, end |-> elms[k - 1].beg]
             \/ r = [beg |-> 1, end |-> elms[Len(elms)].beg]
<1> DEFINE n == Len(elms)
           B(k) == elms[k].beg
<1>1. n \in Nat /\ n >= 2 /\ \A k \in 1..n : B(k) \in Nat /\ B(k) \in K
  BY ArrayFacts
<1>2. \A k, l \in 1..n : /\ k < l <=> B(l) < B(k)
                         /\ k = l <=> B(k) = B(l)
  BY ChainedOrder
<1>3. \A x \in K : \E k \in 1..n : x = B(k)
  OBVIOUS
<1> HIDE DEF n, B
<1>4. \A x : x \in Teeth(K) <=> \E k \in 2..n : x = B(k)
  <2> SUFFICES ASSUME NEW x PROVE x \in Teeth(K) <=> \E k \in 2..n : x = B(k)
    OBVIOUS
  <2>1. ASSUME x \in Teeth(K) PROVE \E k \in 2..n : x = B(k)
    <3>1. PICK y \in K : x \in K /\ x < y
      BY <2>1 DEF Teeth
    <3>2. PICK k \in 1..n : x = B(k)
      BY <1>3, <3>1, Zenon
    <3>3. PICK l \in 1..n : y = B(l)
      BY <1>3, <3>1, Zenon
    <3>4. l < k
      BY <1>2, <3>1, <3>2, <3>3
    <3> QED BY <1>1, <3>2, <3>4
  <2>2. ASSUME NEW k \in 2..n PROVE B(k) \in Teeth(K)
    <3>1. 1 \in 1..n /\ k \in 1..n /\ 1 < k
      BY <1>1
    <3>2. B(k) \in K /\ B(1) \in K /\ B(k) < B(1)
      BY <1>1, <1>2, <3>1
    <3> QED BY <3>2 DEF Teeth
  <2> QED BY <2>1, <2>2
<1>5. ASSUME NEW k \in 2..n
      PROVE  [beg |-> B(k), end |-> B(k - 1)] \in Ranges(K)
  <2>1. k \in 1..n /\ k - 1 \in 1..n /\ k - 1 < k
    BY <1>1
  <2>2. B(k) \in Teeth(K) /\ B(k - 1) \in K /\ B(k) < B(k - 1)
    BY <1>1, <1>2, <1>4, <2>1, Zenon
  <2>3. ASSUME NEW x \in K PROVE ~(B(k) < x /\ x < B(k - 1))
    <3>1. PICK l \in 1..n : x = B(l)
      BY <1>3, Zenon
    <3>2. ~(l < k /\ k - 1 < l)
      BY <1>1
    <3> QED BY <1>2, <2>1, <3>1, <3>2
  <2>4. IsNext(K, B(k), B(k - 1))
    BY <2>2, <2>3 DEF IsNext
  <2> QED BY <2>2, <2>4 DEF Ranges
<1>6. [beg |-> 1, end |-> B(n)] \in Ranges(K)
  <2>1. B(n) \in Teeth(K)
    BY <1>1, <1>4
  <2>2. ASSUME NEW x \in Teeth(K) PROVE B(n) <= x
    <3>1. PICK k \in 2..n : x = B(k)
      BY <1>4
    <3>2. k \in 1..n /\ n \in 1..n /\ (k < n \/ k = n)
      BY <1>1
    <3> QED BY <1>1, <1>2, <3>1, <3>2
  <2> QED BY <2>1, <2>2 DEF Ranges
<1>7. ASSUME r \in [beg : Teeth(K), end : K], IsNext(K, r.beg, r.end)
      PROVE  \E k \in 2..n : r = [beg |-> B(k), end |-> B(k - 1)]
  <2>1. PICK k \in 2..n : r.beg = B(k)
    BY <1>4, <1>7
  <2>2. PICK l \in 1..n : r.end = B(l)
    BY <1>3, <1>7, Zenon
  <2>3. k \in 1..n /\ k - 1 \in 1..n /\ k - 1 < k
    BY <1>1
  <2>4. B(k) < B(l) /\ \A x \in K : ~(B(k) < x /\ x < B(l))
    BY <1>7, <2>1, <2>2 DEF IsNext
  <2>5. l < k
    BY <1>2, <2>3, <2>4
  <2>6. ~(l < k - 1)
    <3>1. B(k - 1) \in K /\ B(k) < B(k - 1)
      BY <1>1, <1>2, <2>3, Zenon
    <3>2. ~(B(k - 1) < B(l))
      BY <2>4, <3>1
    <3> QED BY <1>2, <2>3, <3>2
  <2>7. l = k - 1
    BY <1>1, <2>5, <2>6
  <2>8. r = [beg |-> B(k), end |-> B(k - 1)]
    BY <1>7, <2>1, <2>2, <2>7
  <2> QED BY <2>8
<1>8. ASSUME r \in [beg : {1}, end : Teeth(K)], \A x \in Teeth(K) : r.end <= x
      PROVE  r = [beg |-> 1, end |-> B(n)]
  <2>1. PICK k \in 2..n : r.end = B(k)
    BY <1>4, <1>8
  <2>2. k \in 1..n /\ n \in 1..n /\ n \in 2..n /\ (k < n \/ k = n)
    BY <1>1
  <2>3. B(k) <= B(n)
    BY <1>4, <1>8, <2>1, <2>2, Zenon
  <2>4. ~(k < n)
    BY <1>1, <1>2, <2>2, <2>3
  <2> QED BY <1>8, <2>1, <2>2, <2>4
<1>9. ASSUME r \in Ranges(K)
      PROVE  \/ \E k \in 2..n : r = [beg |-> B(k), end |-> B(k - 1)]
             \/ r = [beg |-> 1, end |-> B(n)]
  BY <1>7, <1>8, <1>9 DEF Ranges
<1>10. r \in Ranges(K) <=>
         \/ \E k \in 2..n : r = [beg |-> B(k), end |-> B(k - 1)]
         \/ r = [beg |-> 1, end |-> B(n)]
  BY <1>5, <1>6, <1>9
<1> QED BY <1>10 DEF n, B

\* The last step: the newest entry goes and the terminator is added.
LEMMA FinishInv == ASSUME SoftpruneIInv, Finish PROVE SoftpruneIInv'
<1> DEFINE n == Len(elms)
<1>1. /\ SoftpruneType /\ n < maxelms /\ elms \in Seq(Entry) /\ Chained(n)
      /\ maxelms' = maxelms /\ scanned' = scanned /\ i' = i /\ pc' = "done"
  BY ArrayType DEF SoftpruneIInv, Finish
<1>2. PICK Y \in SUBSET Snaps :
        TakenForYoung(Y) /\ {elms[k].beg : k \in 1..n} = Kept(Snaps, Y)
  BY DEF SoftpruneIInv, Finish
<1>3. /\ n \in Nat /\ (elms = <<>> <=> n = 0) /\ maxelms \in Nat
      /\ \A k \in 1..n : elms[k] \in Entry /\ elms[k].beg \in Nat
  BY <1>1, ArrayFacts DEF SoftpruneType
<1>4. Snaps' = Snaps /\ TakenForYoung(Y)'
  BY <1>1, <1>2 DEF Snaps, TakenForYoung
<1> DEFINE K == Kept(Snaps, Y)
           R == {[beg |-> elms'[k].beg, end |-> elms'[k].end] : k \in 1..Len(elms')}
<1>5. SUFFICES /\ elms' \in Seq(Entry) /\ Len(elms') <= n
               /\ \A k \in 1..Len(elms') - 1 : elms'[k].beg >= elms'[k + 1].end
               /\ R = Ranges(K)
  <2> SUFFICES ASSUME elms' \in Seq(Entry), Len(elms') <= n, R = Ranges(K),
                      \A k \in 1..Len(elms') - 1 : elms'[k].beg >= elms'[k + 1].end
               PROVE  SoftpruneIInv'
    OBVIOUS
  <2>1. Len(elms') \in Nat
    BY ArrayFacts
  <2>2. SoftpruneType' /\ Len(elms') < maxelms'
    <3>1. SoftpruneType'
      BY <1>1 DEF SoftpruneType, Entry
    <3> QED BY <1>1, <1>3, <2>1, <3>1
  <2>3. FinalizeIsRanges'
    BY <1>2, <1>4 DEF FinalizeIsRanges
  <2> QED BY <1>1, <2>2, <2>3 DEF SoftpruneIInv
<1>6. CASE n < 2
  <2>1. elms' = <<>>
    <3>1. CASE n = 0
      BY <1>3, <3>1 DEF Finish
    <3>2. CASE n = 1
      <4>1. Tail(elms) \in Seq(Entry) /\ Len(Tail(elms)) = 0
        BY <1>1, <1>3, <3>2, TailFacts, ArrayFacts
      <4>2. Tail(elms) = <<>>
        BY <4>1, ArrayFacts
      <4> QED BY <1>3, <3>2, <4>2 DEF Finish
    <3>3. n = 0 \/ n = 1
      <4>1. n \in Nat
        BY <1>3
      <4> HIDE DEF n
      <4> QED BY <1>6, <4>1
    <3> QED BY <3>1, <3>2, <3>3
  <2>2. elms' \in Seq(Entry) /\ Len(elms') = 0
    BY <2>1
  <2>3. Teeth(K) = {}
    <3>1. \A x, y \in K : x = y /\ x \in Nat
      <4>1. \A k, l \in 1..n : k = l
        BY <1>3, <1>6
      <4> QED BY <1>2, <1>3, <4>1
    <3> HIDE DEF K
    <3> QED BY <3>1 DEF Teeth
  <2>4. Ranges(K) = {}
    <3> HIDE DEF K
    <3> QED BY <2>3 DEF Ranges
  <2>5. R = {}
    BY <2>2
  <2> HIDE DEF R, K
  <2> QED BY <1>3, <2>2, <2>4, <2>5
<1>7. CASE n >= 2
  <2> DEFINE left == Tail(elms)
             last == [beg |-> 1, end |-> elms[n].beg, mod |-> 0]
  <2>1. /\ left \in Seq(Entry) /\ Len(left) = n - 1
        /\ \A k \in 1..n - 1 : left[k] = elms[k + 1]
    BY <1>1, <1>3, <1>7, TailFacts, ArrayFacts
  <2>2. left # <<>> /\ left[n - 1] = elms[n]
    <3>1. n - 1 \in 1..n - 1 /\ n - 1 + 1 = n /\ n - 1 # 0
      BY <1>3, <1>7
    <3> QED BY <2>1, <3>1, ArrayFacts, Zenon
  <2>3. elms' = Append(left, last)
    BY <1>3, <1>7, <2>1, <2>2 DEF Finish
  <2>4. last \in Entry /\ last.beg = 1 /\ last.end = elms[n].beg
    BY <1>3, <1>7, SoftpruneAssumption DEF Entry, Times
  <2> HIDE DEF left, last
  <2>5. /\ elms' \in Seq(Entry) /\ Len(elms') = n
        /\ \A k \in 1..n - 1 : elms'[k] = elms[k + 1]
        /\ elms'[n] = last
    <3>1. /\ elms' \in Seq(Entry) /\ Len(elms') = Len(left) + 1
          /\ \A k \in 1..Len(left) : elms'[k] = left[k]
          /\ elms'[Len(left) + 1] = last
      BY <2>1, <2>3, <2>4, AppendedFacts, Zenon
    <3>2. Len(left) + 1 = n
      BY <1>3, <2>1
    <3> QED BY <2>1, <3>1, <3>2
  <2>6. \A k \in 2..n : k \in 1..n /\ elms[k].end = elms[k - 1].beg
    BY <1>1, <1>3 DEF Chained
  <2>7. ASSUME NEW k \in 1..n - 1
        PROVE  /\ k + 1 \in 2..n
               /\ [beg |-> elms'[k].beg, end |-> elms'[k].end]
                    = [beg |-> elms[k + 1].beg, end |-> elms[(k + 1) - 1].beg]
    <3>1. k + 1 \in 2..n
      BY <1>3
    <3> QED BY <2>5, <2>6, <3>1
  <2>8. ASSUME NEW k \in 1..n - 1 PROVE elms'[k].beg >= elms'[k + 1].end
    <3>1. k + 1 \in 2..n /\ k + 1 \in 1..n /\ elms'[k].beg = elms[k + 1].beg
      BY <1>3, <2>5
    <3>2. CASE k + 1 = n
      BY <1>3, <2>4, <2>5, <3>1, <3>2
    <3>3. CASE k + 1 # n
      <4>1. k + 1 \in 1..n - 1 /\ k + 1 + 1 \in 2..n /\ k + 1 + 1 - 1 = k + 1
        BY <1>3, <3>3
      <4>2. elms'[k + 1].end = elms[k + 1].beg
        BY <2>5, <2>6, <4>1
      <4> QED BY <1>3, <3>1, <4>2
    <3> QED BY <3>2, <3>3
  <2>9. \A r : r \in Ranges(K) <=>
            \/ \E k \in 2..n : r = [beg |-> elms[k].beg, end |-> elms[k - 1].beg]
            \/ r = [beg |-> 1, end |-> elms[n].beg]
    <3> HIDE DEF K
    <3>1. K = {elms[k].beg : k \in 1..n}
      BY <1>2 DEF K
    <3> QED BY <1>1, <1>7, <3>1, ChainIsRanges
  <2>10. [beg |-> elms'[n].beg, end |-> elms'[n].end] = [beg |-> 1, end |-> elms[n].beg]
    BY <2>4, <2>5
  <2>11. R \subseteq Ranges(K)
    <3> SUFFICES ASSUME NEW k \in 1..n
                 PROVE  [beg |-> elms'[k].beg, end |-> elms'[k].end] \in Ranges(K)
      BY <2>5
    <3> HIDE DEF K
    <3>1. CASE k = n
      BY <2>9, <2>10, <3>1
    <3>2. CASE k # n
      <4>1. k \in 1..n - 1
        BY <1>3, <3>2
      <4>2. PICK m \in 2..n : [beg |-> elms'[k].beg, end |-> elms'[k].end]
                               = [beg |-> elms[m].beg, end |-> elms[m - 1].beg]
        <5>1. /\ k + 1 \in 2..n
              /\ [beg |-> elms'[k].beg, end |-> elms'[k].end]
                   = [beg |-> elms[k + 1].beg, end |-> elms[(k + 1) - 1].beg]
          BY <2>7, <4>1
        <5> HIDE DEF n
        <5> QED BY <5>1, Zenon
      <4> DEFINE q == [beg |-> elms[m].beg, end |-> elms[m - 1].beg]
      <4>3. q \in Ranges(K)
        BY <2>9
      <4> QED BY <4>2, <4>3
    <3> QED BY <3>1, <3>2
  <2>12. ASSUME NEW r \in Ranges(K) PROVE r \in R
    <3> DEFINE Of(k) == [beg |-> elms'[k].beg, end |-> elms'[k].end]
    <3>1. SUFFICES \E k \in 1..n : r = Of(k)
      BY <2>5
    <3>2. CASE r = [beg |-> 1, end |-> elms[n].beg]
      <4>1. n \in 1..n /\ r = Of(n)
        BY <1>3, <1>7, <2>10, <3>2
      <4> HIDE DEF Of
      <4> QED BY <4>1
    <3>3. ASSUME NEW k \in 2..n, r = [beg |-> elms[k].beg, end |-> elms[k - 1].beg]
          PROVE  \E m \in 1..n : r = Of(m)
      <4>1. k - 1 \in 1..n - 1 /\ k - 1 + 1 = k /\ k - 1 \in 1..n
        BY <1>3
      <4>2. Of(k - 1) = [beg |-> elms[k].beg, end |-> elms[k - 1].beg]
        BY <2>7, <4>1
      <4> HIDE DEF Of
      <4> QED BY <3>3, <4>1, <4>2
    <3> HIDE DEF K, Of
    <3> QED BY <2>9, <3>2, <3>3
  <2> HIDE DEF R, K
  <2> QED BY <1>3, <2>5, <2>8, <2>11, <2>12, Zenon
<1> QED BY <1>3, <1>6, <1>7

\* Every step of the search and of hammer_softprune_finalize keeps the invariant.
LEMMA SoftpruneStep == ASSUME SoftpruneIInv, [Next]_vars PROVE SoftpruneIInv'
<1>1. CASE UNCHANGED vars
  <2>1. /\ elms' = elms /\ maxelms' = maxelms /\ i' = i /\ scanned' = scanned /\ pc' = pc
        /\ Snaps' = Snaps
    BY <1>1 DEF vars, Snaps
  <2>2. \A young : TakenForYoung(young)' = TakenForYoung(young)
    BY <2>1 DEF TakenForYoung
  <2>3. Chained(i - 1)' = Chained(i - 1) /\ Chained(Len(elms))' = Chained(Len(elms))
    BY <2>1 DEF Chained
  <2>4. SoftpruneType' /\ FromScan' = FromScan
    BY <2>1 DEF SoftpruneIInv, SoftpruneType, FromScan
  <2>5. FinalizeIsRanges'
    BY <2>1, <2>2 DEF SoftpruneIInv, FinalizeIsRanges
  <2>6. pc' = "dedup" =>
          /\ i' \in 1..Len(elms') + 1 /\ Chained(i - 1)'
          /\ \A k \in 1..Len(elms') - 1 : elms'[k].beg >= elms'[k + 1].beg
    BY <2>1, <2>3 DEF SoftpruneIInv
  <2>7. pc' = "first" =>
          \E young \in SUBSET Snaps' :
             /\ TakenForYoung(young)'
             /\ {elms'[k].beg : k \in 1..Len(elms')} = Kept(Snaps', young)
    BY <2>1, <2>2 DEF SoftpruneIInv
  <2>8. pc' \in {"prune_min", "first"} => Chained(Len(elms))'
    BY <2>1, <2>3 DEF SoftpruneIInv
  <2> QED BY <2>1, <2>4, <2>5, <2>6, <2>7, <2>8 DEF SoftpruneIInv
<1> QED BY <1>1, AddElmInv, SortInv, DedupInv, TakeYoungInv, FinishInv DEF Next

\* However many snapshots hammer prune finds, with whatever times and
\* duplicates: the array has room for them and for the terminator, and what is
\* handed to HAMMERIOC_PRUNE are the ranges of PruneRanges.
THEOREM PruneArrayIsRanges == Spec => []ArrayIsRanges
<1>1. SoftpruneIInv => ArrayIsRanges
  <2>1. SoftpruneIInv => Len(elms) \in Nat /\ maxelms \in Nat
    BY ArrayType, ArrayFacts DEF SoftpruneIInv, SoftpruneType
  <2> QED BY <2>1 DEF SoftpruneIInv, ArrayIsRanges, FitsArray
<1>2. SoftpruneIInv /\ [Next]_vars => SoftpruneIInv'
  BY SoftpruneStep
<1> QED BY SoftpruneInitial, <1>1, <1>2, PTL DEF Spec

-----------------------------------------------------------------------------
(* prune-min.                                                              *)

\* Quotient and remainder.
LEMMA DivMod ==
    ASSUME NEW v \in Nat, NEW b \in Nat \ {0}
    PROVE  /\ v \div b \in Nat /\ v % b \in Nat /\ v % b < b
           /\ v = b * (v \div b) + (v % b)
<1> DEFINE q == v \div b
           r == v % b
<1>1. q \in Nat /\ r \in 0..b - 1 /\ v = b * q + r
  BY SMT
<1> HIDE DEF q, r
<1>2. r \in Nat /\ r < b
  BY <1>1
<1> QED BY <1>1, <1>2, Zenon DEF q, r

\* Division by a product is division by one factor after the other, and the
\* remainder goes with it.
LEMMA DivDown ==
    ASSUME NEW v \in Nat, NEW a \in Nat \ {0}, NEW b \in Nat \ {0}
    PROVE  /\ v \div (a * b) \in Nat /\ (v \div b) % a \in Nat
           /\ v \div b = (v \div (a * b)) * a + ((v \div b) % a)
<1> DEFINE q == v \div b
           r == v % b
           x == q \div a
           y == q % a
<1>1. q \in Nat /\ r \in Nat /\ r < b /\ v = b * q + r
  BY DivMod
<1>2. x \in Nat /\ y \in Nat /\ y < a /\ q = a * x + y
  <2>1. q \in Nat
    BY <1>1
  <2> HIDE DEF q
  <2> QED BY <2>1, DivMod
<1> HIDE DEF q, r, x, y
<1>3. v = (a * b) * x + (b * y + r)
  <2>1. b * q = b * (a * x) + b * y
    BY <1>1, <1>2
  <2>2. b * (a * x) = (a * b) * x
    BY <1>2
  <2> QED BY <1>1, <1>2, <2>1, <2>2
<1>4. b * y + r < a * b /\ b * y + r \in Nat
  <2>1. b * y <= b * (a - 1)
    BY <1>2
  <2>2. b * (a - 1) = a * b - b
    BY <1>2
  <2>3. b * y \in Nat /\ a * b \in Nat
    BY <1>2
  <2> QED BY <1>1, <2>1, <2>2, <2>3
<1>5. v \div (a * b) = x
  <2> DEFINE d == a * b
             u == b * y + r
             z == v \div d
  <2>1. d \in Nat \ {0} /\ u \in Nat /\ u < d /\ v = d * x + u
    BY <1>3, <1>4
  <2> HIDE DEF d, u
  <2>2. z \in Nat /\ d * z <= v /\ v < d * z + d
    BY <2>1, SMT
  <2> HIDE DEF z
  <2>3. ~(z < x)
    <3> SUFFICES ASSUME z + 1 <= x PROVE FALSE
      BY <1>2, <2>2
    <3>1. d * (z + 1) <= d * x
      BY <1>2, <2>1, <2>2
    <3>2. d * (z + 1) = d * z + d /\ d * x \in Nat /\ d * z \in Nat
      BY <1>2, <2>1, <2>2
    <3> DEFINE dx == d * x
               dz == d * z
    <3>3. dz + d <= dx /\ dx \in Nat /\ dz \in Nat /\ v = dx + u /\ v < dz + d
      BY <2>1, <2>2, <3>1, <3>2
    <3> HIDE DEF dx, dz
    <3> QED BY <2>1, <3>3
  <2>4. ~(x < z)
    <3> SUFFICES ASSUME x + 1 <= z PROVE FALSE
      BY <1>2, <2>2
    <3>1. d * (x + 1) <= d * z
      BY <1>2, <2>1, <2>2
    <3>2. d * (x + 1) = d * x + d /\ d * x \in Nat /\ d * z \in Nat
      BY <1>2, <2>1, <2>2
    <3> DEFINE dx == d * x
               dz == d * z
    <3>3. dx + d <= dz /\ dx \in Nat /\ dz \in Nat /\ v = dx + u /\ dz <= v
      BY <2>1, <2>2, <3>1, <3>2
    <3> HIDE DEF dx, dz
    <3> QED BY <2>1, <3>3
  <2>5. z = x
    BY <1>2, <2>2, <2>3, <2>4
  <2> QED BY <2>5 DEF z, d
<1>6. a * x = x * a
  BY <1>2
<1>7. x \in Nat /\ y \in Nat /\ q = x * a + y
  BY <1>2, <1>6
<1> DEFINE z == v \div (a * b)
<1>8. z \in Nat /\ y \in Nat /\ q = z * a + y
  BY <1>5, <1>7
<1> HIDE DEF z
<1> QED BY <1>8, Zenon DEF q, y, z

\* An int in range does not wrap, and any sum wraps into the range.
LEMMA WrapFacts ==
    /\ \A v \in 0..IntTop : WrapInt(v) = v
    /\ \A v \in Nat : WrapInt(v) \in Int /\ WrapInt(v) <= IntTop
<1> DEFINE w == 2 * (IntTop + 1)
<1>1. IntTop \in Nat /\ w \in Nat \ {0} /\ w = IntTop + IntTop + 2
  BY PfsAssumption
<1> HIDE DEF w
<1>2. ASSUME NEW v \in 0..IntTop PROVE (v + IntTop + 1) % w = v + IntTop + 1
  BY <1>1, SMT
<1>3. ASSUME NEW v \in Nat PROVE (v + IntTop + 1) % w \in 0..w - 1
  BY <1>1, SMT
<1> QED BY <1>1, <1>2, <1>3 DEF WrapInt, w

\* What timetosecs returns fits an int.
LEMMA TimeToSecsInt ==
    ASSUME NEW opt \in PfsOptions
    PROVE  TimeToSecs(opt.t) \in Int /\ TimeToSecs(opt.t) <= IntTop
<1> DEFINE t == opt.t
           v == t.d * SecDay + t.h * SecHour + t.m * SecMin + t.s
<1>1. t.d \in Nat /\ t.h \in Nat /\ t.m \in Nat /\ t.s \in Nat
  BY DEF PfsOptions
<1>2. v \in Nat
  BY <1>1, PfsAssumption
<1>3. WrapInt(v) \in Int /\ WrapInt(v) <= IntTop /\ IntTop \in Nat
  BY <1>2, WrapFacts, PfsAssumption
<1>4. TimeToSecs(t) = IF WrapInt(v) > IntTop THEN IntTop ELSE WrapInt(v)
  BY DEF TimeToSecs
<1> HIDE DEF v, t
<1> QED BY <1>3, <1>4 DEF t

\* dump_pfsd and timetosecs are inverse on what a PFS can hold.
LEMMA TimeRoundTrip == ASSUME NEW v \in 0..IntTop PROVE TimeToSecs(DumpPrune(v)) = v
<1> DEFINE b == SecHour \div SecMin
           a == SecDay \div SecHour
           Sum(t) == t.d * SecDay + t.h * SecHour + t.m * SecMin + t.s
<1>1. /\ SecMin \in Nat \ {0} /\ SecHour \in Nat \ {0} /\ SecDay \in Nat \ {0}
      /\ IntTop \in Nat /\ v \in Nat
  BY PfsAssumption
<1>2. b \in Nat \ {0} /\ b * SecMin = SecHour
  <2>1. SecHour = SecMin * b + (SecHour % SecMin) /\ b \in Nat
    BY <1>1, DivMod
  <2> HIDE DEF b
  <2>2. SecMin * b = b * SecMin /\ b # 0
    BY <1>1, <2>1, PfsAssumption
  <2> QED BY <1>1, <2>1, <2>2, PfsAssumption
<1>3. a \in Nat \ {0} /\ a * SecHour = SecDay
  <2>1. SecDay = SecHour * a + (SecDay % SecHour) /\ a \in Nat
    BY <1>1, DivMod
  <2> HIDE DEF a
  <2>2. SecHour * a = a * SecHour /\ a # 0
    BY <1>1, <2>1, PfsAssumption
  <2> QED BY <1>1, <2>1, <2>2, PfsAssumption
<1>4. SUFFICES Sum(DumpPrune(v)) = v
  <2>1. TimeToSecs(DumpPrune(v)) =
          IF WrapInt(Sum(DumpPrune(v))) > IntTop THEN IntTop
          ELSE WrapInt(Sum(DumpPrune(v)))
    BY DEF TimeToSecs
  <2> HIDE DEF Sum
  <2> QED BY <1>1, <2>1, WrapFacts
<1>5. CASE v % SecDay = 0 /\ v >= SecDay
  <2>1. DumpPrune(v) = [d |-> v \div SecDay, h |-> 0, m |-> 0, s |-> 0]
    BY <1>5 DEF DumpPrune
  <2>2. v = SecDay * (v \div SecDay) + (v % SecDay) /\ v \div SecDay \in Nat
    BY <1>1, DivMod
  <2> DEFINE q == v \div SecDay
  <2> HIDE DEF q
  <2>3. Sum(DumpPrune(v)) = q * SecDay + 0 * SecHour + 0 * SecMin + 0
    BY <2>1 DEF q
  <2>4. v = SecDay * q /\ q \in Nat
    BY <1>1, <1>5, <2>2 DEF q
  <2>5. SecDay * q = q * SecDay
    BY <1>1, <2>4
  <2> QED BY <1>1, <2>3, <2>4, <2>5
<1>6. CASE ~(v % SecDay = 0 /\ v >= SecDay)
  <2> DEFINE d == v \div SecDay
             hh == v \div SecHour
             mm == v \div SecMin
             h == hh % a
             m == mm % b
             s == v % SecMin
  <2>1. DumpPrune(v) = [d |-> d, h |-> h, m |-> m, s |-> s]
    BY <1>6 DEF DumpPrune
  <2>2. d \in Nat /\ h \in Nat /\ hh = d * a + h
    <3>1. /\ v \div (a * SecHour) \in Nat /\ (v \div SecHour) % a \in Nat
          /\ v \div SecHour = (v \div (a * SecHour)) * a + ((v \div SecHour) % a)
      <4> HIDE DEF a
      <4> QED BY <1>1, <1>3, DivDown, Zenon
    <3>2. a * SecHour = SecDay
      BY <1>3
    <3> HIDE DEF a
    <3> QED BY <3>1, <3>2
  <2>3. hh \in Nat /\ m \in Nat /\ mm = hh * b + m
    <3>1. /\ v \div (b * SecMin) \in Nat /\ (v \div SecMin) % b \in Nat
          /\ v \div SecMin = (v \div (b * SecMin)) * b + ((v \div SecMin) % b)
      <4> HIDE DEF b
      <4> QED BY <1>1, <1>2, DivDown, Zenon
    <3>2. b * SecMin = SecHour
      BY <1>2
    <3> HIDE DEF b
    <3> QED BY <3>1, <3>2
  <2>4. mm \in Nat /\ s \in Nat /\ v = SecMin * mm + s
    BY <1>1, DivMod
  <2>5. Sum(DumpPrune(v)) = d * SecDay + h * SecHour + m * SecMin + s
    BY <2>1
  <2> HIDE DEF d, hh, mm, h, m, s, a, b, Sum
  <2>6. hh * SecHour = d * SecDay + h * SecHour
    <3>1. hh * SecHour = (d * a) * SecHour + h * SecHour
      BY <1>1, <1>3, <2>2
    <3>2. (d * a) * SecHour = d * (a * SecHour)
      BY <1>1, <1>3, <2>2
    <3> QED BY <1>3, <3>1, <3>2
  <2>7. mm * SecMin = hh * SecHour + m * SecMin
    <3>1. mm * SecMin = (hh * b) * SecMin + m * SecMin
      BY <1>1, <1>2, <2>3
    <3>2. (hh * b) * SecMin = hh * (b * SecMin)
      BY <1>1, <1>2, <2>3
    <3> QED BY <1>2, <3>1, <3>2
  <2>8. SecMin * mm = mm * SecMin
    BY <1>1, <2>4
  <2>9. d * SecDay \in Nat /\ h * SecHour \in Nat /\ m * SecMin \in Nat
    BY <1>1, <2>2, <2>3
  <2> QED BY <2>4, <2>5, <2>6, <2>7, <2>8, <2>9
<1> QED BY <1>5, <1>6
-----------------------------------------------------------------------------
(* The commands.                                                           *)

\* Commands run one after the other.
OneAtATime == \A p, q \in PfsProcs : p = q

\* A PFS that is there has a role.
Present == \A id \in 0..MaxPfsId : pfsTab[id].role = "none" => pfsTab[id] = NoPfs

LEMMA PfsInitial == PfsInit => PfsInv
<1> SUFFICES ASSUME PfsInit PROVE PfsInv
  OBVIOUS
<1>1. RootPfs \in PfsConfig /\ NoPfs \in PfsConfig /\ MaxPfsId \in Nat
  BY PfsAssumption DEF RootPfs, NoPfs, PfsConfig
<1>2. PfsTypeOK
  BY <1>1 DEF PfsInit, PfsTypeOK
<1>3. RootMaster /\ Present
  BY <1>1 DEF PfsInit, RootMaster, Present, RootPfs, NoPfs
<1>4. LinkInv
  BY DEF PfsInit, LinkInv
<1> QED BY <1>2, <1>3, <1>4 DEF PfsInit, PfsInv, Present

\* The ids of the PFSs but the root.
LEMMA IdsOfPfs == \A x \in 1..MaxPfsId : x \in 0..MaxPfsId /\ x # 0
  BY PfsAssumption

\* What the invariant says of a command that runs, and of the links while it
\* has not just destroyed a PFS.
LEMMA CommandFacts ==
    ASSUME PfsInv, OneAtATime, NEW p \in PfsProcs
    PROVE  /\ pfsProc[p].pc # "idle" => pfsProc[p] \in PfsCommand /\ CmdInv(pfsProc[p])
           /\ pfsProc[p].pc # "unlink" =>
                \A n \in PfsNames : pfsLink[n] # -1 =>
                  /\ pfsTab[pfsLink[n]].role # "none" /\ pfsTab[pfsLink[n]].uuid = pfsMade[n]
                  /\ pfsLink[n] \in 1..MaxPfsId
<1>1. pfsProc[p] \in PfsCommand \cup {NoCmd} /\ NoCmd.pc = "idle"
  BY DEF PfsInv, PfsTypeOK, NoCmd
<1>2. \A n \in PfsNames : pfsLink[n] # -1 /\ pfsLink[n] # 0 => pfsLink[n] \in 1..MaxPfsId
  BY PfsAssumption DEF PfsInv, PfsTypeOK
<1> QED BY <1>1, <1>2 DEF PfsInv, OneAtATime, LinkInv

\* Two links never lead to one PFS.
LEMMA LinksApart ==
    ASSUME PfsInv PROVE \A m, n \in PfsNames : pfsLink[m] = pfsLink[n] /\ pfsLink[m] # -1 => m = n
BY DEF PfsInv, LinkInv

\* A step of the only process, put together from its parts.
LEMMA PfsTogether ==
    ASSUME PfsInv, OneAtATime, NEW p \in PfsProcs, NEW e, StepTo(p, e),
           e = NoCmd \/ (e \in PfsCommand /\ CmdInv(e)'),
           pfsTab' \in [0..MaxPfsId -> PfsConfig], pfsCmds' \in Nat,
           pfsLink' \in [PfsNames -> -1..MaxPfsId], pfsMade' \in [PfsNames -> Nat],
           RootMaster', LinkInv', Present'
    PROVE  PfsInv'
<1>1. pfsProc' = [pfsProc EXCEPT ![p] = e] /\ pfsProc \in [PfsProcs -> PfsCommand \cup {NoCmd}]
  BY DEF StepTo, PfsInv, PfsTypeOK
<1>2. pfsProc' \in [PfsProcs -> PfsCommand \cup {NoCmd}]
  BY <1>1
<1>3. \A q \in PfsProcs : pfsProc'[q] = e
  BY <1>1 DEF OneAtATime
<1>4. PfsTypeOK'
  BY <1>2 DEF PfsTypeOK
<1>5. \A q \in PfsProcs : pfsProc'[q] # NoCmd => CmdInv(pfsProc[q])'
  <2> SUFFICES ASSUME NEW q \in PfsProcs, pfsProc'[q] # NoCmd PROVE CmdInv(pfsProc[q])'
    OBVIOUS
  <2>1. CmdInv(e)' /\ pfsProc'[q] = e
    BY <1>3
  <2> QED BY <2>1, Zenon DEF CmdInv
<1> QED BY <1>4, <1>5 DEF PfsInv, Present

\* A step that changes nothing but the command's own state.
LEMMA OnlyCommand ==
    ASSUME PfsInv, OneAtATime, NEW p \in PfsProcs, NEW e, StepTo(p, e),
           pfsProc[p].pc # "unlink", UNCHANGED <<pfsTab, pfsLink, pfsMade>>, pfsCmds' \in Nat,
           e = NoCmd \/ (e \in PfsCommand /\ CmdInv(e))
    PROVE  PfsInv'
<1>1. LinkInv'
  <2>1. \A n \in PfsNames : pfsLink[n] # -1 =>
          /\ pfsTab[pfsLink[n]].role # "none" /\ pfsTab[pfsLink[n]].uuid = pfsMade[n]
          /\ pfsLink[n] # 0
    BY CommandFacts
  <2>2. \A m, n \in PfsNames : pfsLink[m] = pfsLink[n] /\ pfsLink[m] # -1 => m = n
    BY LinksApart
  <2> QED BY <2>1, <2>2, Zenon DEF LinkInv
<1>2. CmdInv(e) => CmdInv(e)'
  BY DEF CmdInv
<1>3. RootMaster' /\ Present'
  BY DEF PfsInv, RootMaster, Present
<1> QED BY <1>1, <1>2, <1>3, PfsTogether DEF PfsInv, PfsTypeOK

LEMMA StartCmdInv ==
    ASSUME PfsInv, OneAtATime, NEW p \in PfsProcs, NEW n \in PfsNames, NEW opt \in PfsOptions,
           NEW cmd \in {"create", "update", "destroy", "upgrade", "downgrade"},
           NEW role \in {"none", "master", "slave"}, cmd = "create" => role # "none",
           StartCmd(p, cmd, n, role, opt)
    PROVE  PfsInv'
<1> DEFINE c == [pc |-> IF cmd = "create" THEN "scan" ELSE "get", cmd |-> cmd,
                 name |-> n, id |-> 0, role |-> role, opt |-> opt,
                 uuid |-> pfsCmds + 1, pfs |-> NoPfs]
<1>1. PICK e : e = c
  BY Zenon
<1>2. /\ StepTo(p, e) /\ pfsProc[p] = NoCmd /\ UNCHANGED <<pfsTab, pfsLink, pfsMade>>
      /\ pfsCmds' = pfsCmds + 1
  BY <1>1 DEF StartCmd
<1>3. pfsCmds \in Nat /\ MaxPfsId \in Nat /\ IntTop \in Nat
  BY PfsAssumption DEF PfsInv, PfsTypeOK
<1>4. NoPfs \in PfsConfig /\ 0 \in 0..MaxPfsId /\ pfsCmds + 1 \in Nat
  BY <1>3 DEF NoPfs, PfsConfig
<1>5. e \in PfsCommand
  BY <1>1, <1>4 DEF PfsCommand
<1>6. /\ e.cmd = cmd /\ e.role = role /\ e.pc \in {"scan", "get"}
      /\ e.pc = "scan" => cmd = "create"
  BY <1>1
<1> HIDE DEF c
<1>7. CmdInv(e)
  BY <1>6 DEF CmdInv
<1>8. pfsProc[p].pc # "unlink" /\ pfsCmds' \in Nat
  BY <1>2, <1>3 DEF NoCmd
<1> QED BY <1>2, <1>5, <1>7, <1>8, OnlyCommand

LEMMA ScanIdsInv ==
    ASSUME PfsInv, OneAtATime, NEW p \in PfsProcs, ScanIds(p) PROVE PfsInv'
<1>1. PICK c : c = pfsProc[p]
  OBVIOUS
<1>2. /\ c.pc = "scan" /\ c \in PfsCommand /\ CmdInv(c)
      /\ StepTo(p, ScanNext(c)) /\ UNCHANGED <<pfsTab, pfsLink, pfsMade, pfsCmds>>
  BY <1>1, CommandFacts DEF ScanIds
<1>3. pfsCmds' \in Nat /\ MaxPfsId \in Nat /\ c.id \in 0..MaxPfsId
  BY <1>2, PfsAssumption, Zenon DEF PfsInv, PfsTypeOK, PfsCommand
<1>4. PICK e : e = ScanNext(c)
  OBVIOUS
<1>5. CASE pfsTab[c.id] # NoPfs /\ c.id = MaxPfsId
  BY <1>1, <1>2, <1>3, <1>4, <1>5, OnlyCommand DEF ScanNext
<1>6. CASE pfsTab[c.id] # NoPfs /\ c.id # MaxPfsId
  <2>1. e = [c EXCEPT !.id = c.id + 1] /\ c.id + 1 \in 0..MaxPfsId
    BY <1>3, <1>4, <1>6 DEF ScanNext
  <2>2. e \in PfsCommand
    BY <1>2, <2>1, Zenon DEF PfsCommand
  <2>3. e.pc = "scan" /\ e.cmd = c.cmd /\ e.role = c.role
    BY <1>2, <2>1 DEF PfsCommand
  <2>4. CmdInv(e)
    BY <1>2, <2>3 DEF CmdInv
  <2> QED BY <1>1, <1>2, <1>3, <1>4, <2>2, <2>4, OnlyCommand
<1>7. CASE pfsTab[c.id] = NoPfs
  <2>1. e = [c EXCEPT !.pc = "set"]
    BY <1>4, <1>7 DEF ScanNext
  <2>2. e \in PfsCommand
    BY <1>2, <2>1, Zenon DEF PfsCommand
  <2>3. e.pc = "set" /\ e.cmd = c.cmd /\ e.role = c.role /\ e.id = c.id
    BY <1>2, <2>1 DEF PfsCommand
  <2>4. CmdInv(e)
    BY <1>2, <1>7, <2>3 DEF CmdInv
  <2> QED BY <1>1, <1>2, <1>3, <1>4, <2>2, <2>4, OnlyCommand
<1> QED BY <1>5, <1>6, <1>7

LEMMA GetPfsInv ==
    ASSUME PfsInv, OneAtATime, NEW p \in PfsProcs, NEW id \in -1..MaxPfsId, GetPfs(p, id)
    PROVE  PfsInv'
<1>1. PICK c : c = pfsProc[p]
  OBVIOUS
<1>2. /\ c.pc = "get" /\ c \in PfsCommand /\ CmdInv(c) /\ id \in {pfsLink[c.name], 0}
      /\ UNCHANGED <<pfsTab, pfsLink, pfsMade, pfsCmds>>
  BY <1>1, CommandFacts DEF GetPfs
<1>3. pfsCmds' \in Nat /\ MaxPfsId \in Nat
  BY <1>2, PfsAssumption DEF PfsInv, PfsTypeOK
<1>4. CASE StepTo(p, NoCmd)
  BY <1>1, <1>2, <1>3, <1>4, OnlyCommand
<1>5. CASE ~StepTo(p, NoCmd)
  <2>1. /\ id # -1 /\ ~(id >= 0 /\ pfsTab[id] = NoPfs) /\ ~Refuses(c, id)
        /\ StepTo(p, [c EXCEPT !.pc = "ioctl", !.id = id, !.pfs = pfsTab[id]])
    BY <1>1, <1>5 DEF GetPfs
  <2>2. PICK f : f = pfsTab[id]
    OBVIOUS
  <2>3. id \in 0..MaxPfsId /\ f \in PfsConfig /\ f # NoPfs /\ f.role # "none"
    <3>1. id \in 0..MaxPfsId
      BY <1>3, <2>1
    <3> QED BY <2>1, <2>2, <3>1 DEF PfsInv, PfsTypeOK
  <2>4. PICK e : e = [c EXCEPT !.pc = "ioctl", !.id = id, !.pfs = f]
    OBVIOUS
  <2>5. e \in PfsCommand
    BY <1>2, <2>3, <2>4, Zenon DEF PfsCommand
  <2>6. /\ e.pc = "ioctl" /\ e.cmd = c.cmd /\ e.role = c.role /\ e.id = id /\ e.pfs = f
        /\ e.name = c.name /\ e.opt = c.opt
    BY <1>2, <2>4 DEF PfsCommand
  <2>7. c.cmd \in {"create", "update", "destroy", "upgrade", "downgrade"} /\ c.opt \in PfsOptions
    BY <1>2 DEF PfsCommand
  <2>8. CASE c.cmd \in {"create", "update"}
    <3>1. ~(TimeToSecs(c.opt.t) < 0)
      BY <2>1, <2>8 DEF Refuses, BadOptions
    <3>2. TimeToSecs(c.opt.t) \in Int
      BY <2>7, TimeToSecsInt
    <3>3. TimeToSecs(c.opt.t) >= 0
      BY <3>1, <3>2
    <3>4. CmdInv(e)
      BY <1>2, <2>2, <2>3, <2>6, <2>8, <3>3, Zenon DEF CmdInv
    <3> QED BY <1>1, <1>2, <1>3, <2>1, <2>2, <2>4, <2>5, <3>4, OnlyCommand
  <2>9. CASE c.cmd \notin {"create", "update"}
    <3>1. id # 0
      BY <2>1, <2>7, <2>9 DEF Refuses
    <3>2. pfsLink[c.name] = id
      BY <1>2, <3>1
    <3>3. CmdInv(e)
      BY <1>2, <2>2, <2>3, <2>6, <2>9, <3>1, <3>2, Zenon DEF CmdInv
    <3> QED BY <1>1, <1>2, <1>3, <2>1, <2>2, <2>4, <2>5, <3>3, OnlyCommand
  <2> QED BY <2>8, <2>9
<1> QED BY <1>4, <1>5
\* A configuration is stored for a PFS that is not the root's, or that leaves
\* the root a master.
LEMMA StoreFacts ==
    ASSUME PfsInv, NEW id \in 0..MaxPfsId, NEW f \in PfsConfig,
           pfsTab' = [pfsTab EXCEPT ![id] = f],
           f.role = "none" => f = NoPfs, id = 0 => f.role = "master" /\ f.uuid = 0
    PROVE  /\ pfsTab' \in [0..MaxPfsId -> PfsConfig] /\ RootMaster' /\ Present'
           /\ pfsTab'[id] = f /\ \A j \in 0..MaxPfsId \ {id} : pfsTab'[j] = pfsTab[j]
<1>1. pfsTab \in [0..MaxPfsId -> PfsConfig] /\ 0 \in 0..MaxPfsId
  BY PfsAssumption DEF PfsInv, PfsTypeOK
<1>2. /\ pfsTab' \in [0..MaxPfsId -> PfsConfig]
      /\ pfsTab'[id] = f /\ \A j \in 0..MaxPfsId \ {id} : pfsTab'[j] = pfsTab[j]
  BY <1>1
<1>3. RootMaster'
  BY <1>1, <1>2 DEF PfsInv, RootMaster
<1>4. Present'
  BY <1>2 DEF PfsInv, Present
<1> QED BY <1>2, <1>3, <1>4

LEMMA SetNewInv ==
    ASSUME PfsInv, OneAtATime, NEW p \in PfsProcs, SetNew(p) PROVE PfsInv'
<1>1. PICK c : c = pfsProc[p]
  OBVIOUS
<1>2. /\ c.pc = "set" /\ c \in PfsCommand /\ CmdInv(c)
      /\ UNCHANGED <<pfsLink, pfsMade, pfsCmds>>
  BY <1>1, CommandFacts DEF SetNew
<1>3. pfsCmds' \in Nat /\ MaxPfsId \in Nat /\ c.id \in 0..MaxPfsId
  BY <1>2, PfsAssumption, Zenon DEF PfsInv, PfsTypeOK, PfsCommand
<1>4. CASE StepTo(p, NoCmd) /\ UNCHANGED pfsTab
  BY <1>1, <1>2, <1>3, <1>4, OnlyCommand
<1>5. CASE pfsTab' = [pfsTab EXCEPT ![c.id] = NewPfs(c)] /\ StepTo(p, [c EXCEPT !.pc = "symlink"])
  <2>1. PICK e : e = [c EXCEPT !.pc = "symlink"]
    BY Zenon
  <2>2. e \in PfsCommand
    BY <1>2, <2>1, Zenon DEF PfsCommand
  <2>3. e.pc = "symlink" /\ e.cmd = c.cmd /\ e.role = c.role /\ e.id = c.id /\ e.uuid = c.uuid
    BY <1>2, <2>1 DEF PfsCommand
  <2>4. /\ pfsTab[c.id].role = "none" /\ c.cmd = "create" /\ c.role # "none"
    <3>1. pfsTab[c.id] = NoPfs /\ c.cmd = "create" /\ c.role # "none"
      BY <1>2 DEF CmdInv
    <3> QED BY <3>1 DEF NoPfs
  <2>5. c.id # 0
    BY <2>4 DEF PfsInv, RootMaster
  <2>6. PICK f : f = NewPfs(c)
    OBVIOUS
  <2>7. f \in PfsConfig /\ f.role # "none" /\ f.uuid = c.uuid
    <3>1. c.role \in {"none", "master", "slave"} /\ c.uuid \in Nat
      BY <1>2 DEF PfsCommand
    <3>2. 0 \in 0..IntTop
      BY PfsAssumption
    <3>3. f \in PfsConfig
      BY <2>6, <3>1, <3>2 DEF NewPfs, PfsConfig
    <3> QED BY <2>4, <2>6, <3>3 DEF NewPfs
  <2>8. /\ pfsTab' \in [0..MaxPfsId -> PfsConfig] /\ RootMaster' /\ Present'
        /\ pfsTab'[c.id] = f /\ \A j \in 0..MaxPfsId \ {c.id} : pfsTab'[j] = pfsTab[j]
    BY <1>3, <1>5, <2>5, <2>6, <2>7, StoreFacts, Zenon
  <2>9. \A n \in PfsNames : pfsLink[n] # -1 =>
          /\ pfsTab[pfsLink[n]].role # "none" /\ pfsTab[pfsLink[n]].uuid = pfsMade[n]
          /\ pfsLink[n] \in 1..MaxPfsId /\ pfsLink[n] # c.id
    BY <1>1, <1>2, <2>4, CommandFacts
  <2>10. LinkInv'
    <3>1. ASSUME NEW n \in PfsNames, pfsLink'[n] # -1
          PROVE  /\ pfsTab'[pfsLink'[n]].role # "none" /\ pfsTab'[pfsLink'[n]].uuid = pfsMade'[n]
                 /\ pfsLink'[n] # 0
      <4>1. pfsLink'[n] = pfsLink[n] /\ pfsMade'[n] = pfsMade[n]
        BY <1>2
      <4>2. pfsLink[n] \in 0..MaxPfsId \ {c.id} /\ pfsLink[n] # 0
        <5>1. pfsLink[n] \in 1..MaxPfsId /\ pfsLink[n] # c.id
          BY <2>9, <3>1, <4>1, Zenon
        <5> QED BY <5>1, IdsOfPfs, Zenon
      <4> QED BY <2>8, <2>9, <3>1, <4>1, <4>2, Zenon
    <3>2. \A m, n \in PfsNames : pfsLink'[m] = pfsLink'[n] /\ pfsLink'[m] # -1 => m = n
      BY <1>2, LinksApart
    <3> QED BY <3>1, <3>2 DEF LinkInv
  <2>11. \A n \in PfsNames : pfsLink'[n] # c.id
    <3>1. c.id # -1 /\ pfsLink' = pfsLink
      BY <1>2, <1>3
    <3> QED BY <2>9, <3>1, Zenon
  <2>12. CmdInv(e)'
    BY <2>3, <2>4, <2>5, <2>7, <2>8, <2>11 DEF CmdInv
  <2> QED BY <1>2, <1>3, <1>5, <2>1, <2>2, <2>8, <2>10, <2>12, PfsTogether DEF PfsInv, PfsTypeOK
<1> QED BY <1>1, <1>4, <1>5 DEF SetNew

LEMMA MakeLinkInv ==
    ASSUME PfsInv, OneAtATime, NEW p \in PfsProcs, MakeLink(p) PROVE PfsInv'
<1>1. PICK c : c = pfsProc[p]
  OBVIOUS
<1>2. /\ c.pc = "symlink" /\ c \in PfsCommand /\ CmdInv(c) /\ UNCHANGED <<pfsTab, pfsCmds>>
  BY <1>1, CommandFacts DEF MakeLink
<1>3. /\ pfsCmds' \in Nat /\ MaxPfsId \in Nat /\ c.id \in 0..MaxPfsId /\ c.name \in PfsNames
      /\ c.uuid \in Nat
  BY <1>2, PfsAssumption, Zenon DEF PfsInv, PfsTypeOK, PfsCommand
<1>4. CASE StepTo(p, NoCmd) /\ UNCHANGED <<pfsLink, pfsMade>>
  BY <1>1, <1>2, <1>3, <1>4, OnlyCommand, Zenon
<1>5. CASE /\ pfsLink' = [pfsLink EXCEPT ![c.name] = c.id]
           /\ pfsMade' = [pfsMade EXCEPT ![c.name] = c.uuid]
           /\ StepTo(p, [c EXCEPT !.pc = "get"])
  <2>1. PICK e : e = [c EXCEPT !.pc = "get"]
    BY Zenon
  <2>2. e \in PfsCommand
    BY <1>2, <2>1, Zenon DEF PfsCommand
  <2>3. e.pc = "get" /\ e.cmd = c.cmd /\ e.role = c.role
    BY <1>2, <2>1 DEF PfsCommand
  <2>4. CmdInv(e)'
    BY <1>2, <2>3 DEF CmdInv
  <2>5. pfsLink \in [PfsNames -> -1..MaxPfsId] /\ pfsMade \in [PfsNames -> Nat]
    BY DEF PfsInv, PfsTypeOK
  <2>6. /\ pfsLink' \in [PfsNames -> -1..MaxPfsId] /\ pfsMade' \in [PfsNames -> Nat]
        /\ pfsLink'[c.name] = c.id /\ pfsMade'[c.name] = c.uuid
        /\ \A n \in PfsNames \ {c.name} : pfsLink'[n] = pfsLink[n] /\ pfsMade'[n] = pfsMade[n]
    BY <1>3, <1>5, <2>5
  <2>7. /\ pfsTab[c.id].role # "none" /\ pfsTab[c.id].uuid = c.uuid
        /\ c.id # 0 /\ \A n \in PfsNames : pfsLink[n] # c.id
    BY <1>2 DEF CmdInv
  <2>8. LinkInv'
    <3>1. ASSUME NEW n \in PfsNames, pfsLink'[n] # -1
          PROVE  /\ pfsTab'[pfsLink'[n]].role # "none" /\ pfsTab'[pfsLink'[n]].uuid = pfsMade'[n]
                 /\ pfsLink'[n] # 0
      <4>1. CASE n = c.name
        BY <1>2, <2>6, <2>7, <4>1
      <4>2. CASE n # c.name
        <5>1. /\ pfsTab[pfsLink[n]].role # "none" /\ pfsTab[pfsLink[n]].uuid = pfsMade[n]
              /\ pfsLink[n] \in 1..MaxPfsId
          BY <1>1, <1>2, <2>6, <3>1, <4>2, CommandFacts
        <5> QED BY <1>2, <1>3, <2>6, <4>2, <5>1
      <4> QED BY <4>1, <4>2
    <3>2. ASSUME NEW m \in PfsNames, NEW n \in PfsNames, pfsLink'[m] = pfsLink'[n],
                 pfsLink'[m] # -1
          PROVE  m = n
      <4>1. CASE m # c.name /\ n # c.name
        <5>1. pfsLink'[m] = pfsLink[m] /\ pfsLink'[n] = pfsLink[n]
          BY <2>6, <4>1
        <5> QED BY <3>2, <5>1, LinksApart, Zenon
      <4>2. CASE m = c.name \/ n = c.name
        BY <2>6, <2>7, <3>2, <4>2
      <4> QED BY <4>1, <4>2
    <3> QED BY <3>1, <3>2 DEF LinkInv
  <2>9. RootMaster' /\ Present' /\ pfsTab' \in [0..MaxPfsId -> PfsConfig]
    BY <1>2 DEF PfsInv, PfsTypeOK, RootMaster, Present
  <2> QED BY <1>3, <1>5, <2>1, <2>2, <2>4, <2>6, <2>8, <2>9, PfsTogether
<1> QED BY <1>1, <1>4, <1>5 DEF MakeLink

\* A PFS keeps its uuid and has a role when its configuration changes.
LEMMA ConfigChanges ==
    ASSUME PfsInv, OneAtATime, NEW p \in PfsProcs, pfsProc[p].pc = "ioctl",
           NEW f \in PfsConfig, NEW id \in 0..MaxPfsId, pfsTab' = [pfsTab EXCEPT ![id] = f],
           f.uuid = pfsTab[id].uuid, f.role # "none", id = 0 => f.role = "master",
           StepTo(p, NoCmd), UNCHANGED <<pfsLink, pfsMade, pfsCmds>>
    PROVE  PfsInv'
<1>1. id = 0 => f.uuid = 0
  BY Zenon DEF PfsInv, RootMaster
<1>2. /\ pfsTab' \in [0..MaxPfsId -> PfsConfig] /\ RootMaster' /\ Present'
      /\ pfsTab'[id] = f /\ \A j \in 0..MaxPfsId \ {id} : pfsTab'[j] = pfsTab[j]
  BY <1>1, StoreFacts, Zenon
<1>3. LinkInv'
  <2>1. ASSUME NEW n \in PfsNames, pfsLink'[n] # -1
        PROVE  /\ pfsTab'[pfsLink'[n]].role # "none" /\ pfsTab'[pfsLink'[n]].uuid = pfsMade'[n]
               /\ pfsLink'[n] # 0
    <3>1. /\ pfsTab[pfsLink[n]].role # "none" /\ pfsTab[pfsLink[n]].uuid = pfsMade[n]
          /\ pfsLink[n] \in 1..MaxPfsId
      BY <2>1, CommandFacts
    <3>2. pfsLink[n] \in 0..MaxPfsId /\ pfsLink[n] # 0
      BY <3>1, PfsAssumption
    <3> QED BY <1>2, <3>1, <3>2
  <2>2. \A m, n \in PfsNames : pfsLink'[m] = pfsLink'[n] /\ pfsLink'[m] # -1 => m = n
    BY LinksApart
  <2> QED BY <2>1, <2>2, Zenon DEF LinkInv
<1> QED BY <1>2, <1>3, PfsTogether, Zenon DEF PfsInv, PfsTypeOK

LEMMA UpdatePfsInv ==
    ASSUME PfsInv, OneAtATime, NEW p \in PfsProcs, UpdatePfs(p) PROVE PfsInv'
<1>1. PICK c : c = pfsProc[p]
  OBVIOUS
<1>2. /\ c.pc = "ioctl" /\ c.cmd \in {"create", "update"} /\ c \in PfsCommand /\ CmdInv(c)
      /\ StepTo(p, NoCmd) /\ UNCHANGED <<pfsLink, pfsMade, pfsCmds>>
      /\ pfsTab' = [pfsTab EXCEPT ![c.id] = [c.pfs EXCEPT !.prune = TimeToSecs(c.opt.t)]]
  BY <1>1, CommandFacts DEF UpdatePfs
<1>3. pfsTab[c.id] = c.pfs /\ c.pfs.role # "none" /\ TimeToSecs(c.opt.t) >= 0
  BY <1>2 DEF CmdInv
<1>4. c.id \in 0..MaxPfsId /\ c.pfs \in PfsConfig /\ c.opt \in PfsOptions
  BY <1>2 DEF PfsCommand
<1>5. TimeToSecs(c.opt.t) \in 0..IntTop
  BY <1>3, <1>4, TimeToSecsInt, PfsAssumption
<1>6. PICK f : f = [c.pfs EXCEPT !.prune = TimeToSecs(c.opt.t)]
  BY Zenon
<1>7. f \in PfsConfig
  BY <1>4, <1>5, <1>6, Zenon DEF PfsConfig
<1>8. f.role = c.pfs.role /\ f.uuid = c.pfs.uuid
  BY <1>4, <1>6 DEF PfsConfig
<1>9. c.id = 0 => c.pfs.role = "master"
  BY <1>3 DEF PfsInv, RootMaster
<1> QED BY <1>1, <1>2, <1>3, <1>4, <1>6, <1>7, <1>8, <1>9, ConfigChanges, Zenon

LEMMA ChangeRoleInv ==
    ASSUME PfsInv, OneAtATime, NEW p \in PfsProcs, ChangeRole(p) PROVE PfsInv'
<1>1. PICK c : c = pfsProc[p]
  OBVIOUS
<1> DEFINE new == IF c.cmd = "upgrade" THEN "master" ELSE "slave"
<1>2. /\ c.pc = "ioctl" /\ c.cmd \in {"upgrade", "downgrade"} /\ c \in PfsCommand /\ CmdInv(c)
      /\ StepTo(p, NoCmd) /\ UNCHANGED <<pfsLink, pfsMade, pfsCmds>>
      /\ pfsTab' = IF pfsTab[c.id] = NoPfs THEN pfsTab
                   ELSE [pfsTab EXCEPT ![c.id].role = new]
  BY <1>1, CommandFacts DEF ChangeRole
<1>3. pfsTab[c.id].role # "none" /\ c.id # 0
  BY <1>2 DEF CmdInv
<1>4. PICK g : g = pfsTab[c.id]
  OBVIOUS
<1>5. c.id \in 0..MaxPfsId /\ g \in PfsConfig /\ pfsTab[c.id] # NoPfs
  BY <1>2, <1>3, <1>4 DEF PfsCommand, PfsInv, PfsTypeOK, NoPfs
<1>6. PICK f : f = [g EXCEPT !.role = new]
  BY Zenon
<1>7. f \in PfsConfig
  <2>1. new \in {"none", "master", "slave"}
    OBVIOUS
  <2> HIDE DEF new
  <2> QED BY <1>5, <1>6, <2>1, Zenon DEF PfsConfig
<1>8. f.role # "none" /\ f.uuid = g.uuid
  BY <1>5, <1>6 DEF PfsConfig
<1>9. pfsTab' = [pfsTab EXCEPT ![c.id] = f]
  BY <1>2, <1>4, <1>5, <1>6
<1> QED BY <1>1, <1>2, <1>3, <1>4, <1>5, <1>7, <1>8, <1>9, ConfigChanges, Zenon

LEMMA DestroyPfsInv ==
    ASSUME PfsInv, OneAtATime, NEW p \in PfsProcs, DestroyPfs(p) PROVE PfsInv'
<1>1. PICK c : c = pfsProc[p]
  OBVIOUS
<1>2. /\ c.pc = "ioctl" /\ c.cmd = "destroy" /\ c \in PfsCommand /\ CmdInv(c)
      /\ UNCHANGED <<pfsLink, pfsMade, pfsCmds>>
  BY <1>1, CommandFacts DEF DestroyPfs
<1>3. /\ pfsCmds' \in Nat /\ MaxPfsId \in Nat /\ c.id \in 0..MaxPfsId /\ c.name \in PfsNames
      /\ c.id # 0 /\ pfsLink[c.name] = c.id
  BY <1>2, PfsAssumption, Zenon DEF PfsInv, PfsTypeOK, PfsCommand, CmdInv
<1>4. CASE StepTo(p, NoCmd) /\ UNCHANGED pfsTab
  BY <1>1, <1>2, <1>3, <1>4, OnlyCommand
<1>5. CASE pfsTab' = [pfsTab EXCEPT ![c.id] = NoPfs] /\ StepTo(p, [c EXCEPT !.pc = "unlink"])
  <2>1. PICK e : e = [c EXCEPT !.pc = "unlink"]
    BY Zenon
  <2>2. e \in PfsCommand
    BY <1>2, <2>1, Zenon DEF PfsCommand
  <2>3. e.pc = "unlink" /\ e.cmd = c.cmd /\ e.name = c.name /\ e.id = c.id
    BY <1>2, <2>1 DEF PfsCommand
  <2>4. NoPfs \in PfsConfig /\ NoPfs.role = "none"
    BY PfsAssumption DEF NoPfs, PfsConfig
  <2>5. /\ pfsTab' \in [0..MaxPfsId -> PfsConfig] /\ RootMaster' /\ Present'
        /\ pfsTab'[c.id] = NoPfs /\ \A j \in 0..MaxPfsId \ {c.id} : pfsTab'[j] = pfsTab[j]
    BY <1>3, <1>5, <2>4, StoreFacts, Zenon
  <2>6. pfsProc'[p].pc = "unlink" /\ pfsProc'[p].name = c.name
    BY <1>5, <2>1, <2>3 DEF StepTo, PfsInv, PfsTypeOK
  <2>7. LinkInv'
    <3>1. ASSUME NEW n \in PfsNames, pfsLink'[n] # -1, n # c.name
          PROVE  /\ pfsTab'[pfsLink'[n]].role # "none" /\ pfsTab'[pfsLink'[n]].uuid = pfsMade'[n]
                 /\ pfsLink'[n] # 0
      <4>1. /\ pfsTab[pfsLink[n]].role # "none" /\ pfsTab[pfsLink[n]].uuid = pfsMade[n]
            /\ pfsLink[n] \in 1..MaxPfsId
        BY <1>1, <1>2, <3>1, CommandFacts, Zenon
      <4>2. pfsLink[n] # c.id
        BY <1>2, <1>3, <3>1, LinksApart
      <4>3. pfsLink[n] \in 0..MaxPfsId \ {c.id} /\ pfsLink[n] # 0
        BY <1>3, <4>1, <4>2
      <4> QED BY <1>2, <2>5, <4>1, <4>3
    <3>2. \A m, n \in PfsNames : pfsLink'[m] = pfsLink'[n] /\ pfsLink'[m] # -1 => m = n
      BY <1>2, LinksApart
    <3> QED BY <2>6, <3>1, <3>2 DEF LinkInv
  <2>8. CmdInv(e)'
    BY <1>2, <1>3, <2>3 DEF CmdInv
  <2> QED BY <1>2, <1>3, <1>5, <2>1, <2>2, <2>5, <2>7, <2>8, PfsTogether, Zenon DEF PfsInv, PfsTypeOK
<1> QED BY <1>1, <1>4, <1>5 DEF DestroyPfs

LEMMA UnlinkPfsInv ==
    ASSUME PfsInv, OneAtATime, NEW p \in PfsProcs, UnlinkPfs(p) PROVE PfsInv'
<1>1. PICK c : c = pfsProc[p]
  OBVIOUS
<1>2. /\ c.pc = "unlink" /\ c \in PfsCommand /\ UNCHANGED <<pfsTab, pfsCmds>>
      /\ pfsLink' = [pfsLink EXCEPT ![c.name] = -1]
      /\ pfsMade' = [pfsMade EXCEPT ![c.name] = 0] /\ StepTo(p, NoCmd)
  BY <1>1, CommandFacts, Zenon DEF UnlinkPfs, RemoveLink
<1>3. pfsCmds' \in Nat /\ MaxPfsId \in Nat /\ c.name \in PfsNames
  BY <1>2, PfsAssumption DEF PfsInv, PfsTypeOK, PfsCommand
<1>4. pfsLink \in [PfsNames -> -1..MaxPfsId] /\ pfsMade \in [PfsNames -> Nat]
  BY DEF PfsInv, PfsTypeOK
<1>5. /\ pfsLink' \in [PfsNames -> -1..MaxPfsId] /\ pfsMade' \in [PfsNames -> Nat]
      /\ pfsLink'[c.name] = -1
      /\ \A n \in PfsNames \ {c.name} : pfsLink'[n] = pfsLink[n] /\ pfsMade'[n] = pfsMade[n]
  <2>1. -1 \in -1..MaxPfsId
    BY <1>3
  <2> QED BY <1>2, <1>3, <1>4, <2>1
<1>6. LinkInv'
  <2>1. ASSUME NEW n \in PfsNames, pfsLink'[n] # -1
        PROVE  /\ pfsTab'[pfsLink'[n]].role # "none" /\ pfsTab'[pfsLink'[n]].uuid = pfsMade'[n]
               /\ pfsLink'[n] # 0
    <3>1. n # c.name /\ pfsLink'[n] = pfsLink[n] /\ pfsMade'[n] = pfsMade[n]
      BY <1>5, <2>1
    <3>2. \A q \in PfsProcs : pfsProc[q].name # n
      BY <1>1, <3>1, Zenon DEF OneAtATime
    <3> QED BY <1>2, <2>1, <3>1, <3>2, Zenon DEF PfsInv, LinkInv
  <2>2. ASSUME NEW m \in PfsNames, NEW n \in PfsNames, pfsLink'[m] = pfsLink'[n],
               pfsLink'[m] # -1
        PROVE  m = n
    <3>1. m # c.name /\ n # c.name
      BY <1>5, <2>2, Zenon
    <3>2. pfsLink'[m] = pfsLink[m] /\ pfsLink'[n] = pfsLink[n]
      BY <1>5, <3>1
    <3> QED BY <2>2, <3>2, LinksApart, Zenon
  <2> QED BY <2>1, <2>2 DEF LinkInv
<1>7. RootMaster' /\ Present' /\ pfsTab' \in [0..MaxPfsId -> PfsConfig]
  BY <1>2 DEF PfsInv, PfsTypeOK, RootMaster, Present
<1> QED BY <1>2, <1>3, <1>5, <1>6, <1>7, PfsTogether

\* Every step of a PFS command keeps the invariant.
LEMMA PfsStep ==
    ASSUME PfsInv, OneAtATime, NEW opts \in SUBSET PfsOptions, opts # {},
           [PfsNext(opts)]_pfsVars
    PROVE  PfsInv'
<1>1. CASE UNCHANGED pfsVars
  <2>1. /\ pfsTab' = pfsTab /\ pfsLink' = pfsLink /\ pfsProc' = pfsProc /\ pfsCmds' = pfsCmds
        /\ pfsMade' = pfsMade
    BY <1>1 DEF pfsVars
  <2>2. PfsTypeOK' /\ RootMaster' /\ Present'
    BY <2>1 DEF PfsInv, PfsTypeOK, RootMaster, Present
  <2>3. LinkInv'
    BY <2>1 DEF PfsInv, LinkInv
  <2>4. \A p \in PfsProcs : CmdInv(pfsProc[p])' = CmdInv(pfsProc[p])
    <3>1. \A c : CmdInv(c)' = CmdInv(c)
      BY <2>1, Zenon DEF CmdInv
    <3>2. TAKE p \in PfsProcs
    <3>3. PICK c : c = pfsProc[p]
      BY Zenon
    <3> QED BY <2>1, <3>1, <3>3, Zenon
  <2> QED BY <2>1, <2>2, <2>3, <2>4 DEF PfsInv, Present
<1>2. ASSUME NEW p \in PfsProcs, NEW n \in PfsNames, NEW opt \in opts,
             \/ \E role \in {"master", "slave"} : StartCmd(p, "create", n, role, opt)
             \/ StartCmd(p, "update", n, "none", opt)
      PROVE  PfsInv'
  BY <1>2, StartCmdInv
<1>3. ASSUME NEW p \in PfsProcs, NEW n \in PfsNames,
             NEW cmd \in {"destroy", "upgrade", "downgrade"},
             StartCmd(p, cmd, n, "none", CHOOSE opt \in opts : TRUE)
      PROVE  PfsInv'
  <2>1. PICK o : o = CHOOSE opt \in opts : TRUE
    OBVIOUS
  <2>2. o \in PfsOptions
    BY <2>1
  <2> QED BY <1>3, <2>1, <2>2, StartCmdInv
<1>4. ASSUME NEW p \in PfsProcs,
             \/ ScanIds(p) \/ SetNew(p) \/ MakeLink(p) \/ UpdatePfs(p)
             \/ ChangeRole(p) \/ DestroyPfs(p) \/ UnlinkPfs(p)
      PROVE  PfsInv'
  BY <1>4, ScanIdsInv, SetNewInv, MakeLinkInv, UpdatePfsInv, ChangeRoleInv, DestroyPfsInv,
     UnlinkPfsInv
<1>5. CASE PfsEnded
  BY <1>1, <1>5 DEF PfsEnded
<1> QED BY <1>1, <1>2, <1>3, <1>4, <1>5, GetPfsInv DEF PfsNext

\* After any sequence of PFS commands that do not overlap, each with any
\* options and failing anywhere, for any number of names and of PFSs: links
\* lead to the PFSs made under them, the root PFS stays a master, and the time
\* that pfs-status shows is the one that pfs-update would set again.
THEOREM PfsSoundThm ==
    ASSUME OneAtATime, NEW opts \in SUBSET PfsOptions, opts # {}
    PROVE  PfsSpec(opts) => []PfsSound
<1>1. ASSUME PfsInv PROVE PfsSound
  <2>1. OwnPfs
    <3> SUFFICES ASSUME PfsQuiet, NEW n \in PfsNames, pfsLink[n] # -1
                 PROVE  /\ pfsTab[pfsLink[n]] # NoPfs
                        /\ pfsTab[pfsLink[n]].uuid = pfsMade[n]
      BY DEF OwnPfs
    <3>1. \A p \in PfsProcs : pfsProc[p].pc # "unlink"
      <4>1. NoCmd.pc = "idle"
        BY DEF NoCmd
      <4> QED BY <4>1, Zenon DEF PfsQuiet
    <3>2. pfsTab[pfsLink[n]].role # "none" /\ pfsTab[pfsLink[n]].uuid = pfsMade[n]
      BY <1>1, <3>1 DEF PfsInv, LinkInv
    <3> QED BY <3>2 DEF NoPfs
  <2>2. PruneRoundTrip
    <3>1. DOMAIN pfsTab = 0..MaxPfsId /\ \A id \in 0..MaxPfsId : pfsTab[id].prune \in 0..IntTop
      BY <1>1, Zenon DEF PfsInv, PfsTypeOK, PfsConfig
    <3> QED BY <3>1, TimeRoundTrip DEF PruneRoundTrip
  <2> QED BY <1>1, <2>1, <2>2 DEF PfsSound, PfsInv
<1>2. PfsInv /\ [PfsNext(opts)]_pfsVars => PfsInv'
  BY PfsStep
<1> QED BY PfsInitial, <1>1, <1>2, PTL DEF PfsSpec
=============================================================================
