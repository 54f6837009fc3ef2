--------------------------- MODULE VolumeTheorems ---------------------------
(***************************************************************************)
(* Proofs about the volumes of HAMMER (HammerVolumes): what newfs_hammer   *)
(* and hammer strip leave on any devices loads as what it is, wherever     *)
(* they are stopped.  VolInv is what each step keeps: the headers of one   *)
(* filesystem were written from one list of devices, in which a volume's   *)
(* number is its place.                                                    *)
(***************************************************************************)
EXTENDS HammerVolumes, FiniteSetTheorems, TLAPS

\* The lists of devices that newfs_hammer takes.
VolLists == UNION {[1..n -> Disks] : n \in 1..HammerMaxVolumes}

\* The header h of device d, one of the volumes in the list L of newfs_hammer.
LaidOut(h, d, L) ==
  /\ h.no \in Nat /\ h.no + 1 \in 1..Len(L) /\ L[h.no + 1] = d
  /\ h.count = Len(L)

\* The areas in the header of device d, one after the other.
AreasFit(h, d) ==
  /\ h.bot \in Int /\ h.mem \in Int /\ h.buf \in Int /\ h.end \in Int
  /\ 1 <= h.bot /\ h.bot <= h.mem /\ h.mem <= h.buf /\ h.buf < h.end
  /\ h.end <= DiskSize[d]

\* Device d has a header of filesystem fs.
Holds(d, fs) == volHdr[d].sig = "hammer" /\ volHdr[d].fs = fs

\* The filesystem fs was made on the list L, and its headers are where L has them.
MadeOn(fs, L) ==
  /\ Range(L) = volMade[fs]
  /\ \A d \in Disks : Holds(d, fs) => LaidOut(volHdr[d], d, L)

\* Every header belongs to a filesystem that was made, and those of one were
\* written from one list.
HdrInv ==
  /\ volHdr = [d \in Disks |-> volHdr[d]] /\ volMeta \in [Disks -> Int]
  /\ volMade \in Seq(SUBSET Disks)
  /\ \A d \in Disks : volHdr[d].sig = "hammer" =>
       volHdr[d].fs \in 1..Len(volMade) /\ AreasFit(volHdr[d], d)
  /\ \A fs \in 1..Len(volMade) : \E L \in VolLists : MadeOn(fs, L)

\* The first n devices of the list are different ones.
Distinct(list, n) == \A i, j \in 1..n : list[i] = list[j] => i = j

\* The filesystem that newfs_hammer is making is the last, on its list.
Making(list) ==
  /\ list \in VolLists /\ volMade # <<>> /\ MadeOn(Len(volMade), list)

\* While newfs_hammer opens its devices no header of its filesystem is written.
OpenInv ==
  /\ volCmd \in [cmd : {"newfs"}, pc : {"open"}, list : VolLists, opt : HvOptions, next : Nat]
  /\ volCmd.next \in 1..Len(volCmd.list) + 1
  /\ Distinct(volCmd.list, volCmd.next - 1)
  /\ Making(volCmd.list) /\ \A d \in Disks : ~Holds(d, Len(volMade))

\* The header that newfs_hammer writes to the i-th device of its list.
NewHdr(h, list, i) ==
  /\ h.sig = "hammer" /\ h.fs = Len(volMade) /\ h.no = i - 1 /\ h.count = Len(list)
  /\ AreasFit(h, list[i])

\* While headers are written those before the next one are in place.
FlushInv ==
  /\ volCmd.pc = "flush"
  /\ volCmd = [cmd |-> volCmd.cmd, pc |-> "flush", list |-> volCmd.list, next |-> volCmd.next,
               hdrs |-> volCmd.hdrs, meta |-> volCmd.meta]
  /\ volCmd.list \in Seq(Disks) /\ volCmd.next \in 1..Len(volCmd.list)
  /\ volCmd.meta \in [1..Len(volCmd.list) -> Int]
  /\ \A i \in 1..volCmd.next - 1 : volHdr[volCmd.list[i]] = volCmd.hdrs[i]
  /\ \/ /\ volCmd.cmd = "newfs" /\ Making(volCmd.list)
        /\ Distinct(volCmd.list, Len(volCmd.list))
        /\ \A i \in 1..Len(volCmd.list) : NewHdr(volCmd.hdrs[i], volCmd.list, i)
     \/ /\ volCmd.cmd = "strip"
        /\ \A i \in 1..Len(volCmd.list) : volCmd.hdrs[i] = StrippedHdr

\* When all are written they are those of newfs_hammer, or erased.
DoneInv ==
  /\ volCmd.pc = "done" /\ volCmd.list \in Seq(Disks)
  /\ \/ /\ volCmd.cmd = "newfs" /\ Making(volCmd.list)
        /\ Distinct(volCmd.list, Len(volCmd.list))
        /\ \A i \in 1..Len(volCmd.list) : NewHdr(volHdr[volCmd.list[i]], volCmd.list, i)
     \/ /\ volCmd.cmd = "strip"
        /\ \A i \in 1..Len(volCmd.list) : volHdr[volCmd.list[i]] = StrippedHdr

\* What the running program has done so far.
CmdInv == volCmd.pc \in {"idle", "failed", "killed"} \/ OpenInv \/ FlushInv \/ DoneInv

\* The invariant.
VolInv == HdrInv /\ CmdInv

-----------------------------------------------------------------------------
(* Maps of a finite set to itself.                                         *)

\* A map of 1..n to itself is one-to-one if and only if it is onto.
LEMMA IntoOnto ==
  ASSUME NEW n \in Nat, NEW f \in [1..n -> 1..n]
  PROVE  IsInjective(f) <=> \A k \in 1..n : \E i \in 1..n : f[i] = k
<1>1. IsFiniteSet(1..n)
  BY FS_Interval
<1>2. ASSUME IsInjective(f) PROVE \A k \in 1..n : \E i \in 1..n : f[i] = k
  <2>1. f \in Injection(1..n, 1..n)
    BY <1>2 DEF Injection
  <2>2. f \in Surjection(1..n, 1..n)
    BY <1>1, <2>1, FS_Injection
  <2> QED BY <2>2 DEF Surjection
<1>3. ASSUME \A k \in 1..n : \E i \in 1..n : f[i] = k PROVE IsInjective(f)
  <2>1. f \in Surjection(1..n, 1..n)
    BY <1>3, Zenon DEF Surjection
  <2>2. f \in Injection(1..n, 1..n)
    BY <1>1, <2>1, FS_Surjection
  <2> QED BY <2>2 DEF Injection
<1> QED BY <1>2, <1>3

\* The order of the natural numbers, as a relation.
Less == {p \in Nat \X Nat : p[1] < p[2]}

\* It is well-founded.
LEMMA LessWellFounded == IsWellFoundedOn(Less, Nat)
<1>1. OpToRel(<, Nat) = Less
  BY DEF OpToRel, Less
<1> QED BY <1>1, NatLessThanWellFounded, Zenon

\* Some indices below n + 1 have a last one.
LEMMA LastIndex ==
    ASSUME NEW n \in Nat, NEW Y \in SUBSET (1..n), Y # {}
    PROVE  \E k \in Y : \A l \in Y : l <= k
<1> DEFINE T == {n - k : k \in Y}
<1>1. T \subseteq Nat /\ T # {}
  <2>1. \A k \in Y : n - k \in Nat
    OBVIOUS
  <2>2. PICK k : k \in Y
    OBVIOUS
  <2> QED BY <2>1, <2>2
<1> HIDE DEF T
<1>2. PICK x \in T : \A y \in T : ~(<<y, x>> \in Less)
  BY <1>1, LessWellFounded, WFMin, Zenon
<1>3. ASSUME NEW y \in T PROVE x <= y
  <2>1. x \in Nat /\ y \in Nat /\ <<y, x>> \notin Less
    BY <1>1, <1>2
  <2>2. \A a, b \in Nat : a < b => <<a, b>> \in Less
    BY DEF Less
  <2> QED BY <2>1, <2>2
<1>4. PICK k \in Y : x = n - k
  BY DEF T
<1>5. ASSUME NEW l \in Y PROVE l <= k
  <2>1. n - l \in T
    BY DEF T
  <2>2. n - k <= n - l /\ k \in Nat /\ l \in Nat
    BY <1>3, <1>4, <2>1
  <2> QED BY <2>2
<1> QED BY <1>5

\* A set of at most one element, by its cardinality.
LEMMA AtMostOne ==
  ASSUME NEW S, IsFiniteSet(S)
  PROVE  Cardinality(S) <= 1 <=> \A x, y \in S : x = y
<1>1. Cardinality(S) \in Nat
  BY FS_CardinalityType
<1>2. ASSUME Cardinality(S) <= 1, NEW x \in S, NEW y \in S PROVE x = y
  <2>1. Cardinality(S) # 0
    BY <1>2, FS_EmptySet
  <2>2. Cardinality(S) = 1
    BY <1>1, <1>2, <2>1
  <2>3. \E z : S = {z}
    BY <2>2, FS_Singleton, Zenon
  <2> QED BY <1>2, <2>3
<1>3. ASSUME \A x, y \in S : x = y PROVE Cardinality(S) <= 1
  <2>1. CASE S = {}
    BY <2>1, FS_EmptySet
  <2>2. CASE S # {}
    <3>1. PICK z \in S : TRUE
      BY <2>2
    <3>2. S = {z}
      BY <1>3, <3>1
    <3>3. Cardinality(S) = 1
      BY <3>2, FS_Singleton, Zenon
    <3> QED BY <3>3
  <2> QED BY <2>1, <2>2
<1> QED BY <1>2, <1>3

-----------------------------------------------------------------------------
(* What it takes to load a list of devices.                                *)

\* The elements and places of a list of devices without labels.
LEMMA PlainFacts ==
  ASSUME NEW list \in Seq(Disks)
  PROVE  LET E == PlainElems(list) IN
         /\ Len(E) = Len(list)
         /\ \A k \in 1..Len(list) : Len(E[k]) = 1 /\ E[k][1] = list[k]
         /\ Places(E) = {<<k, 1>> : k \in 1..Len(list)}
         /\ \A k \in 1..Len(list) :
              /\ DiskAt(E, <<k, 1>>) = list[k]
              /\ EarlierPlaces(E, <<k, 1>>) = {<<j, 1>> : j \in 1..k - 1}
<1> DEFINE E == PlainElems(list)
<1>1. E \in Seq(Seq(Disks)) /\ Len(E) = Len(list)
  BY DEF PlainElems
<1>2. \A k \in 1..Len(list) : E[k] = <<list[k]>>
  BY DEF PlainElems
<1>3. \A k \in 1..Len(list) : Len(E[k]) = 1 /\ E[k][1] = list[k]
  <2> HIDE DEF E
  <2>1. \A x : Len(<<x>>) = 1 /\ <<x>>[1] = x
    OBVIOUS
  <2> QED BY <1>2, <2>1, Zenon
<1>4. Places(E) = {<<k, 1>> : k \in 1..Len(list)}
  <2>1. \A k \in 1..Len(list) : {k} \X (1..Len(E[k])) = {<<k, 1>>}
    <3> TAKE k \in 1..Len(list)
    <3> HIDE DEF E
    <3>1. 1..Len(E[k]) = 1..1
      BY <1>3, Zenon
    <3>2. 1..1 = {1}
      OBVIOUS
    <3> QED BY <3>1, <3>2
  <2>2. Places(E) = UNION {{k} \X (1..Len(E[k])) : k \in 1..Len(list)}
    BY <1>1 DEF Places
  <2> HIDE DEF E
  <2> QED BY <2>1, <2>2
<1>5. ASSUME NEW k \in 1..Len(list)
      PROVE  /\ DiskAt(E, <<k, 1>>) = list[k]
             /\ EarlierPlaces(E, <<k, 1>>) = {<<j, 1>> : j \in 1..k - 1}
  <2> HIDE DEF E
  <2>1. DiskAt(E, <<k, 1>>) = list[k]
    BY <1>3 DEF DiskAt
  <2>2. EarlierPlaces(E, <<k, 1>>) = {q \in Places(E) : q[1] < k \/ (q[1] = k /\ q[2] < 1)}
    BY DEF EarlierPlaces
  <2>3. \A q \in Places(E) : q[2] = 1 /\ q[1] \in 1..Len(list) /\ q = <<q[1], 1>>
    BY <1>4
  <2>4. EarlierPlaces(E, <<k, 1>>) = {q \in Places(E) : q[1] < k}
    <3>1. \A q \in Places(E) : ~(q[2] < 1)
      BY <2>3
    <3> QED BY <2>2, <3>1, Zenon
  <2>5. \A j \in 1..Len(list) : <<j, 1>> \in Places(E)
    BY <1>4
  <2>6. \A j \in 1..k - 1 : j \in 1..Len(list) /\ j < k
    OBVIOUS
  <2>7. \A j \in 1..Len(list) : j < k => j \in 1..k - 1
    OBVIOUS
  <2>8. \A j : <<j, 1>>[1] = j
    OBVIOUS
  <2>9. {q \in Places(E) : q[1] < k} = {<<j, 1>> : j \in 1..k - 1}
    <3>1. ASSUME NEW q \in Places(E), q[1] < k PROVE \E j \in 1..k - 1 : q = <<j, 1>>
      BY <2>3, <2>7, <3>1, Zenon
    <3>2. ASSUME NEW j \in 1..k - 1 PROVE <<j, 1>> \in Places(E) /\ <<j, 1>>[1] < k
      BY <2>5, <2>6, <2>8, Zenon
    <3> QED BY <3>1, <3>2, Zenon
  <2> QED BY <2>1, <2>4, <2>9, Zenon
<1> QED BY <1>1, <1>3, <1>4, <1>5

\* A list of devices loads when its volumes are of one filesystem, with
\* different numbers, the last counts them all, and one is the root volume.
LEMMA LoadsFacts ==
  ASSUME NEW list \in Seq(Disks), list # <<>>
  PROVE  Loads(list) <=>
           /\ \A i \in 1..Len(list) : Holds(list[i], volHdr[list[1]].fs)
           /\ \A i, j \in 1..Len(list) :
                volHdr[list[i]].no = volHdr[list[j]].no => i = j
           /\ volHdr[list[Len(list)]].count = Len(list)
           /\ \E i \in 1..Len(list) : volHdr[list[i]].no = 0
<1> DEFINE E == PlainElems(list)
           n == Len(list)
           plain == {k \in 1..Len(E) : Len(E[k]) = 1}
<1>1. n \in Nat \ {0}
  OBVIOUS
<1>0. /\ Len(E) = n
      /\ \A k \in 1..n : Len(E[k]) = 1 /\ E[k][1] = list[k]
      /\ Places(E) = {<<k, 1>> : k \in 1..n}
      /\ \A k \in 1..n : /\ DiskAt(E, <<k, 1>>) = list[k]
                        /\ EarlierPlaces(E, <<k, 1>>) = {<<j, 1>> : j \in 1..k - 1}
  BY PlainFacts, Zenon
<1>9. \A k \in 1..n : DiskAt(E, <<k, 1>>) = list[k]
  BY <1>0, Zenon
<1>2. plain = 1..n /\ Len(E) = n
  <2> HIDE DEF E
  <2> QED BY <1>0
<1>3. Cardinality(plain) = n /\ plain # {}
  <2>1. Cardinality(1..n) = n
    BY <1>1, FS_Interval
  <2>2. 1 \in 1..n
    BY <1>1
  <2> HIDE DEF n, plain
  <2> QED BY <1>2, <2>1, <2>2, Zenon
<1>4. LastPlain(E) = n
  <2>1. \A k \in 1..n : (Len(E[k]) = 1 /\ \A j \in k + 1..n : Len(E[j]) > 1) <=> k = n
    <3> HIDE DEF E, n
    <3>1. \A k \in 1..n : Len(E[k]) = 1
      BY <1>0, Zenon
    <3>2. ASSUME NEW k \in 1..n, k # n PROVE k + 1 \in k + 1..n /\ k + 1 \in 1..n
      BY <1>1, <3>2
    <3>3. n + 1..n = {}
      BY <1>1
    <3>4. ~(1 > 1)
      OBVIOUS
    <3> QED BY <3>1, <3>2, <3>3, <3>4, Zenon
  <2> HIDE DEF E, n
  <2>2. LastPlain(E) = CHOOSE k \in 1..n : k = n
    BY <1>2, <2>1 DEF LastPlain
  <2> QED BY <1>1, <2>2
<1>5. RootIn(E, Len(E)) <=> \E i \in 1..n : volHdr[list[i]].no = 0
  <2>1. \A k \in 1..n : Range(E[k]) = {list[k]}
    <3> TAKE k \in 1..n
    <3>1. E[k] = <<list[k]>>
      BY DEF PlainElems
    <3> HIDE DEF E
    <3> QED BY <3>1 DEF Range
  <2> HIDE DEF E, n
  <2> QED BY <1>2, <2>1 DEF RootIn, RootVolno
<1>6. ASSUME NEW k \in 1..n
      PROVE  LoadVolume(E, <<k, 1>>, TRUE) <=>
               /\ \A j \in 1..k - 1 : list[j] # list[k] /\ volHdr[list[j]].no # volHdr[list[k]].no
               /\ Holds(list[k], volHdr[list[1]].fs)
  <2>1. DiskAt(E, <<k, 1>>) = list[k] /\ E[1][1] = list[1]
    <3>1. 1 \in 1..n
      BY <1>1
    <3> HIDE DEF E, n
    <3> QED BY <1>0, <3>1, Zenon
  <2>2. LoadVolume(E, <<k, 1>>, TRUE) <=>
          /\ \A q \in EarlierPlaces(E, <<k, 1>>) :
               DiskAt(E, q) # list[k] /\ volHdr[DiskAt(E, q)].no # volHdr[list[k]].no
          /\ Holds(list[k], volHdr[list[1]].fs)
    <3> HIDE DEF E
    <3> DEFINE L(q) == <<DiskAt(E, q), volHdr[DiskAt(E, q)].no>>
    <3>1. LoadVolume(E, <<k, 1>>, TRUE) <=>
            /\ Addable({L(q) : q \in EarlierPlaces(E, <<k, 1>>)}, list[k], volHdr[list[k]].no)
            /\ Holds(list[k], volHdr[list[1]].fs)
      BY <2>1, Zenon DEF LoadVolume, VerifyVolume, Holds
    <3>2. \A q : L(q)[1] = DiskAt(E, q) /\ L(q)[2] = volHdr[DiskAt(E, q)].no
      OBVIOUS
    <3> HIDE DEF L
    <3>3. Addable({L(q) : q \in EarlierPlaces(E, <<k, 1>>)}, list[k], volHdr[list[k]].no) <=>
            \A q \in EarlierPlaces(E, <<k, 1>>) :
              L(q)[1] # list[k] /\ L(q)[2] # volHdr[list[k]].no
      BY Zenon DEF Addable
    <3> QED BY <3>1, <3>2, <3>3, Zenon
  <2>3. EarlierPlaces(E, <<k, 1>>) = {<<j, 1>> : j \in 1..k - 1}
    BY <1>0, Zenon
  <2>4. 1..k - 1 \subseteq 1..n
    BY <1>1
  <2> HIDE DEF E, n
  <2>5. \A j \in 1..k - 1 : DiskAt(E, <<j, 1>>) = list[j]
    BY <1>9, <2>4, Zenon
  <2>6. (\A q \in {<<j, 1>> : j \in 1..k - 1} :
           DiskAt(E, q) # list[k] /\ volHdr[DiskAt(E, q)].no # volHdr[list[k]].no)
        <=> \A j \in 1..k - 1 :
              /\ DiskAt(E, <<j, 1>>) # list[k]
              /\ volHdr[DiskAt(E, <<j, 1>>)].no # volHdr[list[k]].no
    BY Zenon
  <2> QED BY <2>2, <2>3, <2>5, <2>6, Zenon
<1>7. Loads(list) <=> /\ \A k \in 1..n : LoadVolume(E, <<k, 1>>, TRUE)
                      /\ volHdr[list[n]].count = n
                      /\ RootIn(E, Len(E))
  <2>1. Places(E) = {<<k, 1>> : k \in 1..n} /\ E[n][1] = list[n]
    <3> HIDE DEF E, n
    <3> QED BY <1>0, <1>1
  <2>2. 1..Len(E) \ plain = {}
    BY <1>2
  <2>3. Loads(list) <=> /\ \A p \in Places(E) : LoadVolume(E, p, TRUE)
                        /\ plain # {}
                        /\ \A k \in 1..Len(E) \ plain :
                             volHdr[E[k][Len(E[k])]].count = Len(E[k]) /\ RootIn(E, k)
                        /\ volHdr[E[LastPlain(E)][1]].count = Cardinality(plain)
                        /\ RootIn(E, Len(E))
    BY DEF Loads, ParseBlkdevs
  <2> HIDE DEF E, n, plain
  <2> QED BY <1>3, <1>4, <2>1, <2>2, <2>3, Zenon
<1>8. (\A k \in 1..n : \A j \in 1..k - 1 :
          list[j] # list[k] /\ volHdr[list[j]].no # volHdr[list[k]].no)
        <=> \A i, j \in 1..n : volHdr[list[i]].no = volHdr[list[j]].no => i = j
  BY <1>1
<1> HIDE DEF E, n
<1> QED BY <1>5, <1>6, <1>7, <1>8, Zenon DEF n

-----------------------------------------------------------------------------
(* The properties follow from the invariant.                               *)

\* The values of a sequence are finitely many.
LEMMA RangeFinite ==
  ASSUME NEW n \in Nat, NEW S, NEW f \in [1..n -> S]
  PROVE  IsFiniteSet(Range(f)) /\ Range(f) \subseteq S
<1>1. f \in Surjection(1..n, Range(f))
  BY DEF Surjection, Range
<1>2. IsFiniteSet(1..n)
  BY FS_Interval
<1>3. IsFiniteSet(Range(f))
  BY <1>1, <1>2, FS_Surjection
<1> QED BY <1>3 DEF Range

\* The lists that the properties speak of are lists of devices.
LEMMA DiskListsFacts ==
  ASSUME HdrInv, NEW list \in DiskLists
  PROVE  list \in Seq(Disks) /\ list # <<>>
<1> DEFINE used == UNION Range(volMade)
<1>1. volMade \in [1..Len(volMade) -> SUBSET Disks] /\ Len(volMade) \in Nat
  BY DEF HdrInv
<1>2. IsFiniteSet(Range(volMade)) /\ Range(volMade) \subseteq SUBSET Disks
  BY <1>1, RangeFinite, Zenon
<1>3. \A T \in Range(volMade) : IsFiniteSet(T)
  <2> SUFFICES ASSUME NEW fs \in 1..Len(volMade) PROVE IsFiniteSet(volMade[fs])
    BY <1>1 DEF Range
  <2>1. PICK L \in VolLists : MadeOn(fs, L)
    BY DEF HdrInv
  <2>2. PICK n \in 1..HammerMaxVolumes : L \in [1..n -> Disks]
    BY DEF VolLists
  <2>3. n \in Nat
    BY HammerVolumesAssumption
  <2>4. IsFiniteSet(Range(L))
    BY <2>2, <2>3, RangeFinite
  <2> QED BY <2>1, <2>4 DEF MadeOn
<1>4. IsFiniteSet(used)
  BY <1>2, <1>3, FS_UNION
<1>5. Cardinality(used) \in Nat
  BY <1>4, FS_CardinalityType
<1>6. used \subseteq Disks
  BY <1>2
<1>7. PICK n \in 1..Cardinality(used) : list \in [1..n -> used]
  BY Zenon DEF DiskLists
<1>8. n \in Nat \ {0}
  BY <1>5, <1>7
<1> HIDE DEF used
<1>9. list \in [1..n -> Disks]
  BY <1>6, <1>7
<1>10. list \in Seq(Disks) /\ Len(list) = n
  BY <1>8, <1>9
<1> QED BY <1>8, <1>10

\* The lists that newfs_hammer takes are sequences of devices.
LEMMA VolListsFacts ==
  ASSUME NEW L \in VolLists
  PROVE  /\ L \in Seq(Disks) /\ Len(L) \in 1..HammerMaxVolumes
         /\ L \in [1..Len(L) -> Disks]
<1>1. PICK n \in 1..HammerMaxVolumes : L \in [1..n -> Disks]
  BY DEF VolLists
<1>2. n \in Nat
  BY HammerVolumesAssumption
<1> QED BY <1>1, <1>2

\* The devices of one filesystem, with their places in its list.
LEMMA Members ==
  ASSUME HdrInv, NEW list \in Seq(Disks), list # <<>>,
         \A i \in 1..Len(list) : Holds(list[i], volHdr[list[1]].fs)
  PROVE  \E L \in VolLists :
           /\ Range(L) = volMade[volHdr[list[1]].fs]
           /\ \A i \in 1..Len(list) : LaidOut(volHdr[list[i]], list[i], L)
<1> DEFINE fs == volHdr[list[1]].fs
<1>1. 1 \in 1..Len(list) /\ \A i \in 1..Len(list) : list[i] \in Disks
  OBVIOUS
<1>2. fs \in 1..Len(volMade)
  BY <1>1, Zenon DEF HdrInv, Holds
<1>3. PICK L \in VolLists : MadeOn(fs, L)
  BY <1>2 DEF HdrInv
<1> QED BY <1>1, <1>3, Zenon DEF MadeOn

\* As many devices as the list has, with different numbers, are all of it.
LEMMA AllNumbers ==
  ASSUME NEW L \in VolLists, NEW list \in Seq(Disks), Len(list) = Len(L),
         \A i \in 1..Len(list) : LaidOut(volHdr[list[i]], list[i], L)
  PROVE  (\A i, j \in 1..Len(list) : volHdr[list[i]].no = volHdr[list[j]].no => i = j)
           <=> \A k \in 1..Len(list) : \E i \in 1..Len(list) : volHdr[list[i]].no + 1 = k
<1> DEFINE n == Len(list)
           f == [i \in 1..n |-> volHdr[list[i]].no + 1]
<1>1. n \in Nat
  OBVIOUS
<1>2. f \in [1..n -> 1..n]
  BY DEF LaidOut
<1>3. IsInjective(f) <=> \A i, j \in 1..n : volHdr[list[i]].no = volHdr[list[j]].no => i = j
  <2>1. \A i \in 1..n : volHdr[list[i]].no \in Nat /\ f[i] = volHdr[list[i]].no + 1
    BY DEF LaidOut
  <2>2. \A i, j \in 1..n : f[i] = f[j] <=> volHdr[list[i]].no = volHdr[list[j]].no
    <3> HIDE DEF f, n
    <3> QED BY <2>1
  <2>3. DOMAIN f = 1..n
    OBVIOUS
  <2> HIDE DEF f, n
  <2>4. IsInjective(f) <=> \A i, j \in 1..n : f[i] = f[j] => i = j
    BY <2>3 DEF IsInjective
  <2> QED BY <2>2, <2>4
<1>4. \A i \in 1..n : f[i] = volHdr[list[i]].no + 1
  OBVIOUS
<1>5. IsInjective(f) <=> \A k \in 1..n : \E i \in 1..n : f[i] = k
  <2> HIDE DEF f, n
  <2> QED BY <1>1, <1>2, IntoOnto, Zenon
<1> HIDE DEF f, n
<1>6. (\A k \in 1..n : \E i \in 1..n : f[i] = k)
        <=> \A k \in 1..n : \E i \in 1..n : volHdr[list[i]].no + 1 = k
  <2>1. \A k, i \in 1..n : f[i] = k <=> volHdr[list[i]].no + 1 = k
    BY <1>4, Zenon
  <2> QED BY <2>1, Zenon
<1>7. (\A i, j \in 1..n : volHdr[list[i]].no = volHdr[list[j]].no => i = j)
        <=> \A k \in 1..n : \E i \in 1..n : volHdr[list[i]].no + 1 = k
  BY <1>3, <1>5, <1>6, Zenon
<1> QED BY <1>7 DEF n

\* A list that loads is the list of its filesystem, in some order.
LEMMA LoadsWholeStep ==
  ASSUME HdrInv, NEW list \in Seq(Disks), list # <<>>, Loads(list)
  PROVE  LET fs == volHdr[list[1]].fs IN
         /\ Range(list) = volMade[fs] /\ \A d \in Range(list) : volHdr[d].fs = fs
         /\ \E L \in VolLists :
              /\ Len(L) = Len(list)
              /\ \A i \in 1..Len(list) : LaidOut(volHdr[list[i]], list[i], L)
         /\ \A k \in 1..Len(list) : \E i \in 1..Len(list) : volHdr[list[i]].no + 1 = k
<1> DEFINE fs == volHdr[list[1]].fs
           n == Len(list)
<1>1. /\ \A i \in 1..n : Holds(list[i], fs)
      /\ \A i, j \in 1..n : volHdr[list[i]].no = volHdr[list[j]].no => i = j
      /\ volHdr[list[n]].count = n
  BY LoadsFacts
<1>2. n \in 1..n /\ DOMAIN list = 1..n
  OBVIOUS
<1>3. PICK L \in VolLists : /\ Range(L) = volMade[fs]
                            /\ \A i \in 1..n : LaidOut(volHdr[list[i]], list[i], L)
  BY <1>1, Members
<1>4. Len(L) = n
  BY <1>1, <1>2, <1>3 DEF LaidOut
<1>5. \A k \in 1..n : \E i \in 1..n : volHdr[list[i]].no + 1 = k
  BY <1>1, <1>3, <1>4, AllNumbers, Zenon
<1>6. Range(list) = Range(L)
  <2>1. DOMAIN L = 1..n
    BY <1>4, VolListsFacts
  <2> HIDE DEF n
  <2>2. \A i \in 1..n : volHdr[list[i]].no + 1 \in 1..n /\ L[volHdr[list[i]].no + 1] = list[i]
    BY <1>3, <1>4 DEF LaidOut
  <2>3. \A i \in 1..n : list[i] \in Range(L)
    BY <2>1, <2>2 DEF Range
  <2>4. \A k \in 1..n : \E i \in 1..n : L[k] = list[i]
    BY <1>5, <2>2, Zenon
  <2> QED BY <1>2, <2>1, <2>3, <2>4, Zenon DEF Range
<1>7. \A d \in Range(list) : volHdr[d].fs = fs
  BY <1>1, <1>2 DEF Range, Holds
<1> QED BY <1>3, <1>4, <1>5, <1>6, <1>7, Zenon

\* LoadsWhole follows from what is known of the headers.
LEMMA LoadsWholeHolds == ASSUME HdrInv PROVE LoadsWhole
BY DiskListsFacts, LoadsWholeStep, Zenon DEF LoadsWhole

\* What it takes for fstyp to accept a list: the headers agree, every number
\* comes once, and the numbers are those below the count.
LEMMA FstypFacts ==
  ASSUME NEW list \in Seq(Disks), list # <<>>
  PROVE  FsvtypHammer(list, FALSE) <=>
           /\ \A i \in 1..Len(list) : TestOndisk(volHdr[list[1]], volHdr[list[i]])
           /\ \E i \in 1..Len(list) : volHdr[list[i]].no = 0
           /\ \A i, j \in 1..Len(list) : volHdr[list[i]].no = volHdr[list[j]].no => i = j
           /\ \A m \in 0..HammerMaxVolumes - 1 :
                (\E i \in 1..Len(list) : volHdr[list[i]].no = m)
                  <=> ~(volHdr[list[1]].count <= m)
<1> DEFINE n == Len(list)
           N == HammerMaxVolumes
           seen(m) == {i \in 1..n : volHdr[list[i]].no = m}
           missing == {m \in 0..N - 1 : seen(m) = {}}
           root == list[CHOOSE i \in seen(0) : \A j \in seen(0) : j <= i]
<1>1. n \in Nat \ {0} /\ N \in Nat \ {0}
  BY HammerVolumesAssumption
<1>2. FsvtypHammer(list, FALSE) <=>
        /\ \A i \in 1..n : TestOndisk(volHdr[list[1]], volHdr[list[i]])
        /\ seen(0) # {}
        /\ \A m \in 0..N - 1 : Cardinality(seen(m)) <= 1
        /\ missing = volHdr[root].count..N - 1
  BY Zenon DEF FsvtypHammer, RootVolno
<1> SUFFICES ASSUME \A i \in 1..n : TestOndisk(volHdr[list[1]], volHdr[list[i]]),
                    seen(0) # {}
             PROVE  ((\A m \in 0..N - 1 : Cardinality(seen(m)) <= 1)
                      /\ missing = volHdr[root].count..N - 1)
                    <=> /\ \A i, j \in 1..n : volHdr[list[i]].no = volHdr[list[j]].no => i = j
                        /\ \A m \in 0..N - 1 :
                             (\E i \in 1..n : volHdr[list[i]].no = m)
                               <=> ~(volHdr[list[1]].count <= m)
  <2>1. seen(0) # {} <=> \E i \in 1..n : volHdr[list[i]].no = 0
    OBVIOUS
  <2> HIDE DEF seen, missing, root, n, N
  <2> QED BY <1>2, <2>1, Zenon DEF n, N
<1>3. \A i \in 1..n : volHdr[list[i]].no \in 0..N - 1
  BY DEF TestOndisk
<1>4. (\A m \in 0..N - 1 : Cardinality(seen(m)) <= 1)
        <=> \A i, j \in 1..n : volHdr[list[i]].no = volHdr[list[j]].no => i = j
  <2>1. ASSUME NEW m \in 0..N - 1 PROVE IsFiniteSet(seen(m))
    <3>1. seen(m) \subseteq 1..n /\ IsFiniteSet(1..n)
      BY <1>1, FS_Interval
    <3> HIDE DEF seen, n
    <3> QED BY <3>1, FS_Subset, Zenon
  <2>2. \A m \in 0..N - 1 : Cardinality(seen(m)) <= 1 <=> \A i, j \in seen(m) : i = j
    <3> HIDE DEF seen
    <3> QED BY <2>1, AtMostOne, Zenon
  <2> HIDE DEF N, n
  <2>3. (\A m \in 0..N - 1 : \A i, j \in seen(m) : i = j)
          <=> \A i, j \in 1..n : volHdr[list[i]].no = volHdr[list[j]].no => i = j
    BY <1>3
  <2> HIDE DEF seen
  <2> QED BY <2>2, <2>3, Zenon
<1>5. missing = volHdr[root].count..N - 1
        <=> \A m \in 0..N - 1 : (\E i \in 1..n : volHdr[list[i]].no = m)
                                 <=> ~(volHdr[list[1]].count <= m)
  <2>1. \E i \in 1..n : root = list[i]
    <3>1. \E i \in seen(0) : \A j \in seen(0) : j <= i
      BY <1>1, LastIndex, Zenon
    <3>2. (CHOOSE i \in seen(0) : \A j \in seen(0) : j <= i) \in seen(0)
      <4> HIDE DEF seen
      <4> QED BY <3>1, Zenon
    <3> QED BY <3>2, Zenon
  <2>2. volHdr[root].count = volHdr[list[1]].count /\ volHdr[list[1]].count \in 1..N
    BY <1>1, <2>1 DEF TestOndisk
  <2> DEFINE c == volHdr[list[1]].count
  <2>3. missing = c..N - 1 <=> \A m \in 0..N - 1 : seen(m) = {} <=> c <= m
    <3>1. c..N - 1 = {m \in 0..N - 1 : c <= m}
      <4>0. c \in 1..N /\ N \in Nat
        BY <1>1, <2>2, Zenon
      <4> HIDE DEF c, N
      <4>1. c \in Nat /\ N \in Nat
        BY <4>0
      <4> QED BY <4>1
    <3> HIDE DEF c, N, seen
    <3> QED BY <3>1
  <2>4. \A m \in 0..N - 1 : seen(m) = {} <=> ~\E i \in 1..n : volHdr[list[i]].no = m
    OBVIOUS
  <2> HIDE DEF missing, seen, root, n, N
  <2> QED BY <2>2, <2>3, <2>4
<1> HIDE DEF missing, seen, root, n, N
<1> QED BY <1>4, <1>5, Zenon

\* A one-to-one map of 1..n onto 1..c makes n and c the same.
LEMMA SameLength ==
  ASSUME NEW n \in Nat, NEW c \in Nat, NEW f \in [1..n -> 1..c], IsInjective(f),
         \A k \in 1..c : \E i \in 1..n : f[i] = k
  PROVE  n = c
<1>1. IsFiniteSet(1..c) /\ Cardinality(1..c) = c /\ Cardinality(1..n) = n
  BY FS_Interval
<1>2. f \in Injection(1..n, 1..c) /\ f \in Surjection(1..n, 1..c)
  BY DEF Injection, Surjection
<1> QED BY <1>1, <1>2, FS_Injection

\* What fstyp accepts loads, whatever the headers are.
LEMMA FstypLoads ==
  ASSUME NEW list \in Seq(Disks), list # <<>>, FsvtypHammer(list, FALSE)
  PROVE  Loads(list)
<1> DEFINE n == Len(list)
           no(i) == volHdr[list[i]].no
           c == volHdr[list[1]].count
           f == [i \in 1..n |-> no(i) + 1]
<1>1. /\ \A i \in 1..n : TestOndisk(volHdr[list[1]], volHdr[list[i]])
      /\ \E i \in 1..n : no(i) = 0
      /\ \A i, j \in 1..n : no(i) = no(j) => i = j
      /\ \A m \in 0..HammerMaxVolumes - 1 : (\E i \in 1..n : no(i) = m) <=> ~(c <= m)
  BY FstypFacts, Zenon
<1>2. n \in Nat /\ n \in 1..n /\ 1 \in 1..n /\ HammerMaxVolumes \in Nat
  BY HammerVolumesAssumption
<1>3. /\ \A i \in 1..n : no(i) \in 0..HammerMaxVolumes - 1
      /\ c \in 1..HammerMaxVolumes /\ volHdr[list[n]].count = c
      /\ \A i \in 1..n : Holds(list[i], volHdr[list[1]].fs)
  <2> HIDE DEF n
  <2> QED BY <1>1, <1>2 DEF TestOndisk, Holds
<1> HIDE DEF no, c, n
<1>4. c \in Nat /\ \A i \in 1..n : no(i) + 1 \in 1..c
  <2>1. c \in Nat
    BY <1>2, <1>3
  <2>2. ASSUME NEW i \in 1..n PROVE no(i) + 1 \in 1..c
    <3>1. no(i) \in 0..HammerMaxVolumes - 1
      BY <1>3
    <3>2. ~(c <= no(i))
      BY <1>1, <3>1
    <3> QED BY <1>2, <2>1, <3>1, <3>2
  <2> QED BY <2>1, <2>2
<1>5. f \in [1..n -> 1..c]
  BY <1>4
<1>6. IsInjective(f)
  <2>1. DOMAIN f = 1..n /\ \A i \in 1..n : f[i] = no(i) + 1 /\ no(i) \in Nat
    BY <1>3
  <2> HIDE DEF f
  <2> QED BY <1>1, <2>1 DEF IsInjective
<1>7. \A k \in 1..c : \E i \in 1..n : f[i] = k
  <2> TAKE k \in 1..c
  <2>1. k - 1 \in 0..HammerMaxVolumes - 1 /\ ~(c <= k - 1)
    BY <1>2, <1>3
  <2>2. PICK i \in 1..n : no(i) = k - 1
    BY <1>1, <2>1
  <2> QED BY <1>4, <2>2
<1> HIDE DEF f
<1>8. n = c
  BY <1>2, <1>4, <1>5, <1>6, <1>7, SameLength, Zenon
<1> QED BY <1>1, <1>3, <1>8, LoadsFacts, Zenon DEF n, no, c

\* What loads is accepted by fstyp, and each of its volumes as a part.
LEMMA LoadsFstyp ==
  ASSUME HdrInv, NEW list \in Seq(Disks), list # <<>>, Loads(list)
  PROVE  /\ FsvtypHammer(list, FALSE)
         /\ \A i \in 1..Len(list) : FsvtypHammer(<<list[i]>>, TRUE)
<1> DEFINE n == Len(list)
           no(i) == volHdr[list[i]].no
<1>1. /\ \A i \in 1..n : Holds(list[i], volHdr[list[1]].fs)
      /\ \A i, j \in 1..n : no(i) = no(j) => i = j
      /\ \E i \in 1..n : no(i) = 0
  BY LoadsFacts
<1>2. PICK L \in VolLists : Len(L) = n /\ \A i \in 1..n : LaidOut(volHdr[list[i]], list[i], L)
  BY LoadsWholeStep, Zenon
<1>3. \A k \in 1..n : \E i \in 1..n : no(i) + 1 = k
  BY LoadsWholeStep
<1>4. n \in 1..HammerMaxVolumes /\ HammerMaxVolumes \in Nat /\ 1 \in 1..n
  BY <1>2, VolListsFacts, HammerVolumesAssumption
<1>5. \A i \in 1..n : no(i) \in 0..n - 1 /\ volHdr[list[i]].count = n
  <2> HIDE DEF n
  <2> QED BY <1>2, <1>4 DEF LaidOut
<1>6. \A i, j \in 1..n : TestOndisk(volHdr[list[j]], volHdr[list[i]])
  <2>1. \A i \in 1..n : no(i) \in 0..HammerMaxVolumes - 1
    <3> HIDE DEF no, n
    <3> QED BY <1>4, <1>5
  <2> HIDE DEF n
  <2> QED BY <1>1, <1>4, <1>5, <2>1, Zenon DEF TestOndisk, Holds
<1>7. FsvtypHammer(list, FALSE)
  <2>1. \A m \in 0..HammerMaxVolumes - 1 : (\E i \in 1..n : no(i) = m) <=> ~(n <= m)
    <3> HIDE DEF no, n
    <3> TAKE m \in 0..HammerMaxVolumes - 1
    <3>1. ASSUME NEW i \in 1..n, no(i) = m PROVE ~(n <= m)
      BY <1>4, <1>5, <3>1
    <3>2. ASSUME ~(n <= m) PROVE \E i \in 1..n : no(i) = m
      <4>1. m + 1 \in 1..n
        BY <1>4, <3>2
      <4>2. PICK i \in 1..n : no(i) + 1 = m + 1
        BY <1>3, <4>1
      <4> QED BY <1>5, <4>2
    <3> QED BY <3>1, <3>2
  <2>2. volHdr[list[1]].count = n
    BY <1>4, <1>5
  <2>3. \A i \in 1..n : TestOndisk(volHdr[list[1]], volHdr[list[i]])
    BY <1>4, <1>6
  <2>4. \A m \in 0..HammerMaxVolumes - 1 :
          (\E i \in 1..n : volHdr[list[i]].no = m) <=> ~(volHdr[list[1]].count <= m)
    <3> HIDE DEF n
    <3> QED BY <2>1, <2>2
  <2> QED BY <1>1, <2>3, <2>4, FstypFacts, Zenon
<1>8. ASSUME NEW i \in 1..n PROVE FsvtypHammer(<<list[i]>>, TRUE)
  <2> DEFINE s == <<list[i]>>
  <2>1. \A x : Len(<<x>>) = 1 /\ <<x>>[1] = x /\ <<x>> # <<>>
    OBVIOUS
  <2>4. Len(s) = 1 /\ s[1] = list[i] /\ s # <<>>
    BY <2>1, Zenon
  <2> HIDE DEF s
  <2>2. s # <<>> /\ \A j \in 1..Len(s) : TestOndisk(volHdr[s[1]], volHdr[s[j]])
    BY <1>6, <2>4
  <2>3. FsvtypHammer(s, TRUE)
    BY <2>2 DEF FsvtypHammer
  <2> QED BY <2>3, Zenon DEF s
<1> QED BY <1>7, <1>8, Zenon

\* FstypAsLoaded follows from what is known of the headers.
LEMMA FstypHolds == ASSUME HdrInv PROVE FstypAsLoaded
BY DiskListsFacts, FstypLoads, LoadsFstyp, Zenon DEF FstypAsLoaded

\* NewfsLoads: a list of the devices of newfs_hammer has each of them once.
LEMMA NewfsLoadsHolds == ASSUME HdrInv, CmdInv PROVE NewfsLoads
<1> SUFFICES ASSUME volCmd.pc = "done", volCmd.cmd = "newfs", NEW list \in DiskLists,
                    Len(list) = Len(volCmd.list), Range(list) = Range(volCmd.list)
             PROVE  Loads(list)
  BY DEF NewfsLoads
<1> DEFINE C == volCmd.list
           n == Len(C)
<1>1. /\ C \in VolLists /\ Distinct(C, n)
      /\ \A i \in 1..n : NewHdr(volHdr[C[i]], C, i)
  BY DEF CmdInv, OpenInv, FlushInv, DoneInv, Making
<1>2. list \in Seq(Disks) /\ list # <<>> /\ DOMAIN list = 1..n
  BY DiskListsFacts
<1>3. n \in Nat /\ DOMAIN C = 1..n
  BY <1>1, VolListsFacts
<1> HIDE DEF C
<1>4. \A i \in 1..n : \E k \in 1..n : list[i] = C[k]
  BY <1>2, <1>3, Zenon DEF Range, C
<1>5. \A k \in 1..n : \E i \in 1..n : list[i] = C[k]
  BY <1>2, <1>3, Zenon DEF Range, C
<1>6. ASSUME NEW i \in 1..n
      PROVE  /\ LaidOut(volHdr[list[i]], list[i], C)
             /\ Holds(list[i], Len(volMade)) /\ volHdr[list[i]].count = n
  <2>1. PICK k \in 1..n : list[i] = C[k]
    BY <1>4
  <2> QED BY <1>1, <1>3, <2>1 DEF NewHdr, LaidOut, Holds
<1>7. \A k \in 1..n : \E i \in 1..n : volHdr[list[i]].no + 1 = k
  <2> TAKE k \in 1..n
  <2>1. PICK i \in 1..n : list[i] = C[k]
    BY <1>5
  <2>2. volHdr[list[i]].no = k - 1
    BY <1>1, <2>1 DEF NewHdr
  <2> QED BY <2>2
<1>8. Len(list) = n
  BY DEF C
<1> HIDE DEF n
<1>9. \A i, j \in 1..n : volHdr[list[i]].no = volHdr[list[j]].no => i = j
  <2>1. Len(list) = Len(C) /\ \A i \in 1..Len(list) : LaidOut(volHdr[list[i]], list[i], C)
    BY <1>6, <1>8, Zenon DEF n
  <2>2. \A k \in 1..Len(list) : \E i \in 1..Len(list) : volHdr[list[i]].no + 1 = k
    BY <1>7, <1>8, Zenon
  <2> QED BY <1>1, <1>2, <1>8, <2>1, <2>2, AllNumbers, Zenon
<1>10. 1 \in 1..n /\ n \in 1..n
  BY <1>2, <1>8
<1>11. \E i \in 1..n : volHdr[list[i]].no = 0
  <2>1. PICK i \in 1..n : volHdr[list[i]].no + 1 = 1
    BY <1>7, <1>10
  <2> QED BY <1>6, <2>1 DEF LaidOut
<1>12. \A i \in 1..n : Holds(list[i], volHdr[list[1]].fs)
  BY <1>6, <1>10 DEF Holds
<1> QED BY <1>2, <1>6, <1>8, <1>9, <1>10, <1>11, <1>12, LoadsFacts

\* StripFinal: a stripped header is not one of HAMMER.
LEMMA StripFinalHolds == ASSUME HdrInv, CmdInv PROVE StripFinal
<1> SUFFICES ASSUME volCmd.pc = "done", volCmd.cmd = "strip", NEW list \in DiskLists,
                    Loads(list), NEW d \in Range(list) \cap Range(volCmd.list)
             PROVE  FALSE
  BY DEF StripFinal
<1>1. /\ volCmd.list \in Seq(Disks)
      /\ \A i \in 1..Len(volCmd.list) : volHdr[volCmd.list[i]] = StrippedHdr
  BY DEF CmdInv, OpenInv, FlushInv, DoneInv
<1>2. volHdr[d] = StrippedHdr
  BY <1>1 DEF Range
<1>3. list \in Seq(Disks) /\ list # <<>>
  BY DiskListsFacts
<1>4. \A i \in 1..Len(list) : volHdr[list[i]].sig = "hammer"
  BY <1>3, LoadsFacts DEF Holds
<1>5. volHdr[d].sig = "hammer"
  BY <1>3, <1>4 DEF Range
<1> QED BY <1>2, <1>5 DEF StrippedHdr, BlankHdr

\* The property follows from the invariant.
LEMMA VolumesImplied == ASSUME VolInv PROVE VolumesSound
<1>1. AreasInOrder
  BY DEF VolInv, HdrInv, AreasFit, AreasInOrder
<1> QED BY <1>1, LoadsWholeHolds, FstypHolds, NewfsLoadsHolds, StripFinalHolds
        DEF VolInv, VolumesSound
-----------------------------------------------------------------------------
(* The invariant is inductive.                                             *)

\* The invariant holds of devices without headers.
LEMMA VolInitial == ASSUME HvInit PROVE VolInv
<1>1. \A d \in Disks : volHdr[d] = BlankHdr
  BY DEF HvInit
<1>2. BlankHdr.sig # "hammer"
  BY DEF BlankHdr
<1>3. volMade = <<>> /\ 1..Len(volMade) = {} /\ volMade \in Seq(SUBSET Disks)
  BY DEF HvInit
<1>4. HdrInv
  <2>1. volHdr = [d \in Disks |-> volHdr[d]] /\ volMeta \in [Disks -> Int]
    BY DEF HvInit
  <2> QED BY <1>1, <1>2, <1>3, <2>1 DEF HdrInv
<1>5. CmdInv
  BY DEF HvInit, CmdInv
<1> QED BY <1>4, <1>5 DEF VolInv

\* Writing one header keeps what was known of the others.
LEMMA HdrWritten ==
  ASSUME HdrInv, NEW d \in Disks, NEW h, volHdr' = [volHdr EXCEPT ![d] = h],
         volMade' = volMade, volMeta' \in [Disks -> Int],
         h.sig = "hammer" =>
           /\ h.fs \in 1..Len(volMade) /\ AreasFit(h, d)
           /\ \E L \in VolLists : MadeOn(h.fs, L) /\ LaidOut(h, d, L)
  PROVE  /\ HdrInv'
         /\ \A e \in Disks : volHdr'[e] = IF e = d THEN h ELSE volHdr[e]
         /\ \A fs, L : MadeOn(fs, L) /\ (h.sig = "hammer" /\ h.fs = fs => LaidOut(h, d, L))
                       => MadeOn(fs, L)'
<1>1. /\ volHdr' = [e \in Disks |-> volHdr'[e]]
      /\ \A e \in Disks : volHdr'[e] = IF e = d THEN h ELSE volHdr[e]
  BY Zenon DEF HdrInv
<1>2. ASSUME NEW fs, NEW L, MadeOn(fs, L), h.sig = "hammer" /\ h.fs = fs => LaidOut(h, d, L)
      PROVE  MadeOn(fs, L)'
  <2>1. Range(L) = volMade'[fs]
    BY <1>2 DEF MadeOn
  <2>2. ASSUME NEW e \in Disks, volHdr'[e].sig = "hammer", volHdr'[e].fs = fs
        PROVE  LaidOut(volHdr'[e], e, L)
    <3>1. CASE e = d
      BY <1>1, <1>2, <2>2, <3>1
    <3>2. CASE e # d
      BY <1>1, <1>2, <2>2, <3>2 DEF MadeOn, Holds
    <3> QED BY <3>1, <3>2
  <2> QED BY <2>1, <2>2 DEF MadeOn, Holds
<1>3. \A e \in Disks : volHdr'[e].sig = "hammer" =>
        volHdr'[e].fs \in 1..Len(volMade') /\ AreasFit(volHdr'[e], e)
  BY <1>1 DEF HdrInv
<1>4. ASSUME NEW fs \in 1..Len(volMade') PROVE \E L \in VolLists : MadeOn(fs, L)'
  <2>1. CASE h.sig = "hammer" /\ h.fs = fs
    BY <1>2, <2>1
  <2>2. CASE ~(h.sig = "hammer" /\ h.fs = fs)
    <3>1. PICK L \in VolLists : MadeOn(fs, L)
      BY DEF HdrInv
    <3> QED BY <1>2, <2>2, <3>1
  <2> QED BY <2>1, <2>2
<1>5. HdrInv'
  BY <1>1, <1>3, <1>4 DEF HdrInv
<1> QED BY <1>1, <1>2, <1>5

\* What is known of the headers does not depend on the meta-data.
LEMMA HdrKept ==
  ASSUME HdrInv, UNCHANGED <<volHdr, volMade>>, volMeta' \in [Disks -> Int]
  PROVE  HdrInv'
BY DEF HdrInv, MadeOn, Holds

\* hammer strip loads a list, and has headers of its own to write.
LEMMA StartStripInv ==
  ASSUME VolInv, NEW list \in Seq(Disks), StartStrip(list)
  PROVE  VolInv'
<1>1. UNCHANGED <<volHdr, volMeta, volMade>> /\ volMeta \in [Disks -> Int]
  BY DEF StartStrip, VolInv, HdrInv
<1>2. HdrInv'
  BY <1>1, HdrKept DEF VolInv
<1>3. CASE volCmd' = [pc |-> "failed"]
  BY <1>2, <1>3 DEF VolInv, CmdInv
<1>4. CASE volCmd' # [pc |-> "failed"]
  <2>1. PICK extra : volCmd' = [cmd |-> "strip", pc |-> "flush", list |-> list, next |-> 1,
                                hdrs |-> StripHdrs(list),
                                meta |-> [i \in 1..Len(list) |->
                                            StripMeta(list, list[i], extra)]]
    BY <1>4, Zenon DEF StartStrip
  <2>2. \A d \in Disks : StripMeta(list, d, extra) \in Int
    BY <1>1 DEF StripMeta
  <2> DEFINE m == [i \in 1..Len(list) |-> StripMeta(list, list[i], extra)]
             hs == StripHdrs(list)
  <2>3. m \in [1..Len(list) -> Int]
    BY <2>2
  <2>4. list # <<>> /\ 1 \in 1..Len(list)
    BY DEF StartStrip
  <2>5. \A i \in 1..Len(list) : hs[i] = StrippedHdr
    BY DEF StripHdrs
  <2> HIDE DEF m, hs
  <2>6. volCmd' = [cmd |-> "strip", pc |-> "flush", list |-> list, next |-> 1, hdrs |-> hs,
                   meta |-> m]
    BY <2>1 DEF m, hs
  <2>7. FlushInv'
    BY <2>3, <2>4, <2>5, <2>6 DEF FlushInv
  <2> QED BY <1>2, <2>7 DEF VolInv, CmdInv
<1> QED BY <1>3, <1>4

\* newfs_hammer starts a filesystem that no header belongs to.
LEMMA StartNewfsInv ==
  ASSUME VolInv, NEW list \in Seq(Disks), NEW o \in HvOptions, StartNewfs(list, o)
  PROVE  VolInv'
<1>1. UNCHANGED <<volHdr, volMeta>> /\ volMeta \in [Disks -> Int]
  BY DEF StartNewfs, VolInv, HdrInv
<1>2. CASE ~NewfsOptions(list, o)
  <2>1. HdrInv'
    BY <1>1, <1>2, HdrKept DEF VolInv, StartNewfs
  <2> QED BY <1>2, <2>1 DEF VolInv, CmdInv, StartNewfs
<1>3. CASE NewfsOptions(list, o)
  <2>0. PICK n : n = Len(volMade)
    OBVIOUS
  <2>1. /\ volCmd' = [cmd |-> "newfs", pc |-> "open", list |-> list, opt |-> o, next |-> 1]
        /\ volMade' = Append(volMade, Range(list))
    BY <1>3 DEF StartNewfs
  <2>2. list \in VolLists /\ Len(list) \in Nat /\ Len(list) >= 1
    BY <1>3, HammerVolumesAssumption DEF NewfsOptions, VolLists
  <2>3. volMade \in Seq(SUBSET Disks) /\ n \in Nat
    BY <2>0 DEF VolInv, HdrInv
  <2>4. Range(list) \in SUBSET Disks
    BY DEF Range
  <2>5. /\ volMade' \in Seq(SUBSET Disks) /\ Len(volMade') = n + 1
        /\ volMade'[n + 1] = Range(list) /\ \A fs \in 1..n : volMade'[fs] = volMade[fs]
    BY <2>0, <2>1, <2>3, <2>4
  <2>6. \A d \in Disks : ~Holds(d, n + 1)
    BY <2>0, <2>3 DEF VolInv, HdrInv, Holds
  <2>7. MadeOn(n + 1, list)' /\ \A d \in Disks : ~Holds(d, n + 1)'
    BY <1>1, <2>5, <2>6 DEF MadeOn, Holds
  <2>8. \A fs \in 1..n : \E L \in VolLists : MadeOn(fs, L)'
    <3> TAKE fs \in 1..n
    <3>1. PICK L \in VolLists : MadeOn(fs, L)
      BY <2>0 DEF VolInv, HdrInv
    <3>2. MadeOn(fs, L)'
      BY <1>1, <2>5, <3>1 DEF MadeOn, Holds
    <3> QED BY <3>2
  <2>9. HdrInv'
    <3>1. \A fs \in 1..n + 1 : \E L \in VolLists : MadeOn(fs, L)'
      <4>1. \A fs \in 1..n + 1 : fs \in 1..n \/ fs = n + 1
        BY <2>3
      <4> QED BY <2>2, <2>7, <2>8, <4>1, Zenon
    <3>2. \A d \in Disks : volHdr[d].sig = "hammer" =>
            volHdr[d].fs \in 1..n + 1 /\ AreasFit(volHdr[d], d)
      BY <2>0, <2>3 DEF VolInv, HdrInv
    <3>3. volHdr' = [d \in Disks |-> volHdr'[d]] /\ volMeta' \in [Disks -> Int]
      BY <1>1 DEF VolInv, HdrInv
    <3> QED BY <1>1, <2>5, <3>1, <3>2, <3>3 DEF HdrInv
  <2>10. OpenInv'
    <3>1. volMade' # <<>>
      BY <2>3, <2>5
    <3>2. Making(list)'
      BY <2>2, <2>5, <2>7, <3>1 DEF Making
    <3>3. \A d \in Disks : ~Holds(d, Len(volMade))'
      BY <2>5, <2>7 DEF Holds
    <3>4. /\ volCmd' \in [cmd : {"newfs"}, pc : {"open"}, list : VolLists, opt : HvOptions,
                           next : Nat]
          /\ volCmd'.list = list /\ volCmd'.next = 1
      BY <2>1, <2>2
    <3>5. 1 \in 1..Len(list) + 1 /\ Distinct(list, 1 - 1)
      BY <2>2 DEF Distinct
    <3> QED BY <3>2, <3>3, <3>4, <3>5 DEF OpenInv
  <2> QED BY <2>9, <2>10 DEF VolInv, CmdInv
<1> QED BY <1>2, <1>3

\* The state of newfs_hammer while it opens its devices.
LEMMA OpenFacts ==
  ASSUME VolInv, volCmd.pc = "open"
  PROVE  \E list \in VolLists, o \in HvOptions, k \in Nat, n \in Nat :
           /\ volCmd = [cmd |-> "newfs", pc |-> "open", list |-> list, opt |-> o, next |-> k]
           /\ k \in 1..Len(list) + 1 /\ Distinct(list, k - 1)
           /\ n = Len(volMade) /\ volMade # <<>> /\ MadeOn(n, list)
           /\ \A d \in Disks : ~Holds(d, n)
<1>1. OpenInv
  BY DEF VolInv, CmdInv, FlushInv, DoneInv
<1>2. volCmd = [cmd |-> "newfs", pc |-> "open", list |-> volCmd.list, opt |-> volCmd.opt,
                next |-> volCmd.next]
  BY <1>1 DEF OpenInv
<1>3. volCmd.list \in VolLists /\ volCmd.opt \in HvOptions /\ volCmd.next \in Nat
  BY <1>1 DEF OpenInv
<1>4. Len(volMade) \in Nat
  BY DEF VolInv, HdrInv
<1> QED BY <1>1, <1>2, <1>3, <1>4, Zenon DEF OpenInv, Making

\* Opening and trimming a device: the devices so far are different ones.
LEMMA OpenVolumeInv == ASSUME VolInv, OpenVolume PROVE VolInv'
<1>1. PICK list \in VolLists, o \in HvOptions, k \in Nat, n \in Nat :
        /\ volCmd = [cmd |-> "newfs", pc |-> "open", list |-> list, opt |-> o, next |-> k]
        /\ k \in 1..Len(list) + 1 /\ Distinct(list, k - 1)
        /\ n = Len(volMade) /\ volMade # <<>> /\ MadeOn(n, list)
        /\ \A d \in Disks : ~Holds(d, n)
  BY OpenFacts DEF OpenVolume
<1>2. /\ volCmd.pc = "open" /\ volCmd.list = list /\ volCmd.next = k /\ volCmd.opt = o
      /\ volMade' = volMade /\ volMeta \in [Disks -> Int]
  BY <1>1 DEF OpenVolume, VolInv, HdrInv
<1>3. list \in Seq(Disks) /\ Len(list) \in Nat /\ k <= Len(list) /\ list[k] \in Disks
  BY <1>1, <1>2, VolListsFacts DEF OpenVolume
<1>4. CASE volCmd' = [pc |-> "failed"] /\ UNCHANGED <<volHdr, volMeta>>
  <2>1. HdrInv'
    BY <1>2, <1>4, HdrKept DEF VolInv
  <2> QED BY <1>4, <2>1 DEF VolInv, CmdInv
<1>5. ASSUME ~(volCmd' = [pc |-> "failed"] /\ UNCHANGED <<volHdr, volMeta>>)
      PROVE  VolInv'
  <2>1. Addable({<<list[j], j - 1>> : j \in 1..k - 1}, list[k], k - 1)
    BY <1>2, <1>5 DEF OpenVolume
  <2>2. volCmd' = [cmd |-> "newfs", pc |-> "open", list |-> list, opt |-> o, next |-> k + 1]
    <3>1. volCmd' = [volCmd EXCEPT !.next = @ + 1]
      BY <1>2, <1>5 DEF OpenVolume, TrimVolume
    <3> QED BY <1>1, <3>1
  <2>3. \/ UNCHANGED <<volHdr, volMeta>>
        \/ /\ volHdr' = [volHdr EXCEPT ![list[k]] = BlankHdr]
           /\ volMeta' = [volMeta EXCEPT ![list[k]] = 0]
    BY <1>2, <1>5 DEF OpenVolume, TrimVolume
  <2>4. HdrInv' /\ MadeOn(n, list)' /\ \A d \in Disks : ~Holds(d, n)'
    <3>1. CASE UNCHANGED <<volHdr, volMeta>>
      <4>1. HdrInv'
        BY <1>2, <3>1, HdrKept DEF VolInv
      <4> QED BY <1>1, <1>2, <3>1, <4>1 DEF MadeOn, Holds
    <3>2. CASE /\ volHdr' = [volHdr EXCEPT ![list[k]] = BlankHdr]
               /\ volMeta' = [volMeta EXCEPT ![list[k]] = 0]
      <4>1. volMeta' \in [Disks -> Int]
        BY <1>2, <1>3, <3>2
      <4>2. BlankHdr.sig # "hammer"
        BY DEF BlankHdr
      <4>3. /\ HdrInv' /\ \A fs, L : MadeOn(fs, L) => MadeOn(fs, L)'
            /\ \A e \in Disks : volHdr'[e] = IF e = list[k] THEN BlankHdr ELSE volHdr[e]
        <5>1. HdrInv /\ volMade' = volMade /\ list[k] \in Disks
          BY <1>2, <1>3 DEF VolInv
        <5> QED BY <3>2, <4>1, <4>2, <5>1, HdrWritten, Zenon
      <4>4. \A d \in Disks : ~Holds(d, n)'
        BY <1>1, <4>2, <4>3 DEF Holds
      <4> QED BY <1>1, <4>3, <4>4
    <3> QED BY <2>3, <3>1, <3>2
  <2>5. Distinct(list, k)
    <3>1. \A j \in 1..k - 1 : list[j] # list[k]
      <4>1. \A j \in 1..k - 1 : <<list[j], j - 1>>[1] # list[k]
        BY <2>1, Zenon DEF Addable
      <4> QED BY <4>1
    <3>2. \A j \in 1..k : j \in 1..k - 1 \/ j = k
      OBVIOUS
    <3> QED BY <1>1, <3>1, <3>2 DEF Distinct
  <2>6. OpenInv'
    <3>1. /\ volCmd' \in [cmd : {"newfs"}, pc : {"open"}, list : VolLists, opt : HvOptions,
                           next : Nat]
          /\ volCmd'.list = list /\ volCmd'.next = k + 1
      BY <2>2
    <3>2. k + 1 \in 1..Len(list) + 1 /\ (k + 1) - 1 = k
      BY <1>1, <1>3
    <3>3. Making(list)' /\ \A d \in Disks : ~Holds(d, Len(volMade))'
      BY <1>1, <1>2, <2>4 DEF Making, MadeOn, Holds
    <3> QED BY <2>5, <3>1, <3>2, <3>3 DEF OpenInv
  <2> QED BY <2>4, <2>6 DEF VolInv, CmdInv
<1> QED BY <1>4, <1>5

\* The size of an area that is not given.
LEMMA AreaSize ==
  ASSUME NEW avg, NEW area \in {BootArea, MemArea}
  PROVE  InitAreaSize(Unset, avg, area) \in Nat
BY HammerVolumesAssumption DEF InitAreaSize, Unset

\* The areas that newfs_hammer lays out are in order.
LEMMA AreasFacts ==
  ASSUME NEW list, NEW o \in HvOptions
  PROVE  LET A == Areas(list, o) IN
         /\ A.bot \in Nat /\ A.mem \in Nat /\ A.buf \in Nat
         /\ 1 <= A.bot /\ A.bot <= A.mem /\ A.mem <= A.buf
<1> DEFINE avg  == TotalSize(list) \div Len(list)
           junk == IF o.junk = Unset THEN JunkSize ELSE IF o.junk < 1 THEN 1 ELSE o.junk
           boot == IF o.boot = Unset THEN InitAreaSize(Unset, avg, BootArea) ELSE o.boot
           mem  == IF o.mem = Unset THEN InitAreaSize(Unset, avg, MemArea) ELSE o.mem
<1>1. o.junk \in Nat \cup {Unset} /\ o.boot \in Nat \cup {Unset} /\ o.mem \in Nat \cup {Unset}
  BY DEF HvOptions
<1> HIDE DEF avg
<1>2. junk \in Nat /\ 1 <= junk
  BY <1>1, HammerVolumesAssumption
<1>3. boot \in Nat /\ mem \in Nat
  BY <1>1, AreaSize
<1>4. Areas(list, o) = [bot |-> junk, mem |-> junk + boot, buf |-> junk + boot + mem]
  BY DEF Areas, avg
<1> HIDE DEF junk, boot, mem
<1> QED BY <1>2, <1>3, <1>4

\* Formatting in memory: the headers to write fit their devices.
LEMMA FormatVolumesInv == ASSUME VolInv, FormatVolumes PROVE VolInv'
<1>1. PICK list \in VolLists, o \in HvOptions, k \in Nat, n \in Nat :
        /\ volCmd = [cmd |-> "newfs", pc |-> "open", list |-> list, opt |-> o, next |-> k]
        /\ k \in 1..Len(list) + 1 /\ Distinct(list, k - 1)
        /\ n = Len(volMade) /\ volMade # <<>> /\ MadeOn(n, list)
        /\ \A d \in Disks : ~Holds(d, n)
  BY OpenFacts, Zenon DEF FormatVolumes
<1>2. /\ volCmd.pc = "open" /\ volCmd.list = list /\ volCmd.next = k /\ volCmd.opt = o
      /\ UNCHANGED <<volHdr, volMeta, volMade>>
      /\ volMeta \in [Disks -> Int] /\ volMade \in Seq(SUBSET Disks)
  BY <1>1 DEF FormatVolumes, VolInv, HdrInv
<1>3. /\ list \in Seq(Disks) /\ Len(list) \in Nat \ {0} /\ k = Len(list) + 1
      /\ \A i \in 1..Len(list) : list[i] \in Disks
  <2>1. list \in Seq(Disks) /\ Len(list) \in 1..HammerMaxVolumes
    BY VolListsFacts
  <2>2. Len(list) \in Nat \ {0} /\ \A i \in 1..Len(list) : list[i] \in Disks
    BY <2>1, HammerVolumesAssumption
  <2>3. k > Len(list)
    BY <1>2 DEF FormatVolumes
  <2> QED BY <1>1, <2>1, <2>2, <2>3
<1>4. HdrInv'
  BY <1>2, HdrKept DEF VolInv
<1>5. CASE volCmd' = [pc |-> "failed"]
  BY <1>4, <1>5 DEF VolInv, CmdInv
<1>6. CASE volCmd' # [pc |-> "failed"]
  <2> DEFINE hdrs == [i \in 1..Len(list) |-> FormatVolume(list, o, n, i)]
             m == [i \in 1..Len(list) |-> n]
  <2>1. /\ \A i \in 1..Len(list) : hdrs[i].buf < hdrs[i].end
        /\ volCmd' = [cmd |-> "newfs", pc |-> "flush", list |-> list, next |-> 1,
                      hdrs |-> hdrs, meta |-> m]
    BY <1>1, <1>2, <1>6 DEF FormatVolumes
  <2>2. \A i \in 1..Len(list) : hdrs[i] = FormatVolume(list, o, n, i)
    OBVIOUS
  <2>3. m \in [1..Len(list) -> Int]
    BY <1>1, <1>2
  <2> HIDE DEF hdrs, m
  <2>4. ASSUME NEW i \in 1..Len(list) PROVE NewHdr(hdrs[i], list, i)'
    <3> DEFINE A == Areas(list, o)
    <3>1. /\ A.bot \in Nat /\ A.mem \in Nat /\ A.buf \in Nat
          /\ 1 <= A.bot /\ A.bot <= A.mem /\ A.mem <= A.buf
      BY AreasFacts
    <3>2. DiskSize[list[i]] \in Nat
      BY <1>3, HammerVolumesAssumption
    <3> HIDE DEF A
    <3>3. /\ hdrs[i].sig = "hammer" /\ hdrs[i].fs = n /\ hdrs[i].no = i - 1
          /\ hdrs[i].count = Len(list)
          /\ hdrs[i].bot = A.bot /\ hdrs[i].mem = A.mem /\ hdrs[i].buf = A.buf
          /\ hdrs[i].end = DiskSize[list[i]]
      <4>1. hdrs[i] = [sig |-> "hammer", fs |-> n, no |-> i - 1, count |-> Len(list),
                       bot |-> A.bot, mem |-> A.mem, buf |-> A.buf, end |-> DiskSize[list[i]]]
        BY <2>2, Zenon DEF FormatVolume, A
      <4> QED BY <4>1
    <3>4. AreasFit(hdrs[i], list[i])
      BY <2>1, <3>1, <3>2, <3>3 DEF AreasFit
    <3> QED BY <1>1, <1>2, <3>3, <3>4 DEF NewHdr
  <2>5. Making(list)'
    BY <1>1, <1>2 DEF Making, MadeOn, Holds
  <2>6. Distinct(list, Len(list)) /\ 1 \in 1..Len(list)
    BY <1>1, <1>3
  <2>7. /\ volCmd'.pc = "flush" /\ volCmd'.cmd = "newfs" /\ volCmd'.list = list
        /\ volCmd'.next = 1 /\ volCmd'.hdrs = hdrs /\ volCmd'.meta = m
    BY <2>1
  <2>8. FlushInv'
    BY <1>3, <2>1, <2>3, <2>4, <2>5, <2>6, <2>7 DEF FlushInv
  <2> QED BY <1>4, <2>8 DEF VolInv, CmdInv
<1> QED BY <1>5, <1>6

\* Writing a header: it is at the place its list has it.
LEMMA FlushVolumeInv == ASSUME VolInv, FlushVolume PROVE VolInv'
<1>1. FlushInv
  BY DEF VolInv, CmdInv, OpenInv, DoneInv, FlushVolume
<1>0. PICK c, list, k, hs, m :
        /\ c = volCmd.cmd /\ list = volCmd.list /\ k = volCmd.next /\ hs = volCmd.hdrs
        /\ m = volCmd.meta
  BY Zenon
<1>2.   /\ volCmd = [cmd |-> c, pc |-> "flush", list |-> list, next |-> k, hdrs |-> hs,
                     meta |-> m]
        /\ list \in Seq(Disks) /\ k \in 1..Len(list) /\ m \in [1..Len(list) -> Int]
        /\ \A i \in 1..k - 1 : volHdr[list[i]] = hs[i]
        /\ \/ /\ c = "newfs" /\ Making(list) /\ Distinct(list, Len(list))
              /\ \A i \in 1..Len(list) : NewHdr(hs[i], list, i)
           \/ c = "strip" /\ \A i \in 1..Len(list) : hs[i] = StrippedHdr
  BY <1>0, <1>1, Zenon DEF FlushInv
<1>3. /\ volCmd.cmd = c /\ volCmd.list = list /\ volCmd.next = k /\ volCmd.hdrs = hs
      /\ volCmd.meta = m
  BY <1>2
<1>4. /\ volMeta' = [volMeta EXCEPT ![list[k]] = m[k]]
      /\ volHdr' = [volHdr EXCEPT ![list[k]] = hs[k]] /\ volMade' = volMade
  BY <1>3 DEF FlushVolume
<1>5. /\ HdrInv /\ volMeta' \in [Disks -> Int] /\ list[k] \in Disks
      /\ Len(list) \in Nat /\ k \in Nat /\ \A i \in 1..Len(list) : list[i] \in Disks
  BY <1>2, <1>4 DEF VolInv, HdrInv
<1>6. hs[k].sig = "hammer" =>
        /\ c = "newfs" /\ hs[k].fs = Len(volMade) /\ hs[k].fs \in 1..Len(volMade)
        /\ AreasFit(hs[k], list[k]) /\ list \in VolLists
        /\ MadeOn(hs[k].fs, list) /\ LaidOut(hs[k], list[k], list)
  <2>1. StrippedHdr.sig # "hammer"
    BY DEF StrippedHdr, BlankHdr
  <2>2. ASSUME hs[k].sig = "hammer"
        PROVE  c = "newfs" /\ Making(list) /\ NewHdr(hs[k], list, k)
    BY <1>2, <2>1, <2>2
  <2>3. Making(list) => Len(volMade) \in 1..Len(volMade)
    BY <1>5 DEF HdrInv, Making
  <2>4. NewHdr(hs[k], list, k) => LaidOut(hs[k], list[k], list)
    BY <1>2, <1>5 DEF NewHdr, LaidOut
  <2> QED BY <2>2, <2>3, <2>4 DEF NewHdr, Making
<1>7. /\ HdrInv'
      /\ \A e \in Disks : volHdr'[e] = IF e = list[k] THEN hs[k] ELSE volHdr[e]
      /\ \A fs, L : MadeOn(fs, L) /\ (hs[k].sig = "hammer" /\ hs[k].fs = fs
                                        => LaidOut(hs[k], list[k], L))
                    => MadeOn(fs, L)'
  BY <1>4, <1>5, <1>6, HdrWritten, Zenon
<1>8. c = "newfs" => Making(list)'
  <2> SUFFICES ASSUME c = "newfs" PROVE Making(list)'
    OBVIOUS
  <2>1. Making(list)
    BY <1>2
  <2>2. PICK n : n = Len(volMade)
    BY Zenon
  <2>3. MadeOn(n, list)'
    BY <1>6, <1>7, <2>1, <2>2 DEF Making
  <2>4. MadeOn(Len(volMade), list)'
    BY <1>4, <2>2, <2>3 DEF MadeOn, Holds
  <2> QED BY <1>4, <2>1, <2>4 DEF Making
<1>9. \A i \in 1..k : volHdr'[list[i]] = hs[i]
  <2> TAKE i \in 1..k
  <2>1. i \in 1..Len(list) /\ (i = k \/ i \in 1..k - 1)
    BY <1>2, <1>5
  <2>2. volHdr'[list[i]] = IF list[i] = list[k] THEN hs[k] ELSE volHdr[list[i]]
    BY <1>5, <1>7, <2>1
  <2>3. c = "newfs" /\ list[i] = list[k] => i = k
    BY <1>2, <2>1 DEF Distinct
  <2>4. c = "strip" => hs[i] = hs[k]
    BY <1>2, <2>1
  <2> QED BY <1>2, <2>1, <2>2, <2>3, <2>4
<1>10. \A i \in 1..Len(list) : NewHdr(hs[i], list, i) => NewHdr(hs[i], list, i)'
  BY <1>4 DEF NewHdr
<1>11. CASE k < Len(list)
  <2>1. volCmd' = [cmd |-> c, pc |-> "flush", list |-> list, next |-> k + 1, hdrs |-> hs,
                   meta |-> m]
    BY <1>2, <1>3, <1>11 DEF FlushVolume
  <2>2. /\ volCmd'.pc = "flush" /\ volCmd'.cmd = c /\ volCmd'.list = list
        /\ volCmd'.next = k + 1 /\ volCmd'.hdrs = hs /\ volCmd'.meta = m
    BY <2>1
  <2>3. k + 1 \in 1..Len(list) /\ (k + 1) - 1 = k
    BY <1>5, <1>11
  <2>4. FlushInv'
    BY <1>2, <1>8, <1>9, <1>10, <2>1, <2>2, <2>3 DEF FlushInv
  <2> QED BY <1>7, <2>4 DEF VolInv, CmdInv
<1>12. CASE ~(k < Len(list))
  <2>1. volCmd' = [cmd |-> c, pc |-> "done", list |-> list]
    BY <1>3, <1>12 DEF FlushVolume
  <2>2. volCmd'.pc = "done" /\ volCmd'.cmd = c /\ volCmd'.list = list
    BY <2>1
  <2>3. k = Len(list)
    BY <1>2, <1>5, <1>12
  <2>4. \A i \in 1..Len(list) : NewHdr(hs[i], list, i) => NewHdr(volHdr[list[i]], list, i)'
    BY <1>9, <1>10, <2>3 DEF NewHdr
  <2>5. DoneInv'
    BY <1>2, <1>8, <1>9, <2>2, <2>3, <2>4 DEF DoneInv
  <2> QED BY <1>7, <2>5 DEF VolInv, CmdInv
<1> QED BY <1>11, <1>12

\* Buffers that are written back early change no header.
LEMMA WriteBackInv == ASSUME VolInv, NEW i, WriteBack(i) PROVE VolInv'
<1>1. FlushInv
  BY DEF VolInv, CmdInv, OpenInv, DoneInv, WriteBack
<1>2. UNCHANGED <<volHdr, volCmd, volMade>>
  BY DEF WriteBack
<1>3. volMeta' \in [Disks -> Int]
  <2>1. volMeta \in [Disks -> Int]
    BY DEF VolInv, HdrInv
  <2>2. volCmd.list[i] \in Disks
    BY <1>1 DEF FlushInv, WriteBack
  <2>3. volMeta[volCmd.list[i]] \in Int
    BY <2>1, <2>2
  <2> QED BY <2>1, <2>2, <2>3 DEF WriteBack
<1>4. HdrInv'
  BY <1>2, <1>3, HdrKept DEF VolInv
<1>5. FlushInv'
  BY <1>1, <1>2 DEF FlushInv, Making, MadeOn, Holds, NewHdr
<1> QED BY <1>4, <1>5 DEF VolInv, CmdInv

\* The invariant depends on the variables of the component alone.
LEMMA VolStutters == ASSUME VolInv, UNCHANGED hvVars PROVE VolInv'
<1>1. UNCHANGED <<volHdr, volMeta, volCmd, volMade>>
  BY DEF hvVars
<1> QED BY <1>1, Zenon DEF VolInv, HdrInv, CmdInv, OpenInv, FlushInv, DoneInv, Making, MadeOn, Holds,
                    NewHdr

\* The invariant is kept by every step.
LEMMA VolStep ==
  ASSUME NEW lists \in SUBSET Seq(Disks), NEW opts \in SUBSET HvOptions, VolInv,
         [HvNext(lists, opts)]_hvVars
  PROVE  VolInv'
<1>1. CASE UNCHANGED hvVars
  BY <1>1, VolStutters
<1>2. CASE \E list \in lists : StartStrip(list)
  BY <1>2, StartStripInv
<1>3. CASE \E list \in lists : \E o \in opts : StartNewfs(list, o)
  BY <1>3, StartNewfsInv
<1>4. CASE Killed
  <2>1. UNCHANGED <<volHdr, volMeta, volMade>> /\ volMeta \in [Disks -> Int]
    BY <1>4 DEF Killed, VolInv, HdrInv
  <2>2. HdrInv'
    BY <2>1, HdrKept DEF VolInv
  <2> QED BY <1>4, <2>2 DEF Killed, VolInv, CmdInv
<1> QED BY <1>1, <1>2, <1>3, <1>4, OpenVolumeInv, FormatVolumesInv, FlushVolumeInv, WriteBackInv,
           Zenon DEF HvNext

\* For any devices, any lists of them and any options, and wherever newfs_hammer
\* and hammer strip are stopped: a list loads only as the whole of one filesystem,
\* exactly when fstyp recognises it; a fresh filesystem loads, with its areas in
\* order; and a stripped one does not.
THEOREM VolumesSoundThm ==
  ASSUME NEW lists \in SUBSET Seq(Disks), NEW opts \in SUBSET HvOptions
  PROVE  HvSpec(lists, opts) => []VolumesSound
<1>1. HvInit => VolInv
  BY VolInitial
<1>2. VolInv /\ [HvNext(lists, opts)]_hvVars => VolInv'
  BY VolStep, Zenon
<1>3. VolInv => VolumesSound
  BY VolumesImplied
<1> QED BY <1>1, <1>2, <1>3, PTL DEF HvSpec
=============================================================================
