-------------------------- MODULE SnapshotTheorems --------------------------
(***************************************************************************)
(* What the snapshot and prune commands guarantee for any number of        *)
(* processes, transactions and snapshots.                                  *)
(***************************************************************************)
EXTENDS SnapshotInv, TLAPS

\* The teeth are the snapshots below the newest one.
LEMMA TeethFacts ==
    ASSUME NEW K \in SUBSET Nat
    PROVE  /\ Teeth(K) \subseteq K
           /\ \A s \in K \ Teeth(K), t \in K : t <= s
BY DEF Teeth

\* A range lies between two neighbouring snapshots, or below the lowest tooth.
LEMMA RangeCases ==
    ASSUME NEW K \in SUBSET Nat, NEW r \in Ranges(K)
    PROVE  /\ r.beg \in Nat /\ r.end \in K
           /\ \/ r.beg \in K /\ IsNext(K, r.beg, r.end)
              \/ r.end \in Teeth(K) /\ \A s \in Teeth(K) : r.end <= s
<1> DEFINE A == [beg : Teeth(K), end : K]
           B == [beg : {1}, end : Teeth(K)]
<1>1. CASE r \in A /\ IsNext(K, r.beg, r.end)
  BY <1>1, TeethFacts, Zenon
<1>2. CASE r \in B /\ \A s \in Teeth(K) : r.end <= s
  BY <1>2, TeethFacts
<1> QED BY <1>1, <1>2 DEF Ranges

\* A range has no snapshot of the comb between its ends.
LEMMA RangeIsGap ==
    ASSUME NEW K \in SUBSET Nat, NEW r \in Ranges(K), NEW s \in K
    PROVE  s <= r.beg \/ r.end <= s
<1> DEFINE b == r.beg
           e == r.end
<1>1. b \in Nat /\ e \in K /\ e \in Nat /\ s \in Nat
  BY RangeCases, Zenon
<1>2. CASE b \in K /\ IsNext(K, b, e)
  <2>1. ~(b < s /\ s < e)
    BY <1>2 DEF IsNext
  <2> HIDE DEF b, e
  <2>2. s <= b \/ e <= s
    BY <1>1, <2>1
  <2> QED BY <2>2 DEF b, e
<1>3. CASE e \in Teeth(K) /\ \A t \in Teeth(K) : e <= t
  <2>1. e <= s
    BY <1>1, <1>3, TeethFacts
  <2> QED BY <2>1
<1> QED BY <1>2, <1>3, RangeCases

\* The comb theorem: no range asked for by hammer prune takes a version that is
\* visible in one of the snapshots found, those prune_min set aside included.
THEOREM CombKeepsSnapshots ==
    ASSUME NEW S \in SUBSET Nat, NEW young \in SUBSET S,
           NEW v \in [cre : Nat, del : Nat, died : Nat],
           NEW s \in S, VisibleAt(v, s),
           NEW r \in Ranges(Kept(S, young))
    PROVE  ~Prunes(r, v)
<1> DEFINE K == Kept(S, young)
<1>1. K \in SUBSET Nat
  BY Zenon DEF Kept
<1>2. r.end \in K /\ r.beg \in Nat
  BY <1>1, RangeCases
<1>3. CASE s \in K
  BY <1>1, <1>2, <1>3, RangeIsGap DEF Prunes, VisibleAt
<1>4. CASE s \notin K
  <2>1. PICK y \in young : ~(s < y)
    BY <1>4 DEF Kept
  <2>2. r.end < y
    BY <1>2 DEF Kept
  <2> QED BY <1>1, <1>2, <2>1, <2>2 DEF Prunes, VisibleAt
<1> QED BY <1>3, <1>4
-----------------------------------------------------------------------------
\* Every variable starts with a value of its type.
LEMMA InitType ==
    ASSUME Init
    PROVE  TypeOK
<1>1. {0, 1} \subseteq Tids /\ {0, 1} \subseteq Times
  BY SnapshotsAssumption DEF Tids, Times
<1>2. Idle \in CmdType
  BY <1>1 DEF Idle, CmdType, Pcs
<1> QED BY <1>1, <1>2 DEF Init, TypeOK

\* The ids and the times are natural numbers.
LEMMA NatRanges == Tids \subseteq Nat /\ Times \subseteq Nat /\ 0..PfsTid \subseteq Nat
  BY SnapshotsAssumption DEF Tids, Times, PfsTid

\* The id after the last one is that of no earlier snapshot.
LEMMA PastLast == \A n, a \in Nat : n <= a => n # a + 1
  OBVIOUS

\* Every variable keeps its type.
LEMMA NextType ==
    ASSUME TypeOK, [Next]_vars
    PROVE  TypeOK'
<1> USE SnapshotsAssumption
<1> USE DEF TypeOK, Tids, Times, Links, CmdType, Pcs
<1>1. CASE Write
  <2>1. tid + 1 \in Tids
    <3>1. tid \in 0..MaxTid /\ tid < MaxTid /\ MaxTid \in Nat
      BY <1>1, Zenon DEF Write
    <3> HIDE DEF TypeOK
    <3> QED BY <3>1
  <2>2. ASSUME NEW w \in recs' PROVE w \in [cre : Tids, del : Tids, died : Times]
    <3>1. CASE w = [cre |-> tid + 1, del |-> 0, died |-> 0]
      BY <2>1, <3>1
    <3>2. ASSUME NEW v \in recs,
                 w = IF v.del = 0 THEN [v EXCEPT !.del = tid + 1, !.died = now] ELSE v
          PROVE  w \in [cre : Tids, del : Tids, died : Times]
      BY <2>1, <3>2, Zenon
    <3> QED BY <1>1, <3>1, <3>2, Zenon DEF Write
  <2> QED BY <1>1, <2>1, <2>2, Zenon DEF Write
<1>2. CASE Tick
  BY <1>2 DEF Tick
<1>3. ASSUME NEW c \in Cmds, SyncTid(c) PROVE TypeOK'
  BY <1>3 DEF SyncTid, At, Goto, Exit, Idle
<1>4. ASSUME NEW c \in Cmds, AddMeta(c) PROVE TypeOK'
  BY <1>4 DEF AddMeta, At, Goto, Exit, Idle, Snaps, PfsTid
<1>5. ASSUME NEW c \in Cmds, RemoveLink(c) PROVE TypeOK'
  BY <1>5 DEF RemoveLink, At, Goto, Exit, Idle
<1>6. ASSUME NEW c \in Cmds, Symlink(c) PROVE TypeOK'
  BY <1>6 DEF Symlink, At, Goto, Exit, Idle
<1>7. ASSUME NEW c \in Cmds, DelMeta(c) PROVE TypeOK'
  BY <1>7 DEF DelMeta, At, Goto, Exit, Idle
<1>8. ASSUME NEW c \in Cmds, Unlink(c) PROVE TypeOK'
  BY <1>8 DEF Unlink, At, Goto, Exit, Idle
<1>9. ASSUME NEW c \in Cmds, OpenDir(c) PROVE TypeOK'
  <2> DEFINE k == [cmd[c] EXCEPT !.pc = "scandir", !.todo = links]
  <2>1. k \in CmdType
    <3>1. cmd[c] \in CmdType /\ links \in SUBSET Links
      OBVIOUS
    <3> HIDE DEF TypeOK, Tids, Times, Links
    <3> QED BY <3>1, Zenon
  <2>2. cmd' = [cmd EXCEPT ![c] = k]
    BY <1>9, Zenon DEF OpenDir
  <2>3. cmd' \in [Cmds -> CmdType]
    <3> HIDE DEF k, CmdType
    <3> QED BY <2>1, <2>2
  <2> HIDE DEF k, CmdType, Links
  <2> QED BY <1>9, <2>3 DEF OpenDir
<1>10. ASSUME NEW c \in Cmds, ScanDir(c) PROVE TypeOK'
  <2>1. PICK X \in SUBSET (cmd[c].todo \cup links) :
               cmd' = [cmd EXCEPT ![c].pc = IF Version3 THEN "scanmeta" ELSE "ioctl",
                                  ![c].todo = {}, ![c].scan = FromLinks(X)]
    BY <1>10, Zenon DEF ScanDir
  <2>2. X \subseteq Links
    BY <1>10
  <2>3. FromLinks(X) \in SUBSET Snaps
    BY <2>2 DEF FromLinks, Snaps, PfsTid
  <2> DEFINE k == [cmd[c] EXCEPT !.pc = IF Version3 THEN "scanmeta" ELSE "ioctl",
                                 !.todo = {}, !.scan = FromLinks(X)]
  <2>4. k \in CmdType
    <3>1. cmd[c] \in CmdType
      OBVIOUS
    <3> HIDE DEF TypeOK, Tids, Times, Links
    <3> QED BY <2>3, <3>1, Zenon
  <2>5. cmd' = [cmd EXCEPT ![c] = k]
    BY <2>1, Zenon
  <2> HIDE DEF k
  <2> QED BY <1>10, <2>4, <2>5, Zenon DEF ScanDir
<1>11. ASSUME NEW c \in Cmds, ScanMeta(c) PROVE TypeOK'
  BY <1>11 DEF ScanMeta, At, Goto, Exit, Idle, Snaps, PfsTid
<1>12. ASSUME NEW c \in Cmds, Prune(c) PROVE TypeOK'
  BY <1>12 DEF Prune, At, Goto, Exit, Idle
<1>13. ASSUME NEW c \in Cmds, Die(c) PROVE TypeOK'
  BY <1>13 DEF Die, At, Goto, Exit, Idle
<1>14. ASSUME NEW c \in Cmds, NEW op \in Ops, Begin(c, op) PROVE TypeOK'
  <2>1. PICK l \in IF op = "snaprm" THEN links ELSE {[name |-> 0, tid |-> 0]} :
               /\ cmd' = [cmd EXCEPT ![c] = [Idle EXCEPT !.op = op, !.pc = FirstPc(op),
                                                         !.name = l.name, !.tid = l.tid]]
               /\ doomed' = IF op = "snaprm" THEN doomed \cup {l.tid} ELSE doomed
    BY <1>14, Zenon DEF Begin
  <2>2. l.name \in Times /\ l.tid \in Tids
    BY <2>1
  <2>3. FirstPc(op) \in Pcs
    BY <1>14 DEF FirstPc
  <2> DEFINE k == [Idle EXCEPT !.op = op, !.pc = FirstPc(op), !.name = l.name, !.tid = l.tid]
  <2>4. k \in CmdType
    <3> HIDE DEF Pcs
    <3> QED BY <2>2, <2>3, Zenon DEF Idle
  <2> HIDE DEF k
  <2> QED BY <1>14, <2>1, <2>2, <2>4 DEF Begin, k
<1>15. CASE UNCHANGED vars
  BY <1>15 DEF vars
<1> QED BY <1>1, <1>2, <1>3, <1>4, <1>5, <1>6, <1>7, <1>8, <1>9, <1>10, <1>11, <1>12,
      <1>13, <1>14, <1>15 DEF Next, Step, Work
-----------------------------------------------------------------------------
\* The transaction ids in the state are numbers.
LEMMA TidsAreNat ==
    ASSUME TypeOK
    PROVE  /\ tid \in Nat /\ now \in Nat /\ Known \subseteq Nat
           /\ \A g \in gone : g.v.del \in Nat /\ g.v.cre \in Nat
                               /\ g.v \in [cre : Nat, del : Nat, died : Nat]
           /\ \A v \in recs : v \in [cre : Nat, del : Nat, died : Nat]
           /\ \A c \in Cmds : cmd[c].tid \in Nat
           /\ \A c \in Cmds : \A x \in cmd[c].scan : x \in [tid : Nat, ts : Nat]
<1>1. Tids \subseteq Nat /\ Times \subseteq Nat /\ 0..PfsTid \subseteq Nat
  BY NatRanges, Zenon
<1>2. tid \in Nat /\ now \in Nat
  BY <1>1 DEF TypeOK
<1>3. Known \subseteq Nat
  BY <1>1, Zenon DEF TypeOK, Known
<1>4. \A g \in gone : g.v \in [cre : Nat, del : Nat, died : Nat]
  BY <1>1, Zenon DEF TypeOK
<1>5. \A v \in recs : v \in [cre : Nat, del : Nat, died : Nat]
  BY <1>1, Zenon DEF TypeOK
<1>6. \A c \in Cmds : cmd[c].tid \in Nat
  BY <1>1, Zenon DEF TypeOK, CmdType
<1>7. \A c \in Cmds : \A x \in cmd[c].scan : x \in [tid : Nat, ts : Nat]
  <2>1. \A c \in Cmds : cmd[c].scan \subseteq Snaps
    BY DEF TypeOK, CmdType
  <2> QED BY <1>1, <2>1, Zenon DEF Snaps
<1> QED BY <1>2, <1>3, <1>4, <1>5, <1>6, <1>7

\* HAMMERIOC_SYNCTID preserves SnapInv: the new transaction id is the latest of all.
LEMMA SyncTidInv ==
    ASSUME SnapInv, Plain, NEW c \in Cmds, SyncTid(c)
    PROVE  SnapInv'
<1>1. TypeOK' /\ TypeOK /\ cmd \in [Cmds -> CmdType]
  BY NextType DEF SnapInv, Next, Step, Work, TypeOK
<1>0. tid \in Nat /\ Known \subseteq Nat /\ \A g \in gone : g.v.del \in Nat
  BY <1>1, TidsAreNat
<1>2. \A d \in Cmds : d # c => cmd'[d] = cmd[d]
  BY <1>1 DEF SyncTid, Goto, Exit
<1>3. /\ cmd[c].op = "snapshot" /\ cmd[c].pc = "synctid"
      /\ cmd'[c].op = "snapshot"
      /\ cmd'[c].pc = "add_meta"
      /\ cmd'[c].tid = tid + 1
      /\ cmd'[c].todo = cmd[c].todo
      /\ cmd'[c].scan = cmd[c].scan
      /\ tid' = tid + 1
  BY <1>1 DEF SyncTid, Goto, Exit, At, CmdType, Idle, Plain, SnapInv, OwnInv, FromLinks
<1>4. UNCHANGED <<recs, gone, links, meta, doomed>>
  BY <1>1, <1>3 DEF SyncTid, SnapInv, OwnInv, Plain
<1>5. KnownInv /\ GoneInv /\ PendingInv /\ OwnInv /\ ScanInv /\ IntactInv
  BY DEF SnapInv
<1>6. KnownInv'
  <2>1. Known' = Known
    BY <1>4 DEF Known
  <2>2. \A t \in Known : t <= tid'
    <3>1. tid' = tid + 1 /\ \A t \in Known : t <= tid
      BY <1>3, <1>5 DEF KnownInv
    <3> QED BY <1>0, <3>1
  <2> QED BY <1>2, <1>3, <1>4, <1>5, <2>1, <2>2 DEF KnownInv
<1>7. PendingInv'
  <2>1. Known' = Known /\ gone' = gone
    BY <1>4 DEF Known
  <2>2. ASSUME NEW d \in Cmds, At(d, "snapshot", "add_meta")' PROVE d = c
    <3>1. CASE d # c
      BY <1>2, <1>3, <1>5, <2>2, <3>1 DEF OwnInv, At
    <3> QED BY <3>1
  <2>3. \A t \in Known : t < tid + 1
    BY <1>0, <1>5 DEF KnownInv
  <2>4. \A g \in gone : g.v.del < tid + 1
    BY <1>0, <1>5 DEF GoneInv
  <2> QED BY <1>0, <1>3, <2>1, <2>2, <2>3, <2>4 DEF PendingInv
<1>8. OwnInv'
  BY <1>2, <1>3, <1>4, <1>5 DEF KnownInv, Known, OwnInv
<1>9. ScanInv'
  BY <1>2, <1>3, <1>4, <1>5 DEF KnownInv, Known, ScanInv, PendingInv, At
<1>10. IntactInv'
  BY <1>2, <1>3, <1>4, <1>5 DEF KnownInv, Known, IntactInv, PendingInv, VisibleAt, At
<1>11. GoneInv'
  BY <1>0, <1>3, <1>4, <1>5 DEF GoneInv
<1> QED BY <1>1, <1>6, <1>7, <1>8, <1>9, <1>10, <1>11 DEF SnapInv

\* HAMMERIOC_ADD_SNAPSHOT preserves SnapInv: the snapshot it records is newer than
\* what any prune under way has seen or taken.
LEMMA AddMetaInv ==
    ASSUME SnapInv, Plain, NEW c \in Cmds, AddMeta(c)
    PROVE  SnapInv'
<1>1. TypeOK' /\ TypeOK /\ cmd \in [Cmds -> CmdType]
  BY NextType DEF SnapInv, Next, Step, Work, TypeOK
<1>0. cmd[c].tid \in Nat /\ tid \in Nat /\ Known \subseteq Nat /\ \A g \in gone : g.v.del \in Nat
  BY <1>1, TidsAreNat
<1>2. \A d \in Cmds : d # c => cmd'[d] = cmd[d]
  BY <1>1 DEF AddMeta, Goto, Exit
<1>3. /\ cmd[c].op = "snapshot" /\ cmd[c].pc = "add_meta"
      /\ cmd'[c].op = "snapshot"
      /\ cmd'[c].pc = "remove"
      /\ cmd'[c].tid = cmd[c].tid
      /\ cmd'[c].todo = cmd[c].todo
      /\ cmd'[c].scan = cmd[c].scan
      /\ meta' = meta \cup {[tid |-> cmd[c].tid, ts |-> now]}
  BY <1>1 DEF AddMeta, Goto, Exit, At, CmdType, Idle, Plain, SnapInv, OwnInv, FromLinks
<1>4. UNCHANGED <<tid, recs, gone, links, doomed>>
  BY <1>1, <1>3 DEF AddMeta, SnapInv, OwnInv, Plain
<1>5. KnownInv /\ GoneInv /\ PendingInv /\ OwnInv /\ ScanInv /\ IntactInv
  BY DEF SnapInv
<1>12. Known' = Known \cup {cmd[c].tid}
  <2>1. {m.tid : m \in meta'} = {m.tid : m \in meta} \cup {cmd[c].tid}
    <3> DEFINE n == [tid |-> cmd[c].tid, ts |-> now]
    <3>1. n.tid = cmd[c].tid /\ meta' = meta \cup {n}
      BY <1>3
    <3> HIDE DEF n
    <3> QED BY <3>1
  <2> QED BY <1>4, <2>1 DEF Known
<1>13. /\ cmd[c].tid <= tid
       /\ \A t \in Known : t < cmd[c].tid
       /\ \A g \in gone : g.v.del < cmd[c].tid
  BY <1>3, <1>5 DEF PendingInv, At
<1>6. KnownInv'
  BY <1>2, <1>3, <1>4, <1>5, <1>12, <1>13 DEF KnownInv
<1>7. PendingInv'
  <2>1. ASSUME NEW d \in Cmds, At(d, "snapshot", "add_meta")' PROVE FALSE
    BY <1>2, <1>3, <1>5, <2>1 DEF OwnInv, At
  <2> QED BY <2>1 DEF PendingInv
<1>8. OwnInv'
  BY <1>2, <1>3, <1>4, <1>5, <1>12 DEF OwnInv
<1>9. ScanInv'
  BY <1>2, <1>3, <1>4, <1>5 DEF KnownInv, Known, ScanInv, PendingInv, At
<1>10. IntactInv'
  <2>1. ASSUME NEW g \in gone PROVE ~VisibleAt(g.v, cmd[c].tid)
    BY <1>0, <1>5, <1>13 DEF VisibleAt, GoneInv
  <2> QED BY <1>3, <1>4, <1>5, <2>1 DEF IntactInv
<1>11. GoneInv'
  BY <1>3, <1>4, <1>5 DEF GoneInv
<1> QED BY <1>1, <1>6, <1>7, <1>8, <1>9, <1>10, <1>11 DEF SnapInv

\* Removing a softlink of the same name preserves SnapInv.
LEMMA RemoveLinkInv ==
    ASSUME SnapInv, Plain, NEW c \in Cmds, RemoveLink(c)
    PROVE  SnapInv'
<1>1. TypeOK' /\ TypeOK /\ cmd \in [Cmds -> CmdType]
  BY NextType DEF SnapInv, Next, Step, Work, TypeOK
<1>2. \A d \in Cmds : d # c => cmd'[d] = cmd[d]
  BY <1>1 DEF RemoveLink, Goto, Exit
<1>3. /\ cmd[c].op = "snapshot" /\ cmd[c].pc = "remove"
      /\ cmd'[c].op = "snapshot"
      /\ cmd'[c].pc = "symlink"
      /\ cmd'[c].tid = cmd[c].tid
      /\ cmd'[c].todo = cmd[c].todo
      /\ cmd'[c].scan = cmd[c].scan
      /\ links' \subseteq links
  BY <1>1 DEF RemoveLink, Goto, Exit, At, CmdType, Idle, Plain, SnapInv, OwnInv, FromLinks
<1>4. UNCHANGED <<tid, recs, gone, meta, doomed>>
  BY <1>1, <1>3 DEF RemoveLink, SnapInv, OwnInv, Plain
<1>5. KnownInv /\ GoneInv /\ PendingInv /\ OwnInv /\ ScanInv /\ IntactInv
  BY DEF SnapInv
<1>6. KnownInv'
  BY <1>2, <1>3, <1>4, <1>5 DEF KnownInv, Known, TypeOK
<1>7. PendingInv'
  BY <1>2, <1>3, <1>4, <1>5 DEF KnownInv, Known, PendingInv, At
<1>8. OwnInv'
  BY <1>2, <1>3, <1>4, <1>5 DEF KnownInv, Known, OwnInv
<1>9. ScanInv'
  BY <1>2, <1>3, <1>4, <1>5 DEF KnownInv, Known, ScanInv, PendingInv, At
<1>10. IntactInv'
  BY <1>2, <1>3, <1>4, <1>5 DEF KnownInv, Known, IntactInv, PendingInv, VisibleAt, At
<1>11. GoneInv'
  BY <1>3, <1>4, <1>5 DEF GoneInv
<1> QED BY <1>1, <1>6, <1>7, <1>8, <1>9, <1>10, <1>11 DEF SnapInv

\* Making the softlink preserves SnapInv: its snapshot is in the meta-data already.
LEMMA SymlinkInv ==
    ASSUME SnapInv, Plain, NEW c \in Cmds, Symlink(c)
    PROVE  SnapInv'
<1>1. TypeOK' /\ TypeOK /\ cmd \in [Cmds -> CmdType]
  BY NextType DEF SnapInv, Next, Step, Work, TypeOK
<1>2. \A d \in Cmds : d # c => cmd'[d] = cmd[d]
  BY <1>1 DEF Symlink, Goto, Exit
<1>3. /\ cmd[c].op = "snapshot" /\ cmd[c].pc = "symlink"
      /\ cmd'[c].op = "none"
      /\ cmd'[c].todo = {}
      /\ cmd'[c].scan = {}
      /\ \A l \in links' : l \in links \/ l.tid = cmd[c].tid
  BY <1>1, SMT, Z3, Zenon DEF Symlink, Goto, Exit, At, CmdType, Idle, Plain, SnapInv, OwnInv, FromLinks
<1>4. UNCHANGED <<tid, recs, gone, meta, doomed>>
  BY <1>1, <1>3 DEF Symlink, SnapInv, OwnInv, Plain
<1>5. KnownInv /\ GoneInv /\ PendingInv /\ OwnInv /\ ScanInv /\ IntactInv
  BY DEF SnapInv
<1>6. KnownInv'
  <2>1. cmd[c].tid \in Known /\ Known' = Known
    BY <1>3, <1>4, <1>5 DEF OwnInv, Known
  <2> QED BY <1>2, <1>3, <1>4, <1>5, <2>1 DEF KnownInv
<1>7. PendingInv'
  BY <1>2, <1>3, <1>4, <1>5 DEF KnownInv, Known, PendingInv, At
<1>8. OwnInv'
  BY <1>2, <1>3, <1>4, <1>5 DEF KnownInv, Known, OwnInv
<1>9. ScanInv'
  BY <1>2, <1>3, <1>4, <1>5 DEF KnownInv, Known, ScanInv, PendingInv, At
<1>10. IntactInv'
  BY <1>2, <1>3, <1>4, <1>5 DEF KnownInv, Known, IntactInv, PendingInv, VisibleAt, At
<1>11. GoneInv'
  BY <1>3, <1>4, <1>5 DEF GoneInv
<1> QED BY <1>1, <1>6, <1>7, <1>8, <1>9, <1>10, <1>11 DEF SnapInv

\* HAMMERIOC_DEL_SNAPSHOT preserves SnapInv: the snapshot was asked to be removed.
LEMMA DelMetaInv ==
    ASSUME SnapInv, Plain, NEW c \in Cmds, DelMeta(c)
    PROVE  SnapInv'
<1>1. TypeOK' /\ TypeOK /\ cmd \in [Cmds -> CmdType]
  BY NextType DEF SnapInv, Next, Step, Work, TypeOK
<1>2. \A d \in Cmds : d # c => cmd'[d] = cmd[d]
  BY <1>1 DEF DelMeta, Goto, Exit
<1>3. /\ cmd[c].op = "snaprm" /\ cmd[c].pc = "del_meta"
      /\ cmd'[c].op = "snaprm"
      /\ cmd'[c].pc = "unlink"
      /\ cmd'[c].tid = cmd[c].tid
      /\ cmd'[c].todo = cmd[c].todo
      /\ cmd'[c].scan = cmd[c].scan
      /\ meta' = {m \in meta : m.tid # cmd[c].tid}
  BY <1>1 DEF DelMeta, Goto, Exit, At, CmdType, Idle, Plain, SnapInv, OwnInv, FromLinks
<1>4. UNCHANGED <<tid, recs, gone, links, doomed>>
  BY <1>1, <1>3 DEF DelMeta, SnapInv, OwnInv, Plain
<1>5. KnownInv /\ GoneInv /\ PendingInv /\ OwnInv /\ ScanInv /\ IntactInv
  BY DEF SnapInv
<1>6. KnownInv'
  <2>1. Known' = Known
    BY <1>3, <1>4, <1>5 DEF OwnInv, Known
  <2> QED BY <1>2, <1>3, <1>4, <1>5, <2>1 DEF KnownInv
<1>7. PendingInv'
  BY <1>2, <1>3, <1>4, <1>5 DEF KnownInv, Known, PendingInv, At
<1>8. OwnInv'
  BY <1>2, <1>3, <1>4, <1>5 DEF KnownInv, Known, OwnInv
<1>9. ScanInv'
  BY <1>2, <1>3, <1>4, <1>5 DEF KnownInv, Known, ScanInv, PendingInv, At
<1>10. IntactInv'
  BY <1>2, <1>3, <1>4, <1>5 DEF KnownInv, Known, IntactInv, PendingInv, VisibleAt, At
<1>11. GoneInv'
  BY <1>3, <1>4, <1>5 DEF GoneInv
<1> QED BY <1>1, <1>6, <1>7, <1>8, <1>9, <1>10, <1>11 DEF SnapInv

\* snaprm's removal of the softlink preserves SnapInv.
LEMMA UnlinkInv ==
    ASSUME SnapInv, Plain, NEW c \in Cmds, Unlink(c)
    PROVE  SnapInv'
<1>1. TypeOK' /\ TypeOK /\ cmd \in [Cmds -> CmdType]
  BY NextType DEF SnapInv, Next, Step, Work, TypeOK
<1>2. \A d \in Cmds : d # c => cmd'[d] = cmd[d]
  BY <1>1 DEF Unlink, Goto, Exit
<1>3. /\ cmd[c].op = "snaprm" /\ cmd[c].pc = "unlink"
      /\ cmd'[c].op = "none"
      /\ cmd'[c].todo = {}
      /\ cmd'[c].scan = {}
      /\ links' \subseteq links
  BY <1>1 DEF Unlink, Goto, Exit, At, CmdType, Idle, Plain, SnapInv, OwnInv, FromLinks
<1>4. UNCHANGED <<tid, recs, gone, meta, doomed>>
  BY <1>1, <1>3 DEF Unlink, SnapInv, OwnInv, Plain
<1>5. KnownInv /\ GoneInv /\ PendingInv /\ OwnInv /\ ScanInv /\ IntactInv
  BY DEF SnapInv
<1>6. KnownInv'
  BY <1>2, <1>3, <1>4, <1>5 DEF KnownInv, Known, TypeOK
<1>7. PendingInv'
  BY <1>2, <1>3, <1>4, <1>5 DEF KnownInv, Known, PendingInv, At
<1>8. OwnInv'
  BY <1>2, <1>3, <1>4, <1>5 DEF KnownInv, Known, OwnInv
<1>9. ScanInv'
  BY <1>2, <1>3, <1>4, <1>5 DEF KnownInv, Known, ScanInv, PendingInv, At
<1>10. IntactInv'
  BY <1>2, <1>3, <1>4, <1>5 DEF KnownInv, Known, IntactInv, PendingInv, VisibleAt, At
<1>11. GoneInv'
  BY <1>3, <1>4, <1>5 DEF GoneInv
<1> QED BY <1>1, <1>6, <1>7, <1>8, <1>9, <1>10, <1>11 DEF SnapInv

\* Opening the snapshots directory preserves SnapInv.
LEMMA OpenDirInv ==
    ASSUME SnapInv, Plain, NEW c \in Cmds, OpenDir(c)
    PROVE  SnapInv'
<1>1. TypeOK' /\ TypeOK /\ cmd \in [Cmds -> CmdType]
  BY NextType DEF SnapInv, Next, Step, Work, TypeOK
<1>2. \A d \in Cmds : d # c => cmd'[d] = cmd[d]
  BY <1>1 DEF OpenDir, Goto, Exit
<1>3. /\ cmd[c].op = "prune" /\ cmd[c].pc = "opendir"
      /\ cmd'[c].op = "prune"
      /\ cmd'[c].pc = "scandir"
      /\ cmd'[c].todo = links
      /\ cmd'[c].scan = cmd[c].scan
  BY <1>1 DEF OpenDir, Goto, Exit, At, CmdType, Idle, Plain, SnapInv, OwnInv, FromLinks
<1>4. UNCHANGED <<tid, recs, gone, links, meta, doomed>>
  BY <1>1, <1>3 DEF OpenDir, SnapInv, OwnInv, Plain
<1>5. KnownInv /\ GoneInv /\ PendingInv /\ OwnInv /\ ScanInv /\ IntactInv
  BY DEF SnapInv
<1>6. KnownInv'
  BY <1>2, <1>3, <1>4, <1>5 DEF KnownInv, Known, TypeOK
<1>7. PendingInv'
  BY <1>2, <1>3, <1>4, <1>5 DEF KnownInv, Known, PendingInv, At
<1>8. OwnInv'
  BY <1>2, <1>3, <1>4, <1>5 DEF KnownInv, Known, OwnInv
<1>9. ScanInv'
  BY <1>2, <1>3, <1>4, <1>5 DEF KnownInv, Known, ScanInv, PendingInv, At
<1>10. IntactInv'
  BY <1>2, <1>3, <1>4, <1>5 DEF KnownInv, Known, IntactInv, PendingInv, VisibleAt, At
<1>11. GoneInv'
  BY <1>3, <1>4, <1>5 DEF GoneInv
<1> QED BY <1>1, <1>6, <1>7, <1>8, <1>9, <1>10, <1>11 DEF SnapInv

\* Reading the directory preserves SnapInv, whatever readdir misses.
LEMMA ScanDirInv ==
    ASSUME SnapInv, Plain, NEW c \in Cmds, ScanDir(c)
    PROVE  SnapInv'
<1>1. TypeOK' /\ TypeOK /\ cmd \in [Cmds -> CmdType]
  BY NextType DEF SnapInv, Next, Step, Work, TypeOK
<1>2. \A d \in Cmds : d # c => cmd'[d] = cmd[d]
  BY <1>1 DEF ScanDir, Goto, Exit
<1>3. /\ cmd[c].op = "prune" /\ cmd[c].pc = "scandir"
      /\ cmd'[c].op = "prune"
      /\ cmd'[c].pc = "scanmeta"
      /\ cmd'[c].todo = {}
      /\ \E X \in SUBSET (cmd[c].todo \cup links) :
            cmd'[c].scan = {[tid |-> l.tid, ts |-> l.ct] : l \in X}
  <2>1. cmd[c] \in CmdType /\ cmd[c].op = "prune" /\ cmd[c].pc = "scandir"
    BY <1>1 DEF ScanDir, At
  <2>2. PICK X \in SUBSET (cmd[c].todo \cup links) :
               cmd' = [cmd EXCEPT ![c].pc = IF Version3 THEN "scanmeta" ELSE "ioctl",
                                  ![c].todo = {}, ![c].scan = FromLinks(X)]
    BY Zenon DEF ScanDir
  <2>3. FromLinks(X) = {[tid |-> l.tid, ts |-> l.ct] : l \in X}
    BY DEF FromLinks, Plain
  <2>4. cmd'[c] = [cmd[c] EXCEPT !.pc = "scanmeta", !.todo = {}, !.scan = FromLinks(X)]
    BY <1>1, <2>2 DEF Plain
  <2>5. /\ cmd'[c].op = "prune" /\ cmd'[c].pc = "scanmeta"
        /\ cmd'[c].todo = {} /\ cmd'[c].scan = FromLinks(X)
    BY <2>1, <2>4 DEF CmdType
  <2> QED BY <2>1, <2>3, <2>5
<1>4. UNCHANGED <<tid, recs, gone, links, meta, doomed>>
  BY <1>1, <1>3 DEF ScanDir, SnapInv, OwnInv, Plain
<1>5. KnownInv /\ GoneInv /\ PendingInv /\ OwnInv /\ ScanInv /\ IntactInv
  BY DEF SnapInv
<1>6. KnownInv'
  BY <1>2, <1>3, <1>4, <1>5 DEF KnownInv, Known, TypeOK
<1>7. PendingInv'
  BY <1>2, <1>3, <1>4, <1>5 DEF KnownInv, Known, PendingInv, At
<1>8. OwnInv'
  BY <1>2, <1>3, <1>4, <1>5 DEF KnownInv, Known, OwnInv
<1>9. ScanInv'
  BY <1>2, <1>3, <1>4, <1>5 DEF KnownInv, Known, ScanInv, PendingInv, At
<1>10. IntactInv'
  BY <1>2, <1>3, <1>4, <1>5 DEF KnownInv, Known, IntactInv, PendingInv, VisibleAt, At
<1>11. GoneInv'
  BY <1>3, <1>4, <1>5 DEF GoneInv
<1> QED BY <1>1, <1>6, <1>7, <1>8, <1>9, <1>10, <1>11 DEF SnapInv

\* Reading the meta-data snapshots preserves SnapInv: prune has seen them all now.
LEMMA ScanMetaInv ==
    ASSUME SnapInv, Plain, NEW c \in Cmds, ScanMeta(c)
    PROVE  SnapInv'
<1>1. TypeOK' /\ TypeOK /\ cmd \in [Cmds -> CmdType]
  BY NextType DEF SnapInv, Next, Step, Work, TypeOK
<1>2. \A d \in Cmds : d # c => cmd'[d] = cmd[d]
  BY <1>1 DEF ScanMeta, Goto, Exit
<1>3. /\ cmd[c].op = "prune" /\ cmd[c].pc = "scanmeta"
      /\ cmd'[c].op = "prune"
      /\ cmd'[c].pc = "ioctl"
      /\ cmd'[c].scan = cmd[c].scan \cup meta
      /\ cmd'[c].todo = cmd[c].todo
  BY <1>1 DEF ScanMeta, Goto, Exit, At, CmdType, Idle, Plain, SnapInv, OwnInv, FromLinks
<1>4. UNCHANGED <<tid, recs, gone, links, meta, doomed>>
  BY <1>1, <1>3 DEF ScanMeta, SnapInv, OwnInv, Plain
<1>5. KnownInv /\ GoneInv /\ PendingInv /\ OwnInv /\ ScanInv /\ IntactInv
  BY DEF SnapInv
<1>6. KnownInv'
  BY <1>2, <1>3, <1>4, <1>5 DEF KnownInv, Known, TypeOK
<1>7. PendingInv'
  BY <1>2, <1>3, <1>4, <1>5 DEF KnownInv, Known, PendingInv, At
<1>8. OwnInv'
  BY <1>2, <1>3, <1>4, <1>5 DEF KnownInv, Known, OwnInv
<1>9. ScanInv'
  BY <1>2, <1>3, <1>4, <1>5 DEF KnownInv, Known, ScanInv, PendingInv, At
<1>10. IntactInv'
  BY <1>2, <1>3, <1>4, <1>5 DEF KnownInv, Known, IntactInv, PendingInv, VisibleAt, At
<1>11. GoneInv'
  BY <1>3, <1>4, <1>5 DEF GoneInv
<1> QED BY <1>1, <1>6, <1>7, <1>8, <1>9, <1>10, <1>11 DEF SnapInv

\* A command that fails or is killed preserves SnapInv.
LEMMA DieInv ==
    ASSUME SnapInv, Plain, NEW c \in Cmds, Die(c)
    PROVE  SnapInv'
<1>1. TypeOK' /\ TypeOK /\ cmd \in [Cmds -> CmdType]
  BY NextType DEF SnapInv, Next, Step, Work, TypeOK
<1>2. \A d \in Cmds : d # c => cmd'[d] = cmd[d]
  BY <1>1 DEF Die, Goto, Exit
<1>3. /\ cmd'[c].op = "none"
      /\ cmd'[c].todo = {}
      /\ cmd'[c].scan = {}
  BY <1>1 DEF Die, Goto, Exit, At, CmdType, Idle, Plain, SnapInv, OwnInv, FromLinks
<1>4. UNCHANGED <<tid, recs, gone, links, meta, doomed>>
  BY <1>1, <1>3 DEF Die, SnapInv, OwnInv, Plain
<1>5. KnownInv /\ GoneInv /\ PendingInv /\ OwnInv /\ ScanInv /\ IntactInv
  BY DEF SnapInv
<1>6. KnownInv'
  BY <1>2, <1>3, <1>4, <1>5 DEF KnownInv, Known, TypeOK
<1>7. PendingInv'
  BY <1>2, <1>3, <1>4, <1>5 DEF KnownInv, Known, PendingInv, At
<1>8. OwnInv'
  BY <1>2, <1>3, <1>4, <1>5 DEF KnownInv, Known, OwnInv
<1>9. ScanInv'
  BY <1>2, <1>3, <1>4, <1>5 DEF KnownInv, Known, ScanInv, PendingInv, At
<1>10. IntactInv'
  BY <1>2, <1>3, <1>4, <1>5 DEF KnownInv, Known, IntactInv, PendingInv, VisibleAt, At
<1>11. GoneInv'
  BY <1>3, <1>4, <1>5 DEF GoneInv
<1> QED BY <1>1, <1>6, <1>7, <1>8, <1>9, <1>10, <1>11 DEF SnapInv

\* HAMMERIOC_PRUNE preserves SnapInv: what it takes is invisible in the snapshots
\* it has seen, and older than the ones it has not.
LEMMA PruneInv ==
    ASSUME SnapInv, Plain, NEW c \in Cmds, Prune(c)
    PROVE  SnapInv'
<1>1. TypeOK' /\ TypeOK /\ cmd \in [Cmds -> CmdType]
  BY NextType DEF SnapInv, Next, Step, Work, TypeOK
<1>2. \A d \in Cmds : d # c => cmd'[d] = cmd[d]
  BY <1>1 DEF Prune, Exit
<1>3. /\ cmd[c].op = "prune" /\ cmd[c].pc = "ioctl"
      /\ cmd'[c].op = "none" /\ cmd'[c].todo = {} /\ cmd'[c].scan = {}
  BY <1>1 DEF Prune, Exit, Idle, SnapInv, OwnInv
<1>4. UNCHANGED <<tid, links, meta, doomed>>
  BY DEF Prune
<1>5. KnownInv /\ GoneInv /\ PendingInv /\ OwnInv /\ ScanInv /\ IntactInv
  BY DEF SnapInv
<1> DEFINE S == {x.tid : x \in cmd[c].scan}
<1>6. S \subseteq Nat /\ S \subseteq Known
  BY <1>1, <1>5, TidsAreNat DEF KnownInv
<1>7. PICK ts :
        LET dead == {v \in recs : v.del # 0 /\
                        \/ cmd[c].op = "everything"
                        \/ \E r \in Elms(cmd[c].scan, ts) : Prunes(r, v)} IN
        \E D \in SUBSET dead : gone' = gone \cup {[v |-> v, at |-> now] : v \in D}
  BY Zenon DEF Prune
<1> DEFINE young == IF PruneMin = 0 THEN {} ELSE {s \in S : IsYoung(ts[s])}
<1>8. PICK D \in SUBSET recs :
        /\ gone' = gone \cup {[v |-> v, at |-> now] : v \in D}
        /\ \A v \in D : v.del # 0 /\ \E r \in Ranges(Kept(S, young)) : Prunes(r, v)
  BY <1>3, <1>7, Zenon DEF Elms
<1>9. young \in SUBSET S
  OBVIOUS
<1> HIDE DEF young, S
<1>10. \A g \in gone' : g \in gone \/ g.v \in D
  BY <1>8, SMT, Z3, Zenon
<1>11. ASSUME NEW v \in D PROVE \E s \in S : v.del <= s
  <2>1. PICK r \in Ranges(Kept(S, young)) : Prunes(r, v)
    BY <1>8
  <2>2. Kept(S, young) \in SUBSET Nat /\ Kept(S, young) \subseteq S
    BY <1>6, Zenon DEF Kept
  <2> QED BY <2>1, <2>2, RangeCases DEF Prunes
<1>12. ASSUME NEW v \in D, NEW s \in S PROVE ~VisibleAt(v, s)
  <2>1. v \in [cre : Nat, del : Nat, died : Nat]
    BY <1>1, <1>8, TidsAreNat
  <2>2. PICK r \in Ranges(Kept(S, young)) : Prunes(r, v)
    BY <1>8
  <2> QED BY <1>6, <1>9, <1>12, <2>1, <2>2, CombKeepsSnapshots
<1>13. Known' = Known
  BY <1>4 DEF Known
<1>14. KnownInv'
  BY <1>2, <1>3, <1>4, <1>5, <1>13 DEF KnownInv
<1>15. \A v \in D : v.del \in Nat /\ v.del # 0 /\ \E t \in Known : v.del <= t
  BY <1>1, <1>6, <1>8, <1>11, TidsAreNat
<1>16. GoneInv'
  <2>1. tid \in Nat /\ Known \subseteq Nat /\ \A t \in Known : t <= tid
    BY <1>1, <1>5, TidsAreNat DEF KnownInv
  <2>2. \A v \in D : v.del # 0 /\ v.del <= tid
    BY <1>15, <2>1
  <2> QED BY <1>4, <1>5, <1>10, <2>2 DEF GoneInv
<1>17. PendingInv'
  <2> SUFFICES ASSUME NEW d \in Cmds, At(d, "snapshot", "add_meta")'
               PROVE  /\ cmd'[d].tid <= tid'
                      /\ \A t \in Known' : t < cmd'[d].tid
                      /\ \A g \in gone' : g.v.del < cmd'[d].tid
    BY DEF PendingInv
  <2>1. d # c /\ cmd'[d] = cmd[d] /\ At(d, "snapshot", "add_meta")
    BY <1>2, <1>3 DEF At
  <2>2. /\ cmd[d].tid <= tid
        /\ \A t \in Known : t < cmd[d].tid
        /\ \A g \in gone : g.v.del < cmd[d].tid
    BY <1>5, <2>1 DEF PendingInv
  <2>3. cmd[d].tid \in Nat /\ Known \subseteq Nat
    BY <1>1, TidsAreNat
  <2>4. \A v \in D : v.del < cmd[d].tid
    BY <1>15, <2>2, <2>3
  <2> QED BY <1>4, <1>10, <1>13, <2>1, <2>2, <2>4
<1>18. OwnInv'
  BY <1>2, <1>3, <1>4, <1>5, <1>13 DEF OwnInv
<1>19. ScanInv'
  BY <1>2, <1>3, <1>4, <1>5 DEF ScanInv, At
<1>20. IntactInv'
  <2> SUFFICES ASSUME NEW m \in meta, NEW v \in D, m.tid \notin doomed
               PROVE  ~VisibleAt(v, m.tid)
    BY <1>4, <1>5, <1>10 DEF IntactInv
  <2>1. m.tid \in S \/ \A s \in S : s < m.tid
    BY <1>3, <1>5, Zenon DEF ScanInv, At, S
  <2>2. CASE m.tid \in S
    BY <1>12, <2>2
  <2>3. CASE \A s \in S : s < m.tid
    <3>1. m.tid \in Nat
      BY <1>1, TidsAreNat DEF Known
    <3> QED BY <1>6, <1>11, <1>15, <2>3, <3>1 DEF VisibleAt
  <2> QED BY <2>1, <2>2, <2>3
<1> QED BY <1>1, <1>14, <1>16, <1>17, <1>18, <1>19, <1>20 DEF SnapInv

\* Starting a command preserves SnapInv.
LEMMA BeginInv ==
    ASSUME SnapInv, NEW c \in Cmds, NEW op \in Ops \ {"everything"}, Begin(c, op),
           op = "snapshot" => OneSnapshotter
    PROVE  SnapInv'
<1>1. TypeOK' /\ TypeOK /\ cmd \in [Cmds -> CmdType]
  BY NextType DEF SnapInv, Next, Step, Work, TypeOK
<1>2. \A d \in Cmds : d # c => cmd'[d] = cmd[d]
  BY <1>1 DEF Begin
<1>3. PICK l \in IF op = "snaprm" THEN links ELSE {[name |-> 0, tid |-> 0]} :
        /\ cmd' = [cmd EXCEPT ![c] = [Idle EXCEPT !.op = op, !.pc = FirstPc(op),
                                                  !.name = l.name, !.tid = l.tid]]
        /\ doomed' = IF op = "snaprm" THEN doomed \cup {l.tid} ELSE doomed
  BY Zenon DEF Begin
<1>4. UNCHANGED <<tid, recs, gone, links, meta>>
  BY DEF Begin
<1>5. KnownInv /\ GoneInv /\ PendingInv /\ OwnInv /\ ScanInv /\ IntactInv
  BY DEF SnapInv
<1>6. /\ cmd'[c].op = op /\ cmd'[c].pc = FirstPc(op) /\ cmd'[c].tid = l.tid
      /\ cmd'[c].todo = {} /\ cmd'[c].scan = {}
  BY <1>1, <1>3 DEF Idle
<1>7. op # "everything" /\ op \in {"snapshot", "snaprm", "prune"}
  BY SnapshotsAssumption
<1>8. FirstPc(op) \in {"synctid", "del_meta", "opendir"}
  BY <1>7 DEF FirstPc
<1>9. op = "snapshot" => \A d \in Cmds : cmd[d].op # "snapshot"
  BY DEF Begin
<1>10. op = "snaprm" => l \in links /\ l.tid \in Known
  BY <1>3, <1>5 DEF KnownInv
<1>11. Known' = Known /\ doomed \subseteq doomed'
  BY <1>3, <1>4, <1>10 DEF Known
<1>12. KnownInv'
  BY <1>2, <1>4, <1>5, <1>6, <1>11 DEF KnownInv
<1>13. GoneInv'
  BY <1>4, <1>5 DEF GoneInv
<1>14. PendingInv'
  BY <1>2, <1>4, <1>5, <1>6, <1>8, <1>11 DEF PendingInv, At
<1>15. OwnInv'
  <2>1. op = "snaprm" => l.tid \in doomed'
    BY <1>3
  <2>2. \A d, e \in Cmds : cmd'[d].op = "snapshot" /\ cmd'[e].op = "snapshot" => d = e
    BY <1>2, <1>5, <1>6, <1>9 DEF OwnInv
  <2>3. \A d \in Cmds : cmd'[d].op = "snapshot" /\ cmd'[d].pc \in {"remove", "symlink"} =>
                          cmd'[d].tid \in Known'
    BY <1>2, <1>5, <1>6, <1>8, <1>11 DEF OwnInv
  <2>4. \A d \in Cmds : cmd'[d].op = "snaprm" => cmd'[d].tid \in doomed'
    BY <1>2, <1>5, <1>6, <1>11, <2>1 DEF OwnInv
  <2>5. \A d \in Cmds : cmd'[d].op # "everything"
    BY <1>2, <1>5, <1>6, <1>7 DEF OwnInv
  <2> QED BY <2>2, <2>3, <2>4, <2>5 DEF OwnInv
<1>16. ScanInv'
  BY <1>2, <1>4, <1>5, <1>6, <1>8, <1>11 DEF ScanInv, At
<1>17. IntactInv'
  BY <1>4, <1>5, <1>11 DEF IntactInv
<1> QED BY <1>1, <1>12, <1>13, <1>14, <1>15, <1>16, <1>17 DEF SnapInv

\* A write and the clock preserve SnapInv.
LEMMA OutsideInv ==
    ASSUME SnapInv, Write \/ Tick \/ UNCHANGED vars
    PROVE  SnapInv'
<1>1. TypeOK' /\ TypeOK
  BY NextType DEF SnapInv, Next
<1>2. UNCHANGED <<gone, links, meta, doomed, cmd>> /\ tid' \in {tid, tid + 1}
  BY Zenon DEF Write, Tick, vars
<1>3. KnownInv /\ GoneInv /\ PendingInv /\ OwnInv /\ ScanInv /\ IntactInv
  BY DEF SnapInv
<1>4. tid \in Nat /\ Known' = Known /\ Known \subseteq Nat
  BY <1>1, <1>2, TidsAreNat DEF Known
<1>5. \A n \in Nat : n <= tid => n <= tid'
  BY <1>2, <1>4
<1>6. KnownInv'
  BY <1>2, <1>3, <1>4, <1>5, Zenon DEF KnownInv
<1>7. GoneInv'
  BY <1>1, <1>2, <1>3, <1>5, TidsAreNat DEF GoneInv
<1>8. PendingInv'
  BY <1>1, <1>2, <1>3, <1>4, <1>5, TidsAreNat DEF PendingInv, At
<1>9. OwnInv' /\ ScanInv' /\ IntactInv'
  BY <1>2, <1>3, <1>4 DEF OwnInv, ScanInv, IntactInv, At
<1> QED BY <1>1, <1>6, <1>7, <1>8, <1>9 DEF SnapInv

\* Nothing is recorded, pruned or under way at the start.
LEMMA SnapInitial == ASSUME Init PROVE SnapInv
<1>1. TypeOK
  BY InitType
<1>2. \A c \in Cmds : cmd[c].op = "none" /\ cmd[c].todo = {} /\ cmd[c].scan = {}
  BY DEF Init, Idle
<1>3. links = {} /\ meta = {} /\ doomed = {} /\ gone = {}
  BY DEF Init
<1> QED BY <1>1, <1>2, <1>3 DEF SnapInv, KnownInv, GoneInv, PendingInv, OwnInv, ScanInv,
     IntactInv, Known, At

\* Every step preserves SnapInv.
LEMMA SnapStep == ASSUME SnapInv, Managed, [Next]_vars PROVE SnapInv'
BY SyncTidInv, AddMetaInv, RemoveLinkInv, SymlinkInv, DelMetaInv, UnlinkInv, OpenDirInv,
   ScanDirInv, ScanMetaInv, PruneInv, DieInv, BeginInv, OutsideInv DEF Next, Step, Work, Managed

\* However many snapshot, snaprm and prune commands run at once, fail or are
\* killed, no prune takes data a recorded snapshot shows, as long as snapshot
\* commands do not overlap.
THEOREM SnapshotsSurvivePrune ==
    ASSUME Managed
    PROVE  Spec => []SnapshotsIntact
<1>1. SnapInv => SnapshotsIntact
  BY DEF SnapInv, KnownInv, IntactInv, SnapshotsIntact, Recorded, Known
<1>2. SnapInv /\ [Next]_vars => SnapInv'
  BY SnapStep
<1> QED BY SnapInitial, <1>1, <1>2, PTL DEF Spec
-----------------------------------------------------------------------------
\* What a prune takes was superseded no later than some snapshot's transaction.
LEMMA PruneTakes ==
    ASSUME SnapInv, Managed, NEW c \in Cmds, Prune(c)
    PROVE  \E D \in SUBSET recs :
             /\ gone' = gone \cup {[v |-> v, at |-> now] : v \in D}
             /\ \A v \in D : v.del # 0 /\ \E t \in Known : v.del <= t
<1>1. TypeOK /\ KnownInv /\ cmd[c].op = "prune"
  BY Zenon DEF SnapInv, OwnInv, Prune
<1> DEFINE S == {x.tid : x \in cmd[c].scan}
<1>2. S \subseteq Nat /\ S \subseteq Known
  BY <1>1, TidsAreNat DEF KnownInv
<1>3. PICK ts :
        LET dead == {v \in recs : v.del # 0 /\
                        \/ cmd[c].op = "everything"
                        \/ \E r \in Elms(cmd[c].scan, ts) : Prunes(r, v)} IN
        \E D \in SUBSET dead : gone' = gone \cup {[v |-> v, at |-> now] : v \in D}
  BY Zenon DEF Prune
<1> DEFINE young == IF PruneMin = 0 THEN {} ELSE {s \in S : IsYoung(ts[s])}
<1>4. PICK D \in SUBSET recs :
        /\ gone' = gone \cup {[v |-> v, at |-> now] : v \in D}
        /\ \A v \in D : v.del # 0 /\ \E r \in Ranges(Kept(S, young)) : Prunes(r, v)
  BY <1>1, <1>3, Zenon DEF Elms
<1> HIDE DEF young, S
<1>5. ASSUME NEW v \in D PROVE \E t \in Known : v.del <= t
  <2>1. PICK r \in Ranges(Kept(S, young)) : Prunes(r, v)
    BY <1>4
  <2>2. Kept(S, young) \in SUBSET Nat /\ Kept(S, young) \subseteq S
    BY <1>2, Zenon DEF Kept
  <2> QED BY <1>2, <2>1, <2>2, RangeCases DEF Prunes
<1> QED BY <1>4, <1>5

\* A step that supersedes nothing and records nothing preserves FreshInv.
LEMMA FreshFrame ==
    ASSUME FreshInv, TypeOK, recs' \subseteq recs, tid' = tid, Known' \subseteq Known,
           \A d \in Cmds : At(d, "snapshot", "add_meta")' =>
               At(d, "snapshot", "add_meta") /\ cmd'[d].tid = cmd[d].tid
    PROVE  FreshInv'
BY DEF FreshInv

\* HAMMERIOC_SYNCTID gives the snapshot a transaction that supersedes nothing.
LEMMA FreshSync ==
    ASSUME FreshInv, SnapInv, Managed, NEW c \in Cmds, SyncTid(c)
    PROVE  FreshInv'
<1>1. TypeOK /\ cmd \in [Cmds -> CmdType] /\ tid \in Nat /\ OwnInv
  BY TidsAreNat DEF SnapInv, TypeOK
<1>2. /\ UNCHANGED <<recs, meta, doomed>> /\ tid' = tid + 1 /\ cmd[c].op = "snapshot"
      /\ cmd' = [cmd EXCEPT ![c].tid = tid + 1, ![c].name = now,
                            ![c].pc = IF Version3 THEN "add_meta" ELSE "remove"]
  BY DEF SyncTid, At
<1>3. cmd'[c].tid = tid + 1 /\ \A d \in Cmds : d # c => cmd'[d] = cmd[d]
  BY <1>1, <1>2 DEF CmdType
<1>4. \A v \in recs : v.del \in Nat /\ v.del <= tid
  BY <1>1, TidsAreNat DEF FreshInv
<1>5. ASSUME NEW d \in Cmds, At(d, "snapshot", "add_meta")' PROVE cmd'[d].tid = tid + 1
  BY <1>1, <1>2, <1>3, <1>5 DEF At, OwnInv
<1>6. Known' = Known
  BY <1>2 DEF Known
<1>7. ASSUME NEW v \in recs
      PROVE  /\ v.del <= tid'
             /\ v.del # 0 => /\ v.del \notin Known'
                             /\ \A d \in Cmds : At(d, "snapshot", "add_meta")' => v.del # cmd'[d].tid
  <2>1. v.del \in Nat /\ v.del <= tid /\ v.del # tid + 1
    BY <1>1, <1>4
  <2>2. v.del <= tid'
    BY <1>1, <1>2, <2>1
  <2>3. v.del # 0 => v.del \notin Known'
    BY <1>6 DEF FreshInv
  <2> QED BY <1>5, <2>1, <2>2, <2>3
<1> QED BY <1>2, <1>7, Zenon DEF FreshInv

\* HAMMERIOC_ADD_SNAPSHOT records that transaction.
LEMMA FreshAdd ==
    ASSUME FreshInv, SnapInv, NEW c \in Cmds, AddMeta(c)
    PROVE  FreshInv'
<1>1. TypeOK /\ cmd \in [Cmds -> CmdType]
  BY DEF SnapInv, TypeOK
<1>2. /\ UNCHANGED <<recs, tid, doomed>> /\ At(c, "snapshot", "add_meta")
      /\ meta' = meta \cup {[tid |-> cmd[c].tid, ts |-> now]}
      /\ cmd' = [cmd EXCEPT ![c].pc = "remove"]
  BY DEF AddMeta, Goto
<1>3. cmd'[c].pc = "remove" /\ \A d \in Cmds : d # c => cmd'[d] = cmd[d]
  BY <1>1, <1>2 DEF CmdType
<1>4. \A t \in Known' : t \in Known \/ t = cmd[c].tid
  BY <1>2 DEF Known
<1>5. \A d \in Cmds : At(d, "snapshot", "add_meta")' => At(d, "snapshot", "add_meta") /\ cmd'[d] = cmd[d]
  BY <1>3 DEF At
<1> QED BY <1>2, <1>4, <1>5 DEF FreshInv

\* A write supersedes with a transaction that is no snapshot's.
LEMMA FreshWrite ==
    ASSUME FreshInv, SnapInv, Write
    PROVE  FreshInv'
<1>1. /\ TypeOK /\ tid \in Nat /\ Known \subseteq Nat /\ KnownInv /\ PendingInv
      /\ \A v \in recs : v.del \in Nat
      /\ \A d \in Cmds : cmd[d].tid \in Nat
  BY TidsAreNat DEF SnapInv
<1>2. /\ UNCHANGED <<meta, doomed, cmd>> /\ tid' = tid + 1 /\ Known' = Known
      /\ \A w \in recs' : w \in recs \/ w.del = tid + 1 \/ w.del = 0
  <2>1. \A v \in recs : [v EXCEPT !.del = tid + 1, !.died = now].del = tid + 1
    BY <1>1 DEF TypeOK
  <2>2. [cre |-> tid + 1, del |-> 0, died |-> 0].del = 0
    OBVIOUS
  <2>3. ASSUME NEW w \in recs' PROVE w \in recs \/ w.del = tid + 1 \/ w.del = 0
    <3>1. \/ \E v \in recs : w = v \/ w = [v EXCEPT !.del = tid + 1, !.died = now]
          \/ w = [cre |-> tid + 1, del |-> 0, died |-> 0]
      BY <2>3, Zenon DEF Write
    <3> QED BY <2>1, <2>2, <3>1, Zenon
  <2> QED BY <2>3, Zenon DEF Write, Known
<1>3. \A t \in Known : t # tid + 1
  BY <1>1 DEF KnownInv
<1>4. \A d \in Cmds : At(d, "snapshot", "add_meta") => cmd[d].tid # tid + 1
  BY <1>1, PastLast, Zenon DEF PendingInv
<1>5. \A v \in recs : v.del <= tid + 1
  BY <1>1 DEF FreshInv
<1>6. ASSUME NEW w \in recs'
      PROVE  /\ w.del <= tid'
             /\ w.del # 0 => /\ w.del \notin Known'
                             /\ \A d \in Cmds : At(d, "snapshot", "add_meta")' => w.del # cmd'[d].tid
  <2>1. CASE w \in recs
    BY <1>2, <1>5, <2>1 DEF FreshInv, At
  <2>2. CASE w.del = tid + 1
    BY <1>1, <1>2, <1>3, <1>4, <2>2 DEF At
  <2>3. CASE w.del = 0
    BY <1>1, <1>2, <2>3
  <2> QED BY <1>2, <2>1, <2>2, <2>3
<1> QED BY <1>6 DEF FreshInv

\* Nothing is superseded at the start.
LEMMA FreshInitial == ASSUME Init PROVE FreshInv
<1>1. tid = 1 /\ \A v \in recs : v.del = 0
  BY DEF Init
<1> QED BY <1>1 DEF FreshInv

\* Every step preserves FreshInv.
LEMMA FreshStep ==
    ASSUME FreshInv, SnapInv, Managed, [Next]_vars
    PROVE  FreshInv'
<1>1. TypeOK /\ cmd \in [Cmds -> CmdType] /\ KnownInv /\ OwnInv
  BY DEF SnapInv, TypeOK
<1>2. Idle.op = "none"
  BY DEF Idle
<1>3. ASSUME NEW c \in Cmds, RemoveLink(c) \/ Symlink(c) \/ Unlink(c) \/ Die(c) PROVE FreshInv'
  <2>1. UNCHANGED <<recs, tid, meta, doomed>>
    BY <1>3 DEF RemoveLink, Symlink, Unlink, Die
  <2>2. cmd' = [cmd EXCEPT ![c].pc = "symlink"] \/ cmd' = [cmd EXCEPT ![c] = Idle]
    BY <1>3 DEF RemoveLink, Symlink, Unlink, Die, Goto, Exit
  <2>3. \A d \in Cmds : d # c => cmd'[d] = cmd[d]
    BY <1>1, <2>2
  <2>4. cmd'[c].op = "none" \/ cmd'[c].pc = "symlink"
    BY <1>1, <1>2, <2>2 DEF CmdType
  <2>5. \A d \in Cmds : At(d, "snapshot", "add_meta")' =>
              At(d, "snapshot", "add_meta") /\ cmd'[d].tid = cmd[d].tid
    BY <2>3, <2>4 DEF At
  <2>6. Known' = Known
    BY <2>1 DEF Known
  <2> QED BY <1>1, <2>1, <2>5, <2>6, FreshFrame
<1>4. ASSUME NEW c \in Cmds, DelMeta(c) PROVE FreshInv'
  <2>1. UNCHANGED <<recs, tid, doomed>> /\ meta' \subseteq meta
    BY <1>4, Zenon DEF DelMeta
  <2>2. cmd' = [cmd EXCEPT ![c].pc = "unlink"] \/ cmd' = [cmd EXCEPT ![c] = Idle]
    BY <1>4 DEF DelMeta, Goto, Exit
  <2>3. \A d \in Cmds : d # c => cmd'[d] = cmd[d]
    BY <1>1, <2>2
  <2>4. cmd'[c].op = "none" \/ cmd'[c].pc = "unlink"
    BY <1>1, <1>2, <2>2 DEF CmdType
  <2>5. \A d \in Cmds : At(d, "snapshot", "add_meta")' =>
              At(d, "snapshot", "add_meta") /\ cmd'[d].tid = cmd[d].tid
    BY <2>3, <2>4 DEF At
  <2>6. Known' \subseteq Known
    BY <2>1 DEF Known
  <2> QED BY <1>1, <2>1, <2>5, <2>6, FreshFrame
<1>5. ASSUME NEW c \in Cmds, OpenDir(c) \/ ScanDir(c) \/ ScanMeta(c) PROVE FreshInv'
  <2>1. UNCHANGED <<recs, tid, meta, doomed>>
    BY <1>1, <1>5 DEF OpenDir, ScanDir, ScanMeta, OwnInv
  <2>2. \A d \in Cmds : d # c => cmd'[d] = cmd[d]
    BY <1>1, <1>5 DEF OpenDir, ScanDir, ScanMeta, Goto
  <2>3. cmd'[c].pc \in {"scandir", "scanmeta", "ioctl"}
    BY <1>1, <1>5 DEF OpenDir, ScanDir, ScanMeta, Goto, CmdType
  <2>4. \A d \in Cmds : At(d, "snapshot", "add_meta")' =>
              At(d, "snapshot", "add_meta") /\ cmd'[d].tid = cmd[d].tid
    BY <2>2, <2>3 DEF At
  <2>5. Known' = Known
    BY <2>1 DEF Known
  <2> QED BY <1>1, <2>1, <2>4, <2>5, FreshFrame
<1>6. ASSUME NEW c \in Cmds, Prune(c) PROVE FreshInv'
  <2>1. UNCHANGED <<tid, meta, doomed>> /\ recs' \subseteq recs /\ cmd' = [cmd EXCEPT ![c] = Idle]
    BY <1>6 DEF Prune, Exit
  <2>2. \A d \in Cmds : cmd'[d] = cmd[d] \/ cmd'[d].op = "none"
    BY <1>1, <1>2, <2>1
  <2>3. \A d \in Cmds : At(d, "snapshot", "add_meta")' =>
              At(d, "snapshot", "add_meta") /\ cmd'[d].tid = cmd[d].tid
    BY <2>2 DEF At
  <2>4. Known' = Known
    BY <2>1 DEF Known
  <2> QED BY <1>1, <2>1, <2>3, <2>4, FreshFrame
<1>7. ASSUME NEW c \in Cmds, NEW op \in Ops, Begin(c, op) PROVE FreshInv'
  <2>1. PICK l \in IF op = "snaprm" THEN links ELSE {[name |-> 0, tid |-> 0]} :
          /\ cmd' = [cmd EXCEPT ![c] = [Idle EXCEPT !.op = op, !.pc = FirstPc(op),
                                                    !.name = l.name, !.tid = l.tid]]
          /\ doomed' = IF op = "snaprm" THEN doomed \cup {l.tid} ELSE doomed
    BY <1>7, Zenon DEF Begin
  <2>2. UNCHANGED <<tid, recs, meta>>
    BY <1>7 DEF Begin
  <2>3. op = "snaprm" => l.tid \in Known
    BY <1>1, <2>1 DEF KnownInv
  <2>4. Known' = Known
    BY <2>1, <2>2, <2>3 DEF Known
  <2>5. FirstPc(op) # "add_meta"
    <3>1. op \in {"snapshot", "snaprm", "prune", "everything"}
      BY SnapshotsAssumption
    <3> QED BY <3>1 DEF FirstPc
  <2>6. cmd'[c].pc = FirstPc(op) /\ \A d \in Cmds : d # c => cmd'[d] = cmd[d]
    BY <1>1, <2>1 DEF Idle
  <2>7. \A d \in Cmds : At(d, "snapshot", "add_meta")' =>
              At(d, "snapshot", "add_meta") /\ cmd'[d].tid = cmd[d].tid
    BY <2>5, <2>6 DEF At
  <2> QED BY <1>1, <2>2, <2>4, <2>7, FreshFrame
<1>8. ASSUME Tick \/ UNCHANGED vars PROVE FreshInv'
  <2>1. UNCHANGED <<recs, tid, meta, doomed, cmd>>
    BY <1>8 DEF Tick, vars
  <2> QED BY <2>1 DEF FreshInv, Known, At
<1> QED BY <1>3, <1>4, <1>5, <1>6, <1>7, <1>8, FreshSync, FreshAdd, FreshWrite
        DEF Next, Step, Work

\* Only a prune takes a version, and it takes none that was superseded after
\* every snapshot there is or was.
LEMMA LatestStep ==
    ASSUME SnapInv, FreshInv, Managed, [Next]_vars
    PROVE  \A g \in gone' \ gone : \E s \in Recorded \cup doomed : g.v.del < s
<1>1. ASSUME NEW c \in Cmds, Prune(c), NEW g \in gone' \ gone
      PROVE  \E s \in Recorded \cup doomed : g.v.del < s
  <2>1. PICK D \in SUBSET recs :
          /\ gone' = gone \cup {[v |-> v, at |-> now] : v \in D}
          /\ \A v \in D : v.del # 0 /\ \E t \in Known : v.del <= t
    BY <1>1, PruneTakes
  <2>2. g.v \in D
    BY <1>1, <2>1
  <2>3. PICK t \in Known : g.v.del <= t
    BY <2>1, <2>2
  <2>4. g.v.del \in Nat /\ t \in Nat
    BY <2>2, TidsAreNat DEF SnapInv
  <2>5. g.v.del # t
    BY <2>1, <2>2, <2>3 DEF FreshInv
  <2> QED BY <2>3, <2>4, <2>5 DEF Known, Recorded
<1>2. ASSUME ~(\E c \in Cmds : Prune(c)) PROVE gone' = gone
  BY <1>2, Zenon DEF Next, Step, Work, Write, Tick, Begin, SyncTid, AddMeta, RemoveLink, Symlink,
       DelMeta, Unlink, OpenDir, ScanDir, ScanMeta, Die, vars
<1> QED BY <1>1, <1>2

\* All history after the latest snapshot is kept: a prune takes only versions
\* that were superseded before a snapshot that is, or was, on record.
THEOREM LatestHistoryKept ==
    ASSUME Managed
    PROVE  Spec => LatestKept
<1>1. Init => FreshInv
  BY FreshInitial
<1>2. SnapInv /\ FreshInv /\ [Next]_vars => SnapInv' /\ FreshInv'
  BY SnapStep, FreshStep
<1>3. SnapInv /\ FreshInv /\ [Next]_vars =>
        [\A g \in gone' \ gone : \E s \in Recorded \cup doomed : g.v.del < s]_vars
  BY LatestStep
<1> QED BY SnapInitial, <1>1, <1>2, <1>3, PTL DEF Spec, LatestKept
-----------------------------------------------------------------------------
\* A timestamp stays fit for its snapshot: a write's transaction is later than
\* every snapshot there is.
LEMMA FitWrite ==
    ASSUME MinInv, Write, NEW t \in Nat, NEW s \in Nat, Fit(t, s)
    PROVE  Fit(t, s)'
<1>1. tid \in Nat /\ tid' = tid + 1 /\ s <= tid
  BY TidsAreNat, Zenon DEF MinInv, Write, Fit
<1>2. ASSUME NEW w \in recs', w.del # 0, w.del <= s PROVE w.died <= t
  <2>1. CASE w = [cre |-> tid + 1, del |-> 0, died |-> 0]
    BY <1>2, <2>1
  <2>2. ASSUME NEW v \in recs,
               w = IF v.del = 0 THEN [v EXCEPT !.del = tid + 1, !.died = now] ELSE v
        PROVE  w.died <= t
    <3>1. v \in [cre : Nat, del : Nat, died : Nat]
      BY TidsAreNat DEF MinInv
    <3>2. CASE v.del = 0
      BY <1>1, <1>2, <2>2, <3>1, <3>2
    <3>3. CASE v.del # 0
      BY <1>2, <2>2, <3>3 DEF Fit, Covers
    <3> QED BY <3>2, <3>3
  <2> QED BY <2>1, <2>2, Zenon DEF Write
<1> QED BY <1>1, <1>2 DEF Fit, Covers

\* A transaction id stays at or below the last one when that one grows.
LEMMA StaysBelow ==
    ASSUME NEW n \in Nat, NEW a \in Nat, NEW b \in {a, a + 1}, n <= a
    PROVE  n <= b
OBVIOUS

\* What died no later than a snapshot of age p or more is of that age itself.
LEMMA AgeOfDead ==
    ASSUME NEW n \in Nat, NEW d \in Nat, NEW t \in Nat, NEW p \in Nat,
           d <= t, ~(n - t < p)
    PROVE  n - d >= p
OBVIOUS

\* A command's step preserves MinInv when each snapshot it records is stamped
\* with the time, and each one it remembers was recorded or remembered before.
LEMMA MinFrame ==
    ASSUME MinInv, TypeOK', recs' \subseteq recs, now' = now, tid' \in {tid, tid + 1},
           \A m \in meta' : m \in meta \/ (m.tid <= tid /\ m.ts = now),
           \A l \in links' : l \in links \/ (l.tid <= tid /\ l.ct = now),
           \A d \in Cmds : cmd'[d].tid <= tid' /\ cmd'[d].op # "everything",
           \A d \in Cmds : \A l \in cmd'[d].todo : l \in links \/ l \in cmd[d].todo,
           \A d \in Cmds : \A x \in cmd'[d].scan :
               \/ x \in cmd[d].scan \/ x \in meta
               \/ \E l \in links \cup cmd[d].todo : x.tid = l.tid /\ x.ts = l.ct,
           PruneMinKept'
    PROVE  MinInv'
<1>0. TypeOK /\ tid \in Nat /\ now \in Nat
  BY TidsAreNat, Zenon DEF MinInv
<1>1. \A t, s : Covers(t, s) => Covers(t, s)'
  BY Zenon DEF Covers
<1>2. now # 0 /\ \A s : Covers(now, s)
  BY Zenon DEF MinInv, Covers
<1>3. \A n \in Nat : n <= tid => n <= tid'
  BY <1>0, StaysBelow, Zenon
<1>4. \A t, s : s \in Nat /\ Fit(t, s) => Fit(t, s)'
  BY <1>1, <1>3, Zenon DEF Fit
<1>5. Tids \subseteq Nat /\ 0..PfsTid \subseteq Nat
  BY NatRanges, Zenon
<1>6. \A m \in meta' : Fit(m.ts, m.tid)'
  <2>1. \A m \in meta' : m.tid \in Nat
    BY <1>5, Zenon DEF TypeOK
  <2>2. \A m \in meta' : Fit(m.ts, m.tid)
    BY <1>2, Zenon DEF MinInv, Fit
  <2> QED BY <1>4, <2>1, <2>2, Zenon
<1>7. \A l \in links' : Fit(l.ct, l.tid)'
  <2>1. \A l \in links' : l.tid \in Nat
    BY <1>5, Zenon DEF TypeOK, Links
  <2>2. \A l \in links' : Fit(l.ct, l.tid)
    BY <1>2 DEF MinInv, Fit
  <2> QED BY <1>4, <2>1, <2>2
<1>8. \A c \in Cmds : \A l \in cmd'[c].todo : Fit(l.ct, l.tid)'
  <2>1. \A c \in Cmds : \A l \in cmd'[c].todo : l.tid \in Nat
    <3>1. \A c \in Cmds : cmd'[c].todo \subseteq Links
      BY DEF TypeOK, CmdType
    <3> QED BY <1>5, <3>1, Zenon DEF Links
  <2>2. \A c \in Cmds : \A l \in cmd'[c].todo : Fit(l.ct, l.tid)
    BY Zenon DEF MinInv
  <2> QED BY <1>4, <2>1, <2>2
<1>9. \A c \in Cmds : \A x \in cmd'[c].scan : Fit(x.ts, x.tid)'
  <2>1. \A c \in Cmds : \A x \in cmd'[c].scan : x.tid \in Nat
    <3>1. \A c \in Cmds : cmd'[c].scan \subseteq Snaps
      BY DEF TypeOK, CmdType
    <3> QED BY <1>5, <3>1, Zenon DEF Snaps
  <2>2. \A c \in Cmds : \A x \in cmd'[c].scan : Fit(x.ts, x.tid)
    BY DEF MinInv
  <2> QED BY <1>4, <2>1, <2>2, Zenon
<1>10. \A v \in recs' : v.died <= now' /\ v.del <= tid'
  BY <1>0, <1>3, TidsAreNat DEF MinInv
<1> QED BY <1>2, <1>6, <1>7, <1>8, <1>9, <1>10 DEF MinInv

\* HAMMERIOC_PRUNE takes nothing that died within prune_min.
LEMMA PruneKeepsMin ==
    ASSUME MinInv, ~PfsLink, NEW c \in Cmds, Prune(c)
    PROVE  PruneMinKept'
<1>1. TypeOK /\ now \in Nat /\ PruneMin \in Nat /\ cmd[c].op # "everything" /\ now' = now
  BY TidsAreNat, SnapshotsAssumption, Zenon DEF MinInv, Prune
<1> DEFINE S == {x.tid : x \in cmd[c].scan}
<1>2. PICK ts :
        /\ \A s \in S : [tid |-> s, ts |-> ts[s]] \in cmd[c].scan
        /\ LET dead == {v \in recs : v.del # 0 /\
                           \/ cmd[c].op = "everything"
                           \/ \E r \in Elms(cmd[c].scan, ts) : Prunes(r, v)} IN
           \E D \in SUBSET dead : gone' = gone \cup {[v |-> v, at |-> now] : v \in D}
  BY Zenon DEF Prune
<1> DEFINE young == IF PruneMin = 0 THEN {} ELSE {s \in S : IsYoung(ts[s])}
<1>3. PICK D :
        /\ D \subseteq recs
        /\ gone' = gone \cup {[v |-> v, at |-> now] : v \in D}
        /\ \A v \in D : v.del # 0 /\ \E r \in Ranges(Kept(S, young)) : Prunes(r, v)
  BY <1>1, <1>2, Zenon DEF Elms
<1>4. S \subseteq Nat
  BY <1>1, TidsAreNat
<1>5. ASSUME NEW s \in S PROVE ts[s] \in Nat \ {0} /\ Covers(ts[s], s)
  <2> DEFINE x == [tid |-> s, ts |-> ts[s]]
  <2>1. x \in cmd[c].scan /\ x.tid = s /\ x.ts = ts[s]
    BY <1>2
  <2> HIDE DEF x
  <2> QED BY <1>1, <2>1, TidsAreNat, Zenon DEF MinInv, Fit
<1>6. ASSUME NEW v \in D PROVE now - v.died >= PruneMin
  <2>1. PICK r : r \in Ranges(Kept(S, young)) /\ Prunes(r, v)
    BY <1>3, Zenon
  <2>2. Kept(S, young) \in SUBSET Nat /\ Kept(S, young) \subseteq S
    BY <1>4 DEF Kept
  <2>3. r.end \in S /\ r.end \notin young /\ r.end \in Nat
    <3>1. r.end \in Kept(S, young)
      BY <2>1, <2>2, RangeCases, Zenon
    <3> HIDE DEF young, S
    <3>2. \A y \in young : r.end < y
      BY <3>1 DEF Kept
    <3> QED BY <2>2, <3>1, <3>2
  <2>4. v.died <= ts[r.end] /\ ts[r.end] \in Nat \ {0}
    BY <1>3, <1>5, <2>1, <2>3, Zenon DEF Prunes, Covers
  <2>5. v.died \in Nat /\ v.died <= now
    BY <1>1, <1>3, TidsAreNat, Zenon DEF MinInv
  <2>6. CASE PruneMin = 0
    <3> HIDE DEF S, young
    <3> QED BY <1>1, <2>5, <2>6
  <2>7. CASE PruneMin # 0
    <3>1. ~(now - ts[r.end] < PruneMin)
      <4>1. ~IsYoung(ts[r.end])
        BY <2>3, <2>7
      <4> QED BY <2>4, <4>1 DEF IsYoung
    <3> QED BY <1>1, <2>4, <2>5, <3>1, AgeOfDead
  <2> QED BY <2>6, <2>7
<1> HIDE DEF S, young
<1>7. \A g \in gone' : g \in gone \/ \E v \in D : g.v = v /\ g.at = now
  BY <1>3, SMT, Z3, Zenon
<1>8. \A g \in gone : g.at - g.v.died >= PruneMin
  BY DEF MinInv, PruneMinKept
<1> QED BY <1>6, <1>7, <1>8 DEF PruneMinKept

\* Every step preserves MinInv.
LEMMA MinStep ==
    ASSUME MinInv, ~PfsLink, "everything" \notin Ops, [Next]_vars
    PROVE  MinInv'
<1>1. TypeOK' /\ TypeOK /\ cmd \in [Cmds -> CmdType] /\ PruneMinKept
  BY NextType, Zenon DEF MinInv, TypeOK
<1>2. tid \in Nat /\ now \in Nat /\ \A c \in Cmds : cmd[c].tid \in Nat /\ cmd[c].tid <= tid
  BY <1>1, TidsAreNat DEF MinInv
<1>3. Idle.tid = 0 /\ Idle.op = "none" /\ Idle.todo = {} /\ Idle.scan = {}
  BY DEF Idle
<1>4. \A c \in Cmds : cmd[c].op # "everything"
  BY DEF MinInv
<1>5. ASSUME NEW c \in Cmds, SyncTid(c) PROVE MinInv'
  <2>1. recs' \subseteq recs /\ now' = now /\ tid' \in {tid, tid + 1}
    BY <1>5 DEF SyncTid
  <2>2. \A m \in meta' : m \in meta \/ (m.tid <= tid /\ m.ts = now)
    BY <1>2, <1>4, <1>5 DEF SyncTid
  <2>3. \A l \in links' : l \in links \/ (l.tid <= tid /\ l.ct = now)
    BY <1>2, <1>5 DEF SyncTid
  <2>4. \A d \in Cmds : cmd'[d].tid <= tid' /\ cmd'[d].op # "everything"
    BY <1>1, <1>2, <1>3, <1>4, <1>5 DEF SyncTid, At, CmdType
  <2>5. \A d \in Cmds : \A l \in cmd'[d].todo : l \in links \/ l \in cmd[d].todo
    BY <1>1, <1>3, <1>5 DEF SyncTid, At, CmdType
  <2>6. \A d \in Cmds : \A x \in cmd'[d].scan :
          \/ x \in cmd[d].scan \/ x \in meta
          \/ \E l \in links \cup cmd[d].todo : x.tid = l.tid /\ x.ts = l.ct
    BY <1>1, <1>3, <1>5 DEF SyncTid, At, CmdType
  <2>7. PruneMinKept'
    BY <1>1, <1>5 DEF SyncTid, PruneMinKept
  <2> QED BY <1>1, <2>1, <2>2, <2>3, <2>4, <2>5, <2>6, <2>7, MinFrame
<1>6. ASSUME NEW c \in Cmds, AddMeta(c) PROVE MinInv'
  <2>1. recs' \subseteq recs /\ now' = now /\ tid' \in {tid, tid + 1}
    BY <1>6 DEF AddMeta
  <2>2. \A m \in meta' : m \in meta \/ (m.tid <= tid /\ m.ts = now)
    BY <1>2, <1>4, <1>6 DEF AddMeta
  <2>3. \A l \in links' : l \in links \/ (l.tid <= tid /\ l.ct = now)
    BY <1>2, <1>6 DEF AddMeta
  <2>4. \A d \in Cmds : cmd'[d].tid <= tid' /\ cmd'[d].op # "everything"
    BY <1>1, <1>2, <1>3, <1>4, <1>6 DEF AddMeta, At, Goto, CmdType
  <2>5. \A d \in Cmds : \A l \in cmd'[d].todo : l \in links \/ l \in cmd[d].todo
    BY <1>1, <1>3, <1>6 DEF AddMeta, At, Goto, CmdType
  <2>6. \A d \in Cmds : \A x \in cmd'[d].scan :
          \/ x \in cmd[d].scan \/ x \in meta
          \/ \E l \in links \cup cmd[d].todo : x.tid = l.tid /\ x.ts = l.ct
    BY <1>1, <1>3, <1>6 DEF AddMeta, At, Goto, CmdType
  <2>7. PruneMinKept'
    BY <1>1, <1>6 DEF AddMeta, PruneMinKept
  <2> QED BY <1>1, <2>1, <2>2, <2>3, <2>4, <2>5, <2>6, <2>7, MinFrame
<1>7. ASSUME NEW c \in Cmds, RemoveLink(c) PROVE MinInv'
  <2>1. recs' \subseteq recs /\ now' = now /\ tid' \in {tid, tid + 1}
    BY <1>7 DEF RemoveLink
  <2>2. \A m \in meta' : m \in meta \/ (m.tid <= tid /\ m.ts = now)
    BY <1>2, <1>4, <1>7 DEF RemoveLink
  <2>3. \A l \in links' : l \in links \/ (l.tid <= tid /\ l.ct = now)
    BY <1>2, <1>7 DEF RemoveLink
  <2>4. \A d \in Cmds : cmd'[d].tid <= tid' /\ cmd'[d].op # "everything"
    BY <1>1, <1>2, <1>3, <1>4, <1>7 DEF RemoveLink, At, Goto, CmdType
  <2>5. \A d \in Cmds : \A l \in cmd'[d].todo : l \in links \/ l \in cmd[d].todo
    BY <1>1, <1>3, <1>7 DEF RemoveLink, At, Goto, CmdType
  <2>6. \A d \in Cmds : \A x \in cmd'[d].scan :
          \/ x \in cmd[d].scan \/ x \in meta
          \/ \E l \in links \cup cmd[d].todo : x.tid = l.tid /\ x.ts = l.ct
    BY <1>1, <1>3, <1>7 DEF RemoveLink, At, Goto, CmdType
  <2>7. PruneMinKept'
    BY <1>1, <1>7 DEF RemoveLink, PruneMinKept
  <2> QED BY <1>1, <2>1, <2>2, <2>3, <2>4, <2>5, <2>6, <2>7, MinFrame
<1>8. ASSUME NEW c \in Cmds, Symlink(c) PROVE MinInv'
  <2>1. recs' \subseteq recs /\ now' = now /\ tid' \in {tid, tid + 1}
    BY <1>8 DEF Symlink
  <2>2. \A m \in meta' : m \in meta \/ (m.tid <= tid /\ m.ts = now)
    BY <1>2, <1>4, <1>8 DEF Symlink
  <2>3. \A l \in links' : l \in links \/ (l.tid <= tid /\ l.ct = now)
    BY <1>2, <1>8, SMT, Z3, Zenon DEF Symlink
  <2>4. \A d \in Cmds : cmd'[d].tid <= tid' /\ cmd'[d].op # "everything"
    BY <1>1, <1>2, <1>3, <1>4, <1>8 DEF Symlink, At, Exit, CmdType
  <2>5. \A d \in Cmds : \A l \in cmd'[d].todo : l \in links \/ l \in cmd[d].todo
    BY <1>1, <1>3, <1>8 DEF Symlink, At, Exit, CmdType
  <2>6. \A d \in Cmds : \A x \in cmd'[d].scan :
          \/ x \in cmd[d].scan \/ x \in meta
          \/ \E l \in links \cup cmd[d].todo : x.tid = l.tid /\ x.ts = l.ct
    BY <1>1, <1>3, <1>8 DEF Symlink, At, Exit, CmdType
  <2>7. PruneMinKept'
    BY <1>1, <1>8 DEF Symlink, PruneMinKept
  <2> QED BY <1>1, <2>1, <2>2, <2>3, <2>4, <2>5, <2>6, <2>7, MinFrame
<1>9. ASSUME NEW c \in Cmds, DelMeta(c) PROVE MinInv'
  <2>1. recs' \subseteq recs /\ now' = now /\ tid' \in {tid, tid + 1}
    BY <1>9 DEF DelMeta
  <2>2. \A m \in meta' : m \in meta \/ (m.tid <= tid /\ m.ts = now)
    BY <1>2, <1>4, <1>9 DEF DelMeta
  <2>3. \A l \in links' : l \in links \/ (l.tid <= tid /\ l.ct = now)
    BY <1>2, <1>9 DEF DelMeta
  <2>4. \A d \in Cmds : cmd'[d].tid <= tid' /\ cmd'[d].op # "everything"
    BY <1>1, <1>2, <1>3, <1>4, <1>9 DEF DelMeta, At, Goto, Exit, CmdType
  <2>5. \A d \in Cmds : \A l \in cmd'[d].todo : l \in links \/ l \in cmd[d].todo
    BY <1>1, <1>3, <1>9 DEF DelMeta, At, Goto, Exit, CmdType
  <2>6. \A d \in Cmds : \A x \in cmd'[d].scan :
          \/ x \in cmd[d].scan \/ x \in meta
          \/ \E l \in links \cup cmd[d].todo : x.tid = l.tid /\ x.ts = l.ct
    BY <1>1, <1>3, <1>9 DEF DelMeta, At, Goto, Exit, CmdType
  <2>7. PruneMinKept'
    BY <1>1, <1>9 DEF DelMeta, PruneMinKept
  <2> QED BY <1>1, <2>1, <2>2, <2>3, <2>4, <2>5, <2>6, <2>7, MinFrame
<1>10. ASSUME NEW c \in Cmds, Unlink(c) PROVE MinInv'
  <2>1. recs' \subseteq recs /\ now' = now /\ tid' \in {tid, tid + 1}
    BY <1>10 DEF Unlink
  <2>2. \A m \in meta' : m \in meta \/ (m.tid <= tid /\ m.ts = now)
    BY <1>2, <1>4, <1>10 DEF Unlink
  <2>3. \A l \in links' : l \in links \/ (l.tid <= tid /\ l.ct = now)
    BY <1>2, <1>10 DEF Unlink
  <2>4. \A d \in Cmds : cmd'[d].tid <= tid' /\ cmd'[d].op # "everything"
    BY <1>1, <1>2, <1>3, <1>4, <1>10 DEF Unlink, At, Exit, CmdType
  <2>5. \A d \in Cmds : \A l \in cmd'[d].todo : l \in links \/ l \in cmd[d].todo
    BY <1>1, <1>3, <1>10 DEF Unlink, At, Exit, CmdType
  <2>6. \A d \in Cmds : \A x \in cmd'[d].scan :
          \/ x \in cmd[d].scan \/ x \in meta
          \/ \E l \in links \cup cmd[d].todo : x.tid = l.tid /\ x.ts = l.ct
    BY <1>1, <1>3, <1>10 DEF Unlink, At, Exit, CmdType
  <2>7. PruneMinKept'
    BY <1>1, <1>10 DEF Unlink, PruneMinKept
  <2> QED BY <1>1, <2>1, <2>2, <2>3, <2>4, <2>5, <2>6, <2>7, MinFrame
<1>11. ASSUME NEW c \in Cmds, OpenDir(c) PROVE MinInv'
  <2>1. recs' \subseteq recs /\ now' = now /\ tid' \in {tid, tid + 1}
    BY <1>11 DEF OpenDir
  <2>2. \A m \in meta' : m \in meta \/ (m.tid <= tid /\ m.ts = now)
    BY <1>2, <1>4, <1>11 DEF OpenDir
  <2>3. \A l \in links' : l \in links \/ (l.tid <= tid /\ l.ct = now)
    BY <1>2, <1>11 DEF OpenDir
  <2>4. \A d \in Cmds : cmd'[d].tid <= tid' /\ cmd'[d].op # "everything"
    BY <1>1, <1>2, <1>3, <1>4, <1>11 DEF OpenDir, At, CmdType
  <2>5. \A d \in Cmds : \A l \in cmd'[d].todo : l \in links \/ l \in cmd[d].todo
    BY <1>1, <1>3, <1>11 DEF OpenDir, At, CmdType
  <2>6. \A d \in Cmds : \A x \in cmd'[d].scan :
          \/ x \in cmd[d].scan \/ x \in meta
          \/ \E l \in links \cup cmd[d].todo : x.tid = l.tid /\ x.ts = l.ct
    BY <1>1, <1>3, <1>11 DEF OpenDir, At, CmdType
  <2>7. PruneMinKept'
    BY <1>1, <1>11 DEF OpenDir, PruneMinKept
  <2> QED BY <1>1, <2>1, <2>2, <2>3, <2>4, <2>5, <2>6, <2>7, MinFrame
<1>12. ASSUME NEW c \in Cmds, ScanDir(c) PROVE MinInv'
  <2>1. recs' \subseteq recs /\ now' = now /\ tid' \in {tid, tid + 1}
    BY <1>12 DEF ScanDir
  <2>2. \A m \in meta' : m \in meta \/ (m.tid <= tid /\ m.ts = now)
    BY <1>2, <1>4, <1>12 DEF ScanDir
  <2>3. \A l \in links' : l \in links \/ (l.tid <= tid /\ l.ct = now)
    BY <1>2, <1>12 DEF ScanDir
  <2>4. \A d \in Cmds : cmd'[d].tid <= tid' /\ cmd'[d].op # "everything"
    BY <1>1, <1>2, <1>3, <1>4, <1>12 DEF ScanDir, At, CmdType
  <2>5. \A d \in Cmds : \A l \in cmd'[d].todo : l \in links \/ l \in cmd[d].todo
    BY <1>1, <1>3, <1>12 DEF ScanDir, At, CmdType
  <2>6. \A d \in Cmds : \A x \in cmd'[d].scan :
          \/ x \in cmd[d].scan \/ x \in meta
          \/ \E l \in links \cup cmd[d].todo : x.tid = l.tid /\ x.ts = l.ct
    BY <1>1, <1>3, <1>12 DEF ScanDir, At, CmdType, FromLinks
  <2>7. PruneMinKept'
    BY <1>1, <1>12 DEF ScanDir, PruneMinKept
  <2> QED BY <1>1, <2>1, <2>2, <2>3, <2>4, <2>5, <2>6, <2>7, MinFrame
<1>13. ASSUME NEW c \in Cmds, ScanMeta(c) PROVE MinInv'
  <2>1. recs' \subseteq recs /\ now' = now /\ tid' \in {tid, tid + 1}
    BY <1>13 DEF ScanMeta
  <2>2. \A m \in meta' : m \in meta \/ (m.tid <= tid /\ m.ts = now)
    BY <1>2, <1>4, <1>13 DEF ScanMeta
  <2>3. \A l \in links' : l \in links \/ (l.tid <= tid /\ l.ct = now)
    BY <1>2, <1>13 DEF ScanMeta
  <2>4. \A d \in Cmds : cmd'[d].tid <= tid' /\ cmd'[d].op # "everything"
    BY <1>1, <1>2, <1>3, <1>4, <1>13 DEF ScanMeta, Goto, CmdType
  <2>5. \A d \in Cmds : \A l \in cmd'[d].todo : l \in links \/ l \in cmd[d].todo
    BY <1>1, <1>3, <1>13 DEF ScanMeta, Goto, CmdType
  <2>6. \A d \in Cmds : \A x \in cmd'[d].scan :
          \/ x \in cmd[d].scan \/ x \in meta
          \/ \E l \in links \cup cmd[d].todo : x.tid = l.tid /\ x.ts = l.ct
    BY <1>1, <1>3, <1>13 DEF ScanMeta, Goto, CmdType
  <2>7. PruneMinKept'
    BY <1>1, <1>13 DEF ScanMeta, PruneMinKept
  <2> QED BY <1>1, <2>1, <2>2, <2>3, <2>4, <2>5, <2>6, <2>7, MinFrame
<1>14. ASSUME NEW c \in Cmds, Prune(c) PROVE MinInv'
  <2>1. recs' \subseteq recs /\ now' = now /\ tid' \in {tid, tid + 1}
    BY <1>14, Zenon DEF Prune
  <2>2. \A m \in meta' : m \in meta \/ (m.tid <= tid /\ m.ts = now)
    BY <1>2, <1>4, <1>14, Zenon DEF Prune
  <2>3. \A l \in links' : l \in links \/ (l.tid <= tid /\ l.ct = now)
    BY <1>2, <1>14, Zenon DEF Prune
  <2>4. \A d \in Cmds : cmd'[d].tid <= tid' /\ cmd'[d].op # "everything"
    <3>1. cmd' = [cmd EXCEPT ![c] = Idle] /\ UNCHANGED tid
      BY <1>14, Zenon DEF Prune, Exit
    <3>2. ASSUME NEW d \in Cmds PROVE cmd'[d] = Idle \/ cmd'[d] = cmd[d]
      BY <1>1, <3>1
    <3>3. Idle.tid = 0 /\ Idle.op = "none"
      BY DEF Idle
    <3>4. 0 <= tid
      BY <1>2
    <3> QED BY <1>2, <1>4, <3>1, <3>2, <3>3, <3>4
  <2>5. \A d \in Cmds : \A l \in cmd'[d].todo : l \in links \/ l \in cmd[d].todo
    BY <1>1, <1>3, <1>14 DEF Prune, Exit, CmdType
  <2>6. \A d \in Cmds : \A x \in cmd'[d].scan :
          \/ x \in cmd[d].scan \/ x \in meta
          \/ \E l \in links \cup cmd[d].todo : x.tid = l.tid /\ x.ts = l.ct
    BY <1>1, <1>3, <1>14 DEF Prune, Exit, CmdType
  <2>7. PruneMinKept'
    BY <1>14, PruneKeepsMin
  <2> QED BY <1>1, <2>1, <2>2, <2>3, <2>4, <2>5, <2>6, <2>7, MinFrame
<1>15. ASSUME NEW c \in Cmds, Die(c) PROVE MinInv'
  <2>1. recs' \subseteq recs /\ now' = now /\ tid' \in {tid, tid + 1}
    BY <1>15 DEF Die
  <2>2. \A m \in meta' : m \in meta \/ (m.tid <= tid /\ m.ts = now)
    BY <1>2, <1>4, <1>15 DEF Die
  <2>3. \A l \in links' : l \in links \/ (l.tid <= tid /\ l.ct = now)
    BY <1>2, <1>15 DEF Die
  <2>4. \A d \in Cmds : cmd'[d].tid <= tid' /\ cmd'[d].op # "everything"
    BY <1>1, <1>2, <1>3, <1>4, <1>15 DEF Die, Exit, CmdType
  <2>5. \A d \in Cmds : \A l \in cmd'[d].todo : l \in links \/ l \in cmd[d].todo
    BY <1>1, <1>3, <1>15 DEF Die, Exit, CmdType
  <2>6. \A d \in Cmds : \A x \in cmd'[d].scan :
          \/ x \in cmd[d].scan \/ x \in meta
          \/ \E l \in links \cup cmd[d].todo : x.tid = l.tid /\ x.ts = l.ct
    BY <1>1, <1>3, <1>15, Zenon DEF Die, Exit, CmdType
  <2>7. PruneMinKept'
    BY <1>1, <1>15 DEF Die, PruneMinKept
  <2> QED BY <1>1, <2>1, <2>2, <2>3, <2>4, <2>5, <2>6, <2>7, MinFrame
<1>16. ASSUME NEW c \in Cmds, NEW op \in Ops, Begin(c, op) PROVE MinInv'
  <2>1. PICK l \in IF op = "snaprm" THEN links ELSE {[name |-> 0, tid |-> 0]} :
          cmd' = [cmd EXCEPT ![c] = [Idle EXCEPT !.op = op, !.pc = FirstPc(op),
                                                 !.name = l.name, !.tid = l.tid]]
    BY <1>16, Zenon DEF Begin
  <2>2. UNCHANGED <<now, tid, recs, gone, links, meta>>
    BY <1>16 DEF Begin
  <2>3. l.tid <= tid
    BY <1>2, <2>1 DEF MinInv, Fit
  <2>4. /\ cmd'[c].tid = l.tid /\ cmd'[c].op = op /\ cmd'[c].todo = {} /\ cmd'[c].scan = {}
        /\ \A d \in Cmds : d # c => cmd'[d] = cmd[d]
    BY <1>1, <2>1 DEF Idle
  <2>5. \A d \in Cmds : cmd'[d].tid <= tid' /\ cmd'[d].op # "everything"
    BY <1>2, <1>4, <2>2, <2>3, <2>4, Zenon
  <2>6. PruneMinKept'
    BY <1>1, <2>2 DEF PruneMinKept
  <2> QED BY <1>1, <2>2, <2>4, <2>5, <2>6, MinFrame, Zenon
<1>17. CASE Tick
  <2>1. UNCHANGED <<tid, recs, gone, links, meta, cmd>> /\ now' = now + 1
    BY <1>17 DEF Tick
  <2>2. \A v \in recs : v.died \in Nat /\ v.died <= now
    BY <1>1, TidsAreNat, Zenon DEF MinInv
  <2>3. now' # 0 /\ \A v \in recs' : v.died <= now' /\ v.del <= tid'
    <3>1. now \in Nat
      BY <1>1, TidsAreNat
    <3>2. now' # 0
      BY <2>1, <3>1
    <3>3. ASSUME NEW v \in recs PROVE v.died <= now + 1 /\ v.del <= tid
      <4>1. v.died <= now + 1
        BY <2>2, <3>1, StaysBelow, Zenon
      <4>2. v.del <= tid
        BY <1>1, Zenon DEF MinInv
      <4> QED BY <4>1, <4>2, Zenon
    <3> QED BY <2>1, <3>2, <3>3
  <2>4. \A t, s : Fit(t, s) <=> Fit(t, s)'
    BY <2>1 DEF Fit, Covers
  <2> QED BY <1>1, <2>1, <2>3, <2>4, Zenon DEF MinInv, PruneMinKept
<1>18. CASE Write
  <2>1. UNCHANGED <<now, gone, links, meta, cmd>> /\ tid' = tid + 1
    BY <1>18, Zenon DEF Write
  <2>2. \A v \in recs : /\ v \in [cre : Nat, del : Nat, died : Nat]
                        /\ v.died <= now /\ v.del <= tid
    BY <1>1, TidsAreNat DEF MinInv
  <2>3. ASSUME NEW w \in recs' PROVE w.died <= now' /\ w.del <= tid'
    <3>1. CASE w = [cre |-> tid + 1, del |-> 0, died |-> 0]
      BY <1>2, <2>1, <3>1, SMT, Z3, Zenon
    <3>2. ASSUME NEW v \in recs,
                 w = IF v.del = 0 THEN [v EXCEPT !.del = tid + 1, !.died = now] ELSE v
          PROVE  w.died <= now' /\ w.del <= tid'
      BY <1>2, <2>1, <2>2, <3>2
    <3> QED BY <1>18, <3>1, <3>2, Zenon DEF Write
  <2>4. \A t, s \in Nat : Fit(t, s) => Fit(t, s)'
    BY <1>18, FitWrite
  <2>5. Tids \subseteq Nat /\ Times \subseteq Nat /\ 0..PfsTid \subseteq Nat
    BY NatRanges, Zenon
  <2>6. \A m \in meta : Fit(m.ts, m.tid)'
    <3>1. \A m \in meta : m.ts \in Nat /\ m.tid \in Nat /\ Fit(m.ts, m.tid)
      BY <1>1, <2>5, Zenon DEF MinInv, TypeOK
    <3> QED BY <2>4, <3>1
  <2>7. \A l \in links : Fit(l.ct, l.tid)'
    <3>1. \A l \in links : l.ct \in Nat /\ l.tid \in Nat /\ Fit(l.ct, l.tid)
      BY <1>1, <2>5, Zenon DEF MinInv, TypeOK, Links
    <3> QED BY <2>4, <3>1
  <2>8. \A c \in Cmds : \A l \in cmd[c].todo : Fit(l.ct, l.tid)'
    <3>1. \A c \in Cmds : cmd[c].todo \subseteq Links
      BY <1>1 DEF CmdType
    <3>2. \A c \in Cmds : \A l \in cmd[c].todo :
            l.ct \in Nat /\ l.tid \in Nat /\ Fit(l.ct, l.tid)
      BY <2>5, <3>1, Zenon DEF MinInv, Links
    <3> QED BY <2>4, <3>2
  <2>9. \A c \in Cmds : \A x \in cmd[c].scan : Fit(x.ts, x.tid)'
    <3>1. \A c \in Cmds : \A x \in cmd[c].scan :
            x.ts \in Nat /\ x.tid \in Nat /\ Fit(x.ts, x.tid)
      BY <1>1, TidsAreNat DEF MinInv
    <3> QED BY <2>4, <3>1
  <2>10. \A c \in Cmds : cmd'[c].tid <= tid' /\ cmd'[c].op # "everything"
    BY <1>2, <1>4, <2>1
  <2>11. PruneMinKept'
    BY <1>1, <2>1 DEF PruneMinKept
  <2> QED BY <1>1, <2>1, <2>3, <2>6, <2>7, <2>8, <2>9, <2>10, <2>11, Zenon DEF MinInv
<1>19. CASE UNCHANGED vars
  BY <1>1, <1>19, Zenon DEF vars, MinInv, Fit, Covers, PruneMinKept
<1> QED BY <1>5, <1>6, <1>7, <1>8, <1>9, <1>10, <1>11, <1>12, <1>13, <1>14, <1>15, <1>16,
      <1>17, <1>18, <1>19 DEF Next, Step, Work

\* Nothing is superseded, recorded or pruned at the start.
LEMMA MinInitial == ASSUME Init PROVE MinInv
<1>1. TypeOK
  BY InitType
<1>2. \A c \in Cmds : /\ cmd[c].op = "none" /\ cmd[c].tid = 0
                       /\ cmd[c].todo = {} /\ cmd[c].scan = {}
  BY DEF Init, Idle
<1>3. links = {} /\ meta = {} /\ gone = {} /\ now = 1 /\ tid = 1
  BY DEF Init
<1>4. \A v \in recs : v.died = 0 /\ v.del = 0
  BY DEF Init
<1>5. \A v \in recs : v.died <= now /\ v.del <= tid
  BY <1>3, <1>4
<1>6. now # 0 /\ \A c \in Cmds : cmd[c].tid <= tid /\ cmd[c].op # "everything"
  BY <1>2, <1>3
<1>7. PruneMinKept
  BY <1>3 DEF PruneMinKept
<1> QED BY <1>1, <1>2, <1>3, <1>5, <1>6, <1>7 DEF MinInv

\* History is saved for at least prune_min: no prune takes a version that was
\* superseded less than prune_min ago, whatever commands run at the same time.
THEOREM PruneMinGuarantee ==
    ASSUME ~PfsLink, "everything" \notin Ops
    PROVE  Spec => []PruneMinKept
<1>1. MinInv /\ [Next]_vars => MinInv'
  BY MinStep
<1>2. MinInv => PruneMinKept
  BY DEF MinInv
<1> QED BY MinInitial, <1>1, <1>2, PTL DEF Spec

\* The inductive invariants of hammer snapshot, snaprm and prune hold together:
\* what a prune has seen, what it may take, and when.
THEOREM PruneInvariant ==
    ASSUME Managed
    PROVE  Spec => []PruneIInv
<1>1. Init => SnapInv /\ MinInv /\ FreshInv
  BY SnapInitial, MinInitial, FreshInitial
<1>2. SnapInv /\ MinInv /\ FreshInv /\ [Next]_vars => SnapInv' /\ MinInv' /\ FreshInv'
  BY SnapStep, MinStep, FreshStep DEF Managed, Plain
<1>3. SnapInv /\ MinInv /\ FreshInv => PruneIInv
  BY DEF PruneIInv
<1> QED BY <1>1, <1>2, <1>3, PTL DEF Spec
=============================================================================
