--------------------------- MODULE Hammer2Volumes ---------------------------
(***************************************************************************)
(* The volumes of a HAMMER2 filesystem: newfs_hammer2 lays a filesystem    *)
(* out over a list of devices and writes a volume header in the first      *)
(* block of every zone (mkfs_hammer2.c), the other tools choose a header   *)
(* of each device, check the set and map offsets to volumes (ondisk.c),    *)
(* and fstyp recognises the devices by their headers (fstyp/hammer2.c).    *)
(*                                                                         *)
(* Sizes are counted in segments of HAMMER2_ZONE_SEG (4MB).  The data is   *)
(* reduced to the fields of the headers that are compared; a header is     *)
(* one block and is written at once.  newfs_hammer2 may be interrupted     *)
(* between two writes, the mounted filesystem (outside this repository)    *)
(* writes newer headers, and the media may lose one.                       *)
(***************************************************************************)
EXTENDS Integers, Sequences, FiniteSets

CONSTANTS Devs,          \* devices
          Level1,        \* HAMMER2_FREEMAP_LEVEL1_SIZE in segments
          NumVolhdrs,    \* HAMMER2_NUM_VOLHDRS
          MaxVolumes,    \* HAMMER2_MAX_VOLUMES
          BootNom,       \* HAMMER2_BOOT_NOM_BYTES
          AuxNom,        \* HAMMER2_AUX_NOM_BYTES
          MaxRuns,       \* bound: runs of newfs_hammer2
          MaxFlushes,    \* bound: headers written by the mounted filesystem
          MaxFaults      \* bound: headers lost by the media

ASSUME VolumesAssumption ==
  /\ Level1 \in Nat \ {0} /\ Level1 % 2 = 0
  /\ {NumVolhdrs, MaxVolumes} \subseteq Nat \ {0}
  /\ {BootNom, AuxNom, MaxRuns, MaxFlushes, MaxFaults} \subseteq Nat

ZoneBytes == 2 * Level1
VolumeAlign == 2
MinArea == 2             \* HAMMER2_BOOT_MIN_BYTES, HAMMER2_AUX_MIN_BYTES
MultiVolumes == 2        \* HAMMER2_VOL_VERSION_MULTI_VOLUMES
NoOffset == -1
NoHdr == [magic |-> FALSE]

VARIABLES devSize,   \* size of each device
          hdr,       \* per device and zone, the header found there
          sroot,     \* per device, [at, fsid] of the super-root block last
                     \* written by newfs_hammer2
          mkfs,      \* the newfs_hammer2 run in progress, or how it ended
          runs, flushes, faults

volVars == <<devSize, hdr, sroot, mkfs, runs, flushes, faults>>

Zones == 0 .. NumVolhdrs - 1

VolumesInit(sizes) ==
  /\ devSize = sizes
  /\ hdr = [d \in Devs |-> [z \in Zones |-> NoHdr]]
  /\ sroot = [d \in Devs |-> [at |-> 0, fsid |-> 0]]
  /\ mkfs = [pc |-> "none"]
  /\ runs = 0 /\ flushes = 0 /\ faults = 0

-----------------------------------------------------------------------------
(* Reading the headers of a device (hammer2_read_volume_header).           *)

GoodZones(d) == {z \in Zones : z * ZoneBytes < devSize[d] /\ hdr[d][z].magic}

\* Mutant: the first good header is taken, not the newest.
BestZoneFirst(d) ==
  CHOOSE z \in GoodZones(d) : \A y \in GoodZones(d) : z <= y

BestZone(d) ==
  CHOOSE z \in GoodZones(d) :
    \A y \in GoodZones(d) : \/ hdr[d][z].tid > hdr[d][y].tid
                            \/ hdr[d][z].tid = hdr[d][y].tid /\ z <= y

BestHdr(d) == hdr[d][BestZone(d)]

Refused == [ok |-> FALSE]

NoVolumes == [ok |-> TRUE, version |-> -1, nvolumes |-> 0, fsid |-> 0,
              total |-> 0, volumes |-> <<>>]

\* volumes maps the ids that are set to [dev, off, size].
AddVolume(fso, d) ==
  IF ~fso.ok \/ GoodZones(d) = {} THEN Refused ELSE
  LET h == BestHdr(d) IN
  IF \/ h.id \notin 0 .. MaxVolumes - 1
     \/ h.id \in DOMAIN fso.volumes
     \/ fso.nvolumes # 0 /\ \/ fso.version # h.version
                            \/ fso.nvolumes # h.nvolumes
                            \/ fso.fsid # h.fsid
  THEN Refused
  ELSE LET first == fso.nvolumes = 0 IN
       [ok       |-> TRUE,
        version  |-> IF first THEN h.version ELSE fso.version,
        nvolumes |-> IF first THEN h.nvolumes ELSE fso.nvolumes,
        fsid     |-> IF first THEN h.fsid ELSE fso.fsid,
        total    |-> fso.total + h.size,
        volumes  |-> [i \in DOMAIN fso.volumes \cup {h.id} |->
                        IF i = h.id
                        THEN [dev |-> d, off |-> h.loff[h.id], size |-> h.size]
                        ELSE fso.volumes[i]]]

RECURSIVE AddVolumes(_, _)
AddVolumes(fso, devs) ==
  IF devs = <<>> THEN fso
  ELSE AddVolumes(AddVolume(fso, Head(devs)), Tail(devs))

-----------------------------------------------------------------------------
(* Offsets and volumes (hammer2_get_volume_attr and its callers).  Only    *)
(* the first nvolumes entries are searched; an entry that is not set has   *)
(* offset and size -1, whose sum wraps below the offset.                   *)

VolumeOf(fso, off) ==
  {i \in 0 .. fso.nvolumes - 1 :
     /\ i \in DOMAIN fso.volumes
     /\ off >= fso.volumes[i].off
     /\ off < fso.volumes[i].off + fso.volumes[i].size}

RootVolume(fso) == VolumeOf(fso, 0)

\* hammer2_read_root_volume_header: nothing before nvolumes is known.
RootHdr(fso) ==
  IF RootVolume(fso) = {} THEN {}
  ELSE LET i == CHOOSE v \in RootVolume(fso) : \A w \in RootVolume(fso) : v <= w
       IN {BestHdr(fso.volumes[i].dev)}

VerifyCommon(fso) ==
  /\ fso.version # -1
  /\ \A i, j \in DOMAIN fso.volumes :
       fso.volumes[i].dev = fso.volumes[j].dev => i = j
  /\ \A i \in DOMAIN fso.volumes :
       fso.volumes[i].size <= devSize[fso.volumes[i].dev]

Verify1(fso, root) ==
  /\ Cardinality(DOMAIN fso.volumes) = 1
  /\ \A h \in root : /\ h.id = 0 /\ h.nvolumes = 0 /\ h.total = 0
                     /\ \A i \in DOMAIN h.loff : h.loff[i] = 0
  /\ DOMAIN fso.volumes = {0}
  /\ fso.volumes[0].off = 0
  /\ fso.volumes[0].size % VolumeAlign = 0

\* Mutant: volumes may be missing at the end of the list.
Verify2Partial(fso, root) ==
  \A i \in DOMAIN fso.volumes :
    IF i = 0 THEN fso.volumes[i].off = 0
    ELSE /\ (i - 1) \in DOMAIN fso.volumes
         /\ fso.volumes[i].off = fso.volumes[i-1].off + fso.volumes[i-1].size

Verify2(fso, root) ==
  /\ fso.nvolumes = Cardinality(DOMAIN fso.volumes)
  /\ \A h \in root :
       /\ h.id = 0 /\ h.nvolumes = fso.nvolumes /\ h.total = fso.total
       /\ \A i \in 0 .. MaxVolumes - 1 :
            (h.loff[i] = NoOffset) <=> (i >= fso.nvolumes)
  /\ \A i \in DOMAIN fso.volumes :
       LET v == fso.volumes[i] IN
       /\ v.off % Level1 = 0
       /\ IF i = 0 THEN v.off = 0
          ELSE /\ (i - 1) \in DOMAIN fso.volumes
               /\ v.off = fso.volumes[i-1].off + fso.volumes[i-1].size
       /\ IF i # fso.nvolumes - 1
          THEN v.size >= Level1 /\ v.size % Level1 = 0
          ELSE v.size % VolumeAlign = 0

VerifyVolumes(fso, root) ==
  /\ fso.ok
  /\ VerifyCommon(fso)
  /\ IF fso.version >= MultiVolumes THEN Verify2(fso, root)
                                    ELSE Verify1(fso, root)

\* hammer2_init_volumes: version 1 counts no volumes in its header; the
\* check adjusts the count to the one volume there is.
OpenVolumes(devs) ==
  LET fso == AddVolumes(NoVolumes, devs) IN
  IF ~fso.ok \/ ~VerifyVolumes(fso, RootHdr(fso)) THEN Refused
  ELSE [fso EXCEPT !.nvolumes = Cardinality(DOMAIN fso.volumes)]

-----------------------------------------------------------------------------
(* newfs_hammer2.                                                          *)

RoundDown(n, a) == (n \div a) * a
RoundUp(n, a) == RoundDown(n + a - 1, a)

\* adjust_options: by default the nominal size, halved while it is more than
\* a twentieth of the total.
RECURSIVE Halved(_, _)
Halved(size, total) ==
  IF size > total \div 20 THEN Halved(size \div 2, total) ELSE size

AreaSize(opt, nom, total) ==
  LET size == IF opt = 0 THEN Halved(nom, total) ELSE opt
  IN RoundUp(IF size < MinArea THEN MinArea ELSE size, VolumeAlign)

RECURSIVE Layout(_, _, _)
Layout(devs, i, total) ==
  IF i > Len(devs) THEN <<>>
  ELSE LET size == RoundDown(devSize[devs[i]],
                             IF i = Len(devs) THEN VolumeAlign ELSE Level1)
       IN <<[dev |-> devs[i], off |-> total, size |-> size]>>
            \o Layout(devs, i + 1, total + size)

SumSizes(vols) == IF vols = <<>> THEN 0
                  ELSE vols[Len(vols)].off + vols[Len(vols)].size

\* The checks before anything is written; hammer2_verify_volumes gets no
\* root header.
CanFormat(m) ==
  /\ LET fso == [ok |-> TRUE, version |-> m.version, fsid |-> m.fsid,
                 nvolumes |-> Len(m.vols), total |-> m.total,
                 volumes |-> [i \in 0 .. Len(m.vols) - 1 |-> m.vols[i+1]]]
     IN VerifyVolumes(fso, {})
  /\ m.free >= 0

\* reserved_size: a segment for every Level1 bytes, rounded up.
Reserved(total) == (total + Level1 - 1) \div Level1

FreeSize(total, boot, aux) == total - Reserved(total) - boot - aux

Newfs(devs, version, bootOpt, auxOpt) ==
  /\ mkfs.pc \in {"none", "done", "exit", "assert", "interrupted"} /\ runs < MaxRuns
  /\ LET vols  == Layout(devs, 1, 0)
         total == SumSizes(vols)
         boot  == AreaSize(bootOpt, BootNom, total)
         aux   == AreaSize(auxOpt, AuxNom, total)
         m == [pc |-> "misc", devs |-> devs, version |-> version,
               vols |-> vols, total |-> total, boot |-> boot, aux |-> aux,
               free |-> FreeSize(total, boot, aux), fsid |-> runs + 1, tid |-> 16,
               vol |-> 1, zone |-> 0]
     IN mkfs' = IF CanFormat(m) THEN m ELSE [pc |-> "exit"]
  /\ runs' = runs + 1
  /\ UNCHANGED <<devSize, hdr, sroot, flushes, faults>>

\* format_hammer2 up to the header: the last block is written, which fails
\* on a volume of size 0; on the root volume the first segment is cleared,
\* the header of zone 0 included, and the areas; an assertion keeps the
\* super-root within the first Level1 bytes.
AllocBase(m) == 1 + m.boot + m.aux

FormatMisc ==
  /\ mkfs.pc = "misc"
  /\ LET v == mkfs.vols[mkfs.vol] IN
     CASE v.size = 0 -> /\ mkfs' = [pc |-> "exit"] /\ UNCHANGED <<hdr, sroot>>
       [] v.size > 0 /\ mkfs.vol > 1 ->
            /\ mkfs' = [mkfs EXCEPT !.pc = "header"] /\ UNCHANGED <<hdr, sroot>>
       [] v.size > 0 /\ mkfs.vol = 1 ->
            /\ hdr' = [hdr EXCEPT ![v.dev][0] = NoHdr]
            /\ mkfs' = [mkfs EXCEPT !.pc = IF AllocBase(mkfs) < Level1
                                           THEN "inode" ELSE "assert"]
            /\ UNCHANGED sroot
  /\ UNCHANGED <<devSize, runs, flushes, faults>>

\* format_hammer2_inode: super-root and PFS roots, in one block.
FormatInode ==
  /\ mkfs.pc = "inode"
  /\ sroot' = [sroot EXCEPT ![mkfs.vols[1].dev] =
                 [at |-> AllocBase(mkfs), fsid |-> mkfs.fsid]]
  /\ mkfs' = [mkfs EXCEPT !.pc = "header"]
  /\ UNCHANGED <<devSize, hdr, runs, flushes, faults>>

Voldata(m) ==
  LET multi == m.version >= MultiVolumes IN
  [magic |-> TRUE, fsid |-> m.fsid, version |-> m.version, tid |-> 16,
   size |-> m.vols[m.vol].size, beg |-> IF m.vol = 1 THEN AllocBase(m) ELSE 0,
   id |-> IF multi THEN m.vol - 1 ELSE 0,
   nvolumes |-> IF multi THEN Len(m.vols) ELSE 0,
   total |-> IF multi THEN m.total ELSE 0,
   loff |-> [i \in 0 .. MaxVolumes - 1 |->
               IF ~multi THEN 0
               ELSE IF i < Len(m.vols) THEN m.vols[i+1].off ELSE NoOffset]]

\* The zones that get a header lie within the volume, not the device.
HeaderZones(m) == {z \in Zones : z * ZoneBytes < m.vols[m.vol].size}

FormatHeader ==
  /\ mkfs.pc = "header"
  /\ IF mkfs.zone \in HeaderZones(mkfs)
     THEN /\ hdr' = [hdr EXCEPT ![mkfs.vols[mkfs.vol].dev][mkfs.zone] =
                       Voldata(mkfs)]
          /\ mkfs' = [mkfs EXCEPT !.zone = @ + 1]
     ELSE /\ mkfs' = IF mkfs.vol < Len(mkfs.vols)
                     THEN [mkfs EXCEPT !.pc = "misc", !.vol = @ + 1, !.zone = 0]
                     ELSE [mkfs EXCEPT !.pc = "done"]
          /\ UNCHANGED hdr
  /\ UNCHANGED <<devSize, sroot, runs, flushes, faults>>

\* newfs_hammer2 is killed between two writes.
Interrupted ==
  /\ mkfs.pc \in {"misc", "inode", "header"}
  /\ mkfs' = [pc |-> "interrupted"]
  /\ UNCHANGED <<devSize, hdr, sroot, runs, flushes, faults>>

\* The mounted filesystem (external) writes a newer header to one of the
\* zones of its root volume; a defect of the media destroys one header.
Flush(z) ==
  /\ mkfs.pc = "done" /\ flushes < MaxFlushes
  /\ LET d == mkfs.vols[1].dev IN
     /\ z \in HeaderZones([mkfs EXCEPT !.vol = 1])
     /\ OpenVolumes(mkfs.devs).ok
     /\ hdr' = [hdr EXCEPT ![d][z] = [BestHdr(d) EXCEPT !.tid = @ + 1]]
  /\ mkfs' = [mkfs EXCEPT !.tid = @ + 1]
  /\ flushes' = flushes + 1
  /\ UNCHANGED <<devSize, sroot, runs, faults>>

LoseHdr(d, z) ==
  /\ faults < MaxFaults /\ hdr[d][z].magic
  /\ hdr' = [hdr EXCEPT ![d][z] = NoHdr]
  /\ faults' = faults + 1
  /\ UNCHANGED <<devSize, sroot, mkfs, runs, flushes>>

\* The default labels and areas; any list of one or two devices.
DevLists == {<<d>> : d \in Devs} \cup {<<d, e>> : d \in Devs, e \in Devs}

VolumesNext(areas) ==
  \/ \E devs \in DevLists, v \in 1 .. 2, b \in {0}, a \in areas : Newfs(devs, v, b, a)
  \/ FormatMisc \/ FormatInode \/ FormatHeader \/ Interrupted
  \/ \E z \in Zones : Flush(z)
  \/ \E d \in Devs, z \in Zones : LoseHdr(d, z)

-----------------------------------------------------------------------------
(* fstyp: every zone of a device must hold a header, and the headers of    *)
(* all devices must agree with the first one that counts its volumes.  The *)
(* checksums are not looked at.                                            *)

DevZones(d) == {z \in Zones : z * ZoneBytes < devSize[d]}

RECURSIVE TestZones(_, _, _)
TestZones(seen, d, z) ==
  IF z \notin DevZones(d) THEN seen
  ELSE LET h == hdr[d][z] IN
       IF \/ ~h.magic
          \/ h.id >= MaxVolumes \/ h.nvolumes > MaxVolumes
          \/ seen.count # 0 /\ (h.nvolumes # seen.count \/ h.fsid # seen.fsid)
       THEN [seen EXCEPT !.ok = FALSE]
       ELSE TestZones(IF seen.count = 0
                      THEN [ok |-> TRUE, count |-> h.nvolumes, fsid |-> h.fsid]
                      ELSE seen, d, z + 1)

TestVoldata(seen, d) == TestZones([seen EXCEPT !.ok = TRUE], d, 0)

Unseen == [ok |-> TRUE, count |-> 0, fsid |-> 0]

\* read_media, of the super-root's blockref.
SrootWithin(h, d) == h.beg # 0 /\ h.beg < devSize[d]

\* read_label: the newest header, whose super-root must be an inode within
\* the device.
ReadLabel(d) ==
  LET best == CHOOSE z \in DevZones(d) :
                \A y \in DevZones(d) : \/ hdr[d][z].tid > hdr[d][y].tid
                                       \/ hdr[d][z].tid = hdr[d][y].tid /\ z <= y
  IN /\ \A z \in DevZones(d) : hdr[d][z].magic
     /\ SrootWithin(hdr[d][best], d)

SingleVolume(d) == hdr[d][0].magic /\ hdr[d][0].id = 0 /\ hdr[d][0].nvolumes = 0

FstypHammer2(d) ==
  /\ SingleVolume(d)
  /\ TestVoldata(Unseen, d).ok
  /\ ReadLabel(d)

\* The loop of __fsvtyp_hammer2 stops at the first device that fails the
\* test; ids is the bag of volume ids seen before.
RECURSIVE FsvtypScan(_, _, _)
FsvtypScan(seen, devs, ids) ==
  IF devs = <<>> THEN ids
  ELSE LET t == TestVoldata(seen, Head(devs)) IN
       IF ~t.ok THEN ids
       ELSE FsvtypScan(t, Tail(devs), Append(ids, hdr[Head(devs)][0].id))

\* What the test of the first function leaves behind in its static variables.
SeenBefore(devs) ==
  IF Len(devs) = 1 /\ SingleVolume(devs[1]) THEN TestVoldata(Unseen, devs[1]) ELSE Unseen

FsvtypHammer2(devs) ==
  LET ids   == FsvtypScan(SeenBefore(devs), devs, <<>>)
      roots == {i \in DOMAIN ids : ids[i] = 0}
      root  == devs[CHOOSE i \in roots : \A j \in roots : i >= j]
  IN /\ roots # {}
     /\ \A i, j \in DOMAIN ids : ids[i] = ids[j] => i = j
     /\ {ids[i] : i \in DOMAIN ids} = 0 .. hdr[root][0].nvolumes - 1
     /\ ReadLabel(root)

Fstyp(devs) == (Len(devs) = 1 /\ FstypHammer2(devs[1])) \/ FsvtypHammer2(devs)

-----------------------------------------------------------------------------
(* Properties.                                                             *)

\* newfs_hammer2 gave every zone of its devices a header: rounding the sizes
\* down lost none.
AllZonesFormatted ==
  \A i \in DOMAIN mkfs.vols :
    \A z \in DevZones(mkfs.devs[i]) : z * ZoneBytes < mkfs.vols[i].size

NewestKept ==
  LET d == mkfs.devs[1] IN
  \E z \in DevZones(d) : hdr[d][z].magic /\ hdr[d][z].tid = mkfs.tid

\* What newfs_hammer2 has formatted, whatever was on the devices before and
\* also after the filesystem has written newer headers, opens as that
\* filesystem, with the layout newfs_hammer2 chose and the newest header,
\* as long as the media lose no header of another volume.
NewfsOpens ==
  mkfs.pc = "done" /\ AllZonesFormatted /\ NewestKept
    /\ (\A i \in DOMAIN mkfs.devs : GoodZones(mkfs.devs[i]) # {})
  => LET fso == OpenVolumes(mkfs.devs) IN
     /\ fso.ok /\ fso.fsid = mkfs.fsid /\ fso.total = mkfs.total
     /\ \A i \in DOMAIN fso.volumes : fso.volumes[i] = mkfs.vols[i+1]
     /\ BestHdr(mkfs.devs[1]).tid = mkfs.tid

\* Any list of devices that opens, also after an interrupted newfs_hammer2
\* or a list that mixes two filesystems, is the whole of one filesystem: one
\* volume holds each offset below the total of the root header, and lies
\* within its device.
OpenCovers ==
  \A devs \in DevLists :
    LET fso == OpenVolumes(devs) IN
    fso.ok =>
      /\ \A off \in 0 .. fso.total - 1 : Cardinality(VolumeOf(fso, off)) = 1
      /\ \A h \in RootHdr(fso) : h.total \in {0, fso.total}
      /\ \A i \in DOMAIN fso.volumes :
           /\ BestHdr(fso.volumes[i].dev).fsid = fso.fsid
           /\ fso.volumes[i].size <= devSize[fso.volumes[i].dev]

\* The super-root that newfs_hammer2 leaves behind lies behind the boot and
\* aux areas, in the first Level1 bytes and within the root volume; the
\* header points at it.
SrootInPlace ==
  mkfs.pc = "done" =>
    LET d == mkfs.devs[1] IN
    /\ sroot[d] = [at |-> AllocBase(mkfs), fsid |-> mkfs.fsid]
    /\ sroot[d].at < mkfs.vols[1].size /\ sroot[d].at < Level1

\* fstyp recognises what newfs_hammer2 has formatted, while no header is
\* lost and rounding the sizes down leaves no zone without a header.
NewfsRecognised ==
  mkfs.pc = "done" /\ faults = 0 /\ AllZonesFormatted => Fstyp(mkfs.devs)

\* fstyp recognises what newfs_hammer2 has formatted on devices of any size.
NewfsAlwaysRecognised == mkfs.pc = "done" /\ faults = 0 => Fstyp(mkfs.devs)

\* What newfs_hammer2 has formatted opens, on devices of any size and
\* whatever filesystem they held before.
NewfsAlwaysOpens ==
  mkfs.pc = "done" /\ faults = 0 => OpenVolumes(mkfs.devs).ok

\* What newfs_hammer2 has written is what the other tools read back: it opens
\* with its newest header, fstyp recognises it, and the super-root is where
\* the header says, behind the reserved areas.
NewfsReadBack == NewfsOpens /\ SrootInPlace /\ NewfsRecognised
=============================================================================
