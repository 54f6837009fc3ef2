--------------------------- MODULE HammerVolumes ---------------------------
(***************************************************************************)
(* The volumes of a HAMMER filesystem: newfs_hammer lays out and labels a  *)
(* list of devices, hammer strip erases them again, the tools that work on *)
(* -f blkdevs load a list (ondisk.c and hammer.c of hammer), and fstyp     *)
(* recognises it (fstyp/hammer.c).                                         *)
(*                                                                         *)
(* Sizes are counted in buffers of HAMMER_BUFSIZE.  A volume has a header, *)
(* written at once, and the meta-data of the filesystem that was last put  *)
(* on it.  The two programs that write may be killed, or give up, at any   *)
(* time; headers are only written by flush_all_volumes at their end.       *)
(***************************************************************************)
EXTENDS Integers, Sequences, FiniteSets, Functions

CONSTANTS Disks,                       \* devices and files
          DiskSize, RegFiles,          \* their sizes; those that are files
          HammerMaxVolumes,            \* HAMMER_MAX_VOLUMES
          JunkSize,                    \* HAMMER_{MIN,MAX}_VOL_JUNK, HAMMER_VOL_JUNK_SIZE
          BootArea, MemArea,           \* [min, nom, max] of the two areas
          MaxFs                        \* bound: runs of newfs_hammer

ASSUME HammerVolumesAssumption ==
    /\ DiskSize \in [Disks -> Nat] /\ RegFiles \subseteq Disks
    /\ {HammerMaxVolumes, JunkSize} \subseteq Nat \ {0} /\ MaxFs \in Nat
    /\ \A a \in {BootArea, MemArea} :
         /\ a \in [min : Nat, nom : Nat, max : Nat]
         /\ 0 < a.min /\ a.min <= a.nom /\ a.nom <= a.max

Unset == -1        \* an option that is not given
RootVolno == 0     \* HAMMER_ROOT_VOLNO

VARIABLES volHdr,    \* the header of each device
          volMeta,   \* the filesystem whose meta-data it holds, or 0
          volCmd,    \* the program that runs, or how the last one ended
          volMade    \* history: the devices each filesystem was made on

hvVars == <<volHdr, volMeta, volCmd, volMade>>

\* A header of zeroes, and what strip leaves.
BlankHdr == [sig |-> "none", fs |-> 0, no |-> 0, count |-> 0,
             bot |-> 0, mem |-> 0, buf |-> 0, end |-> 0]
StrippedHdr == [BlankHdr EXCEPT !.sig = "stripped"]

HvInit ==
    /\ volHdr = [d \in Disks |-> BlankHdr] /\ volMeta = [d \in Disks |-> 0]
    /\ volCmd = [pc |-> "idle"] /\ volMade = <<>>

Over == {"idle", "failed", "killed", "done"}

-----------------------------------------------------------------------------
(* Loading a list of volumes.                                              *)

\* __add_volume: the loaded volumes are pairs of a device and a number.
Addable(loaded, d, no) == \A v \in loaded : v[1] # d /\ v[2] # no

\* Mutant: volumes of different filesystems are loaded together.
VerifyVolumeAnyFs(first, h) == h.sig = "hammer"

\* __verify_volume; Hammer_FSId is the one of the volume loaded first.
VerifyVolume(first, h) == h.sig = "hammer" /\ h.fs = first.fs

\* The devices of a list, as they come: those of element k at <<k, 1>>, <<k, 2>>...
Places(elems) == UNION {{k} \X (1..Len(elems[k])) : k \in 1..Len(elems)}
EarlierPlaces(elems, p) ==
    {q \in Places(elems) : q[1] < p[1] \/ (q[1] = p[1] /\ q[2] < p[2])}
DiskAt(elems, p) == elems[p[1]][p[2]]

LoadVolume(elems, p, verify) ==
    LET d == DiskAt(elems, p) IN
    /\ Addable({<<DiskAt(elems, q), volHdr[DiskAt(elems, q)].no>> : q \in EarlierPlaces(elems, p)},
               d, volHdr[d].no)
    /\ verify => VerifyVolume(volHdr[elems[1][1]], volHdr[d])

LastPlain(elems) == CHOOSE k \in 1..Len(elems) :
    Len(elems[k]) = 1 /\ \A j \in k + 1..Len(elems) : Len(elems[j]) > 1
RootIn(elems, k) ==
    \E d \in UNION {Range(elems[j]) : j \in 1..k} : volHdr[d].no = RootVolno

\* __hammer_parse_blkdevs: an element of the list is a device, or a label
\* that /etc/devtab expands to several, which are parsed as a list of their
\* own and not counted; with nothing else in the list an assertion fails.
ParseBlkdevs(elems, verify, count) ==
    LET plain == {k \in 1..Len(elems) : Len(elems[k]) = 1}
    IN /\ \A p \in Places(elems) : LoadVolume(elems, p, verify)
       /\ plain # {}
       /\ count =>
            /\ \A k \in 1..Len(elems) \ plain :
                 volHdr[elems[k][Len(elems[k])]].count = Len(elems[k]) /\ RootIn(elems, k)
            /\ volHdr[elems[LastPlain(elems)][1]].count = Cardinality(plain)
            /\ RootIn(elems, Len(elems))

PlainElems(list) == [i \in 1..Len(list) |-> <<list[i]>>]

\* hammer_parse_blkdevs, on a list of devices.
Loads(list) == ParseBlkdevs(PlainElems(list), TRUE, TRUE)

-----------------------------------------------------------------------------
(* newfs_hammer.                                                           *)

\* test_header_junk_size and its like, called while the options are parsed:
\* -f counts only when it comes first.
SizeAccepted(opt, size, min, max) ==
    size = Unset \/ (size <= max /\ (size >= min \/ (opt.force /\ opt.forceFirst)))

NewfsOptions(list, opt) ==
    /\ SizeAccepted(opt, opt.junk, JunkSize, JunkSize)
    /\ SizeAccepted(opt, opt.boot, BootArea.min, BootArea.max)
    /\ SizeAccepted(opt, opt.mem, MemArea.min, MemArea.max)
    /\ Len(list) \in 1..HammerMaxVolumes /\ opt.label

StartNewfs(list, opt) ==
    /\ volCmd.pc \in Over /\ Len(volMade) < MaxFs
    /\ IF NewfsOptions(list, opt)
       THEN /\ volCmd' = [cmd |-> "newfs", pc |-> "open", list |-> list, opt |-> opt,
                          next |-> 1]
            /\ volMade' = Append(volMade, Range(list))
       ELSE volCmd' = [pc |-> "failed"] /\ UNCHANGED volMade
    /\ UNCHANGED <<volHdr, volMeta>>

\* init_volume and trim_volume, one device after the other; BLKDISCARD may
\* fail, and a discarded device reads as zeroes.
TrimVolume ==
    LET d == volCmd.list[volCmd.next] IN
    \/ d \in RegFiles /\ volCmd.opt.force
       /\ volCmd' = [volCmd EXCEPT !.next = @ + 1] /\ UNCHANGED <<volHdr, volMeta>>
    \/ d \in RegFiles /\ ~volCmd.opt.force
       /\ volCmd' = [pc |-> "failed"] /\ UNCHANGED <<volHdr, volMeta>>
    \/ d \notin RegFiles
       /\ volCmd' = [volCmd EXCEPT !.next = @ + 1]
       /\ volHdr' = [volHdr EXCEPT ![d] = BlankHdr]
       /\ volMeta' = [volMeta EXCEPT ![d] = 0]
    \/ d \notin RegFiles
       /\ volCmd' = [pc |-> "failed"] /\ UNCHANGED <<volHdr, volMeta>>

OpenVolume ==
    /\ volCmd.pc = "open" /\ volCmd.next <= Len(volCmd.list)
    /\ IF ~Addable({<<volCmd.list[j], j - 1>> : j \in 1..volCmd.next - 1},
                  volCmd.list[volCmd.next], volCmd.next - 1)
       THEN volCmd' = [pc |-> "failed"] /\ UNCHANGED <<volHdr, volMeta>>
       ELSE IF volCmd.opt.trim THEN TrimVolume
       ELSE /\ volCmd' = [volCmd EXCEPT !.next = @ + 1]
            /\ UNCHANGED <<volHdr, volMeta>>
    /\ UNCHANGED volMade

TotalSize(list) == SumFunction([i \in 1..Len(list) |-> DiskSize[list[i]]])

\* init_boot_area_size and init_memory_log_size.
HalvedSize(avg, area) ==
    LET halved[v \in 0..area.nom] ==
          IF v > avg \div HammerMaxVolumes THEN halved[v \div 2] ELSE v
    IN halved[area.nom]
InitAreaSize(value, avg, area) ==
    LET size == IF value = 0 THEN HalvedSize(avg, area) ELSE value
    IN IF size < area.min THEN area.min ELSE IF size > area.max THEN area.max ELSE size

\* The header takes part of one buffer; the sizes are multiples of a buffer.
Areas(list, opt) ==
    LET avg  == TotalSize(list) \div Len(list)
        junk == IF opt.junk = Unset THEN JunkSize
                ELSE IF opt.junk < 1 THEN 1 ELSE opt.junk
        boot == IF opt.boot = Unset THEN InitAreaSize(Unset, avg, BootArea) ELSE opt.boot
        mem  == IF opt.mem = Unset THEN InitAreaSize(Unset, avg, MemArea) ELSE opt.mem
    IN [bot |-> junk, mem |-> junk + boot, buf |-> junk + boot + mem]

FormatVolume(list, opt, fs, i) ==
    [sig |-> "hammer", fs |-> fs, no |-> i - 1, count |-> Len(list),
     bot |-> Areas(list, opt).bot, mem |-> Areas(list, opt).mem,
     buf |-> Areas(list, opt).buf, end |-> DiskSize[list[i]]]

\* All volumes are formatted in memory.
FormatVolumes ==
    /\ volCmd.pc = "open" /\ volCmd.next > Len(volCmd.list)
    /\ LET list == volCmd.list
           hdrs == [i \in 1..Len(list) |->
                      FormatVolume(list, volCmd.opt, Len(volMade), i)]
       IN volCmd' = IF \A i \in 1..Len(list) : hdrs[i].buf < hdrs[i].end
                    THEN [cmd |-> "newfs", pc |-> "flush", list |-> list, next |-> 1,
                          hdrs |-> hdrs,
                          meta |-> [i \in 1..Len(list) |-> Len(volMade)]]
                    ELSE [pc |-> "failed"]
    /\ UNCHANGED <<volHdr, volMeta, volMade>>

-----------------------------------------------------------------------------
(* hammer strip.  The list is loaded unchecked; the big-blocks of meta-data*)
(* are found through the freemap of the root volume, and those erased are  *)
(* marked unavailable there, which ends a later pass over the volume.      *)

RootDisks(list) == {d \in Range(list) : volHdr[d].no = RootVolno}

\* The volumes whose meta-data the pass finds: the root volume's filesystem,
\* and whatever its numbers lead to on volumes of other filesystems.
StripReaches(list, d) ==
    \E r \in RootDisks(list) :
        /\ volHdr[r].sig = "hammer" /\ volMeta[r] \in {volHdr[r].fs, -volHdr[r].fs}
        /\ volHdr[d].fs = volHdr[r].fs
StripMayReach(list, d) ==
    ~StripReaches(list, d) /\ \E r \in RootDisks(list) : volHdr[r].sig = "hammer"

\* Meta-data of -fs is partly erased already.
StripMeta(list, d, extra) ==
    IF StripReaches(list, d) \/ d \in extra
    THEN IF volMeta[d] < 0 THEN volMeta[d] ELSE 0
    ELSE volMeta[d]

StripHdrs(list) == [i \in 1..Len(list) |-> StrippedHdr]

\* The user may answer no.
StartStrip(list) ==
    /\ volCmd.pc \in Over /\ list # <<>>
    /\ \/ volCmd' = [pc |-> "failed"]
       \/ /\ ParseBlkdevs(PlainElems(list), FALSE, FALSE)
          /\ \E extra \in SUBSET {d \in Range(list) : StripMayReach(list, d)} :
               volCmd' = [cmd |-> "strip", pc |-> "flush", list |-> list, next |-> 1,
                          hdrs |-> StripHdrs(list),
                          meta |-> [i \in 1..Len(list) |->
                                      StripMeta(list, list[i], extra)]]
    /\ UNCHANGED <<volHdr, volMeta, volMade>>

-----------------------------------------------------------------------------
\* The cache writes some of the buffers of the volume back before its turn.
WriteBack(i) ==
    /\ volCmd.pc = "flush" /\ i \in volCmd.next..Len(volCmd.list)
    /\ LET d == volCmd.list[i] IN
       /\ volMeta[d] > 0 /\ volMeta[d] # volCmd.meta[i]
       /\ volMeta' = [volMeta EXCEPT ![d] = IF volCmd.cmd = "strip" THEN -@ ELSE 0]
    /\ UNCHANGED <<volHdr, volCmd, volMade>>

\* flush_volume: the buffers of the volume, then its header.
FlushVolume ==
    /\ volCmd.pc = "flush"
    /\ LET d == volCmd.list[volCmd.next] IN
       /\ volMeta' = [volMeta EXCEPT ![d] = volCmd.meta[volCmd.next]]
       /\ volHdr' = [volHdr EXCEPT ![d] = volCmd.hdrs[volCmd.next]]
    /\ volCmd' = IF volCmd.next < Len(volCmd.list)
                 THEN [volCmd EXCEPT !.next = @ + 1]
                 ELSE [cmd |-> volCmd.cmd, pc |-> "done", list |-> volCmd.list]
    /\ UNCHANGED volMade

\* The program is killed, fails to write or runs out of room.
Killed ==
    /\ volCmd.pc \notin Over
    /\ volCmd' = [pc |-> "killed"]
    /\ UNCHANGED <<volHdr, volMeta, volMade>>

HvNext(lists, opts) ==
    \/ \E list \in lists : StartStrip(list) \/ \E o \in opts : StartNewfs(list, o)
    \/ OpenVolume \/ FormatVolumes \/ FlushVolume \/ Killed
    \/ \E i \in 1..HammerMaxVolumes : WriteBack(i)

\* The lists of devices and the options that the programs are given.
HvOptions == [force : BOOLEAN, forceFirst : BOOLEAN, label : BOOLEAN, trim : BOOLEAN,
              junk : Nat \cup {Unset}, boot : Nat \cup {Unset}, mem : Nat \cup {Unset}]
HvSpec(lists, opts) == HvInit /\ [][HvNext(lists, opts)]_hvVars

-----------------------------------------------------------------------------
(* fstyp.                                                                  *)

\* test_ondisk: the first header sets what the others are compared with.
TestOndisk(first, h) ==
    /\ h.sig = "hammer"
    /\ h.no \in 0..HammerMaxVolumes - 1 /\ h.count \in 1..HammerMaxVolumes
    /\ h.count = first.count /\ h.fs = first.fs

\* __fsvtyp_hammer; fstyp_hammer accepts a subset of its lists.
FsvtypHammer(list, partial) ==
    LET seen(n) == {i \in 1..Len(list) : volHdr[list[i]].no = n}
        missing == {n \in 0..HammerMaxVolumes - 1 : seen(n) = {}}
        root == list[CHOOSE i \in seen(RootVolno) : \A j \in seen(RootVolno) : j <= i]
    IN /\ list # <<>>
       /\ \A i \in 1..Len(list) : TestOndisk(volHdr[list[1]], volHdr[list[i]])
       /\ ~partial => /\ seen(RootVolno) # {}
                      /\ \A n \in 0..HammerMaxVolumes - 1 : Cardinality(seen(n)) <= 1
                      /\ missing = volHdr[root].count..HammerMaxVolumes - 1

-----------------------------------------------------------------------------
(* Properties.                                                             *)

\* Lists of the devices that newfs_hammer was run on; the others have no header.
DiskLists == LET used == UNION Range(volMade)
             IN UNION {[1..n -> used] : n \in 1..Cardinality(used)}

\* A list of volumes that the tools load holds the volumes of one filesystem
\* and all of them, also after newfs_hammer or hammer strip were stopped half
\* way through writing the headers.
LoadsWhole ==
    \A list \in DiskLists : Loads(list) =>
        LET fs == volHdr[list[1]].fs IN
        Range(list) = volMade[fs] /\ \A d \in Range(list) : volHdr[d].fs = fs

\* fstyp calls those and only those lists a HAMMER filesystem that the tools
\* load, and every part of one a part.
FstypAsLoaded ==
    \A list \in DiskLists :
        /\ FsvtypHammer(list, FALSE) <=> Loads(list)
        /\ Loads(list) => \A i \in 1..Len(list) : FsvtypHammer(<<list[i]>>, TRUE)

\* What newfs_hammer has made loads, in whatever order its volumes are
\* given.
NewfsLoads ==
    volCmd.pc = "done" /\ volCmd.cmd = "newfs" =>
        \A list \in DiskLists :
            Len(list) = Len(volCmd.list) /\ Range(list) = Range(volCmd.list) => Loads(list)

\* The areas of a volume lie behind its header, one after the other, and
\* leave room for buffers.
AreasInOrder ==
    \A d \in Disks :
        LET h == volHdr[d] IN
        h.sig = "hammer" => /\ 1 <= h.bot /\ h.bot <= h.mem /\ h.mem <= h.buf
                            /\ h.buf < h.end /\ h.end <= DiskSize[d]

\* After hammer strip no list with one of its volumes loads.
StripFinal ==
    volCmd.pc = "done" /\ volCmd.cmd = "strip" =>
        \A list \in DiskLists :
            Loads(list) => Range(list) \cap Range(volCmd.list) = {}

\* hammer.8: strip overwrites "volume header and other meta-data": after a
\* strip of all the volumes of a filesystem none of its meta-data is left.
StripErases ==
    volCmd.pc = "done" /\ volCmd.cmd = "strip" =>
        \A fs \in 1..Len(volMade) : volMade[fs] \subseteq Range(volCmd.list) =>
            \A d \in volMade[fs] : volMeta[d] \notin {fs, -fs}

\* hammer.c: "One may also specify a single element which is expanded into
\* multiple elements via /etc/devtab."
LabelLoads ==
    \A list \in DiskLists : Loads(list) => ParseBlkdevs(<<list>>, TRUE, TRUE)

\* What may be done to a set of devices with newfs_hammer and hammer strip,
\* also stopped half way, leaves no list that loads as something it is not:
\* a list loads only as the whole of one filesystem, exactly when fstyp
\* recognises it; a fresh filesystem loads, with its areas in order; and a
\* stripped one does not.
VolumesSound ==
    LoadsWhole /\ FstypAsLoaded /\ NewfsLoads /\ AreasInOrder /\ StripFinal
=============================================================================
