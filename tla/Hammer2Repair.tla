--------------------------- MODULE Hammer2Repair ---------------------------
(***************************************************************************)
(* The two tools beside fsck_hammer2 that write to the media: destroy.c    *)
(* changes an inode number or a directory entry in place and leaves the    *)
(* check codes above it wrong, reconstruct.c brings the check codes back   *)
(* in line with the data, from the leaves up to the volume headers.        *)
(*                                                                         *)
(* The media is a map from addresses to blocks.  A block holds a payload   *)
(* and the entries (blockrefs) of its children; an entry is [blk, type,    *)
(* chk, key].  The check code of a block is the block's contents, so two   *)
(* codes are equal only for equal contents.  An entry without a block      *)
(* (blk = 0) is a directory entry with its name in the place of the check  *)
(* code.  Addresses 1 .. NumZones are the volume headers.  Blocks are      *)
(* shared between the trees of the headers.  A zone is walked with nobody  *)
(* else writing, so its writes are worked out when the walk starts and     *)
(* take effect one by one; a tool may be killed between two of them.       *)
(***************************************************************************)
EXTENDS Integers, Sequences, FiniteSets

CONSTANTS NumZones,    \* HAMMER2_NUM_VOLHDRS
          MaxTools,    \* bound: runs of a tool
          MaxDamaged   \* bound: blocks damaged by the media

ASSUME RepairAssumption == NumZones \in Nat \ {0} /\ {MaxTools, MaxDamaged} \subseteq Nat

VARIABLES media,      \* address -> block
          zonesThere, \* number of headers that lie within the volume
          tool,       \* the running tool, or how the last one ended
          toolRuns, damaged

repairVars == <<media, zonesThere, tool, toolRuns, damaged>>

RepairInit(m, zones) ==
  /\ media = m /\ zonesThere = zones
  /\ tool = [pc |-> "none"] /\ toolRuns = 0 /\ damaged = 0

IsHeader(a) == a <= NumZones

Ents(m, a, tree) == IF IsHeader(a) THEN m[a][tree] ELSE m[a].ents

SetEnt(m, a, tree, i, e) ==
  IF IsHeader(a) THEN [m EXCEPT ![a][tree][i] = e] ELSE [m EXCEPT ![a].ents[i] = e]

\* What the check code of a block is taken over.
Contents(m, a) == <<m[a].pay, m[a].ents>>

-----------------------------------------------------------------------------
(* A walk is [m, ws, ret]: the media as it will be, the writes, the result *)
(* (-2: an assertion ends the program).                                    *)

Written(w, m, a) == [w EXCEPT !.m = m, !.ws = Append(@, [at |-> a, blk |-> m[a]])]

\* Mutant: the code is computed from the data read before the
\* children were repaired.
ModifyCheckStale(w, prev, tree, i, buf, old) ==
  LET e == Ents(w.m, prev, tree)[i] IN
  IF e # buf THEN [w EXCEPT !.ret = -1]
  ELSE IF e.chk = old THEN w
  ELSE Written(w, SetEnt(w.m, prev, tree, i, [e EXCEPT !.chk = old]), prev)

\* modify_check: the parent is read again; the entry must still be the one
\* the walk came from.
ModifyCheck(w, prev, tree, i, buf, old) ==
  LET e  == Ents(w.m, prev, tree)[i]
      cv == Contents(w.m, buf.blk)
  IN IF e # buf THEN [w EXCEPT !.ret = -1]
     ELSE IF e.chk = cv THEN w
     ELSE Written(w, SetEnt(w.m, prev, tree, i, [e EXCEPT !.chk = cv]), prev)

RECURSIVE RebuildBlock(_, _, _, _, _), RebuildKids(_, _, _, _, _)

\* modify_blockref of reconstruct.c: children first, then the check code.
RebuildBlock(w, prev, tree, i, buf) ==
  IF buf.blk = 0 THEN w
  ELSE LET kids == RebuildKids(w, buf.blk, tree, 1, w.m[buf.blk].ents)
       IN IF kids.ret = -1 THEN kids
          ELSE ModifyCheck(kids, prev, tree, i, buf, Contents(w.m, buf.blk))

RebuildKids(w, a, tree, i, buf) ==
  IF i > Len(buf) \/ w.ret = -1 THEN w
  ELSE RebuildKids(RebuildBlock(w, a, tree, i, buf[i]), a, tree, i + 1, buf)

\* modify_volume_header: sector 1, then sector 0, then the whole block.
HeaderCrcs(h) ==
  [h EXCEPT !.s1 = h.vol, !.s0 = h.vol, !.vh = <<h.vol, h.fm, h.vol, h.vol>>]

RebuildHeader(w, z) ==
  IF HeaderCrcs(w.m[z]) = w.m[z] THEN w
  ELSE Written(w, [w.m EXCEPT ![z] = HeaderCrcs(@)], z)

RebuildZone(phase, z) ==
  LET w == [m |-> media, ws |-> <<>>, ret |-> 0] IN
  IF phase = "header" THEN RebuildHeader(w, z)
  ELSE RebuildKids(w, z, phase, 1, media[z][phase])

-----------------------------------------------------------------------------
(* destroy.c.  The argument is [kind, src, dst]; a name is [n, long]: only *)
(* a short one fits the check code of a blockref.                          *)

ModifyInode(w, arg, a) ==
  IF arg.kind = "inode" /\ w.m[a].pay = arg.src
  THEN Written(w, [w.m EXCEPT ![a].pay = arg.dst], a) ELSE w

ModifyDirentEmbedded(w, arg, prev, tree, i) ==
  IF arg.dst.long THEN [w EXCEPT !.ret = -1]
  ELSE LET e == Ents(w.m, prev, tree)[i] IN
       Written(w, SetEnt(w.m, prev, tree, i,
                         [e EXCEPT !.chk = arg.dst, !.key = arg.dst]), prev)

\* The entry block, then its parent.
ModifyDirent(w, arg, prev, tree, i, buf) ==
  LET e == Ents(w.m, prev, tree)[i] IN
  IF e # buf \/ ~arg.dst.long THEN [w EXCEPT !.ret = -1]
  ELSE LET w1 == Written(w, [w.m EXCEPT ![buf.blk].pay = arg.dst], buf.blk)
       IN Written(w1, SetEnt(w1.m, prev, tree, i, [e EXCEPT !.key = arg.dst]),
                  prev)

\* The names of the entries without a block.
EmbeddedNames(m) ==
  {e.chk : e \in {x \in UNION {{m[a].ents[i] : i \in DOMAIN m[a].ents} :
                                 a \in {b \in DOMAIN m : ~IsHeader(b)}} :
                   x.blk = 0}}

\* An entry without a block whose name is another one is compared with a
\* buffer that nothing was read into.  When what is left there matches, the
\* name is refused as too short or the write of no bytes is asserted against.
ModifyUnread(w, arg) == [w EXCEPT !.ret = IF arg.dst.long THEN -2 ELSE -1]

RECURSIVE DestroyBlock(_, _, _, _, _), DestroyKids(_, _, _, _, _)

\* arg.left: the entry at which the unread buffer matches.
DestroyBlock(w, arg, prev, i, buf) ==
  LET dirent == buf.type = "dirent" /\ arg.kind = "dirent"
                  /\ arg.src.long = buf.key.long
  IN CASE buf.type \in {"inode", "indirect"} ->
            LET kids == w.m[buf.blk].ents
                w1 == IF buf.type = "inode" THEN ModifyInode(w, arg, buf.blk) ELSE w
            IN DestroyKids(w1, arg, buf.blk, 1, kids)
       [] dirent /\ buf.blk = 0 /\ buf.chk = arg.src ->
            ModifyDirentEmbedded(w, arg, prev, "vol", i)
       [] dirent /\ buf.blk = 0 /\ buf.chk # arg.src /\ buf.chk = arg.left ->
            ModifyUnread(w, arg)
       [] dirent /\ buf.blk # 0 /\ w.m[buf.blk].pay = arg.src ->
            ModifyDirent(w, arg, prev, "vol", i, buf)
       [] OTHER -> w

DestroyKids(w, arg, a, i, buf) ==
  IF i > Len(buf) \/ w.ret # 0 THEN w
  ELSE DestroyKids(DestroyBlock(w, arg, a, i, buf[i]), arg, a, i + 1, buf)

DestroyZone(arg, left, z) ==
  DestroyKids([m |-> media, ws |-> <<>>, ret |-> 0],
              [kind |-> arg.kind, src |-> arg.src, dst |-> arg.dst, left |-> left],
              z, 1, media[z].vol)

NoName == [n |-> "none", long |-> TRUE]

-----------------------------------------------------------------------------
(* The programs: every zone of every phase in turn.  A zone beyond the end *)
(* of the volume cannot be read and ends the program.                      *)

Idle == tool.pc \in {"none", "ok", "failed", "killed"}

Start(prog, phase, arg, force) ==
  /\ Idle /\ toolRuns < MaxTools
  /\ tool' = [pc |-> "zone", prog |-> prog, phase |-> phase, arg |-> arg,
              force |-> force, zone |-> 1, ws |-> <<>>, failed |-> FALSE]
  /\ toolRuns' = toolRuns + 1
  /\ UNCHANGED <<media, zonesThere, damaged>>

WalkZone ==
  /\ tool.pc = "zone" /\ tool.zone <= NumZones
  /\ IF tool.zone > zonesThere THEN tool' = [pc |-> "failed"]
     ELSE \E left \in {NoName} \cup EmbeddedNames(media) :
          LET w == IF tool.prog = "destroy"
                   THEN DestroyZone(tool.arg, left, tool.zone)
                   ELSE RebuildZone(tool.phase, tool.zone)
          IN tool' = [tool EXCEPT !.pc = "write",
                        !.ws = IF tool.force THEN w.ws ELSE <<>>,
                        !.zone = IF w.ret = -2 THEN NumZones ELSE @,
                        !.failed = @ \/ w.ret # 0]
  /\ UNCHANGED <<media, zonesThere, toolRuns, damaged>>

WriteMedia ==
  /\ tool.pc = "write"
  /\ IF tool.ws = <<>>
     THEN /\ tool' = [tool EXCEPT !.pc = "zone", !.zone = @ + 1]
          /\ UNCHANGED media
     ELSE /\ media' = [media EXCEPT ![Head(tool.ws).at] = Head(tool.ws).blk]
          /\ tool' = [tool EXCEPT !.ws = Tail(@)]
  /\ UNCHANGED <<zonesThere, toolRuns, damaged>>

\* main of reconstruct.c: freemap, volume, headers.
EndOfPhase ==
  /\ tool.pc = "zone" /\ tool.zone > NumZones
  /\ tool' = IF tool.failed THEN [pc |-> "failed"]
             ELSE IF tool.prog = "destroy" THEN [pc |-> "ok", prog |-> "destroy"]
             ELSE CASE tool.phase = "fm"  -> [tool EXCEPT !.pc = "zone", !.zone = 1, !.phase = "vol"]
                    [] tool.phase = "vol" -> [tool EXCEPT !.pc = "zone", !.zone = 1, !.phase = "header"]
                    [] OTHER -> [pc |-> "ok", prog |-> IF tool.force THEN "reconstruct" ELSE "look"]
  /\ UNCHANGED <<media, zonesThere, toolRuns, damaged>>

Killed ==
  /\ tool.pc = "write" /\ tool.ws # <<>>
  /\ tool' = [pc |-> "killed"]
  /\ UNCHANGED <<media, zonesThere, toolRuns, damaged>>

\* The media damages the payload of a block.
DamageBlock(a) ==
  /\ Idle /\ damaged < MaxDamaged /\ toolRuns < MaxTools
  /\ media' = [media EXCEPT ![a].pay = [n |-> "junk", long |-> FALSE]]
  /\ damaged' = damaged + 1
  /\ tool' = [pc |-> "none"]
  /\ UNCHANGED <<zonesThere, toolRuns>>

\* Nothing more happens once the bounds are reached.
RepairEnded == Idle /\ toolRuns = MaxTools /\ UNCHANGED repairVars

RepairNext(args) ==
  \/ \E arg \in args : Start("destroy", "vol", arg, TRUE)
  \/ \E force \in BOOLEAN : Start("reconstruct", "fm", [kind |-> "none"], force)
  \/ WalkZone \/ WriteMedia \/ EndOfPhase \/ Killed \/ RepairEnded
  \/ \E a \in {b \in DOMAIN media : ~IsHeader(b)} : DamageBlock(a)

-----------------------------------------------------------------------------
(* Properties.                                                             *)

RECURSIVE IntactBelow(_)
IntactBelow(ents) ==
  \A i \in DOMAIN ents :
    ents[i].blk = 0 \/ /\ ents[i].chk = Contents(media, ents[i].blk)
                       /\ IntactBelow(media[ents[i].blk].ents)

\* What fsck_hammer2 looks for in the headers and below them.
Intact(z) ==
  /\ media[z].s1 = media[z].vol /\ media[z].s0 = media[z].s1
  /\ media[z].vh = <<media[z].vol, media[z].fm, media[z].s1, media[z].s0>>
  /\ IntactBelow(media[z].vol) /\ IntactBelow(media[z].fm)

\* A run of reconstruct.c that was not interrupted leaves every check code
\* right, in the trees of all headers and in the headers themselves, whatever
\* destroy.c, the media or earlier runs that were killed have left behind.
Rebuilt ==
  tool.pc = "ok" /\ tool.prog = "reconstruct" => \A z \in 1 .. zonesThere : Intact(z)

\* In reconstruct.c an entry never differs from the one the walk started
\* from: the run fails only on headers that lie beyond the volume.
NeverMismatched ==
  tool.pc = "write" /\ tool.prog = "reconstruct" => ~tool.failed

\* reconstruct.c changes check codes only: the payload, the names and the
\* shape of every tree stay as they were.
OnlyCodesChange ==
  [][ tool.pc = "write" /\ tool.prog = "reconstruct" =>
        \A a \in DOMAIN media : ~IsHeader(a) =>
          /\ media'[a].pay = media[a].pay
          /\ \A i \in DOMAIN media[a].ents :
               LET e == media[a].ents[i] IN
               media'[a].ents[i] = [e EXCEPT !.chk = media'[a].ents[i].chk]
               /\ (e.blk = 0 => media'[a].ents[i] = e) ]_repairVars

\* reconstruct.c brings every check code in line with the data, whatever was
\* left by runs killed before it, and changes nothing else.
RepairSafe == [](Rebuilt /\ NeverMismatched) /\ OnlyCodesChange
=============================================================================
