----------------------------- MODULE HammerPfs -----------------------------
(***************************************************************************)
(* The PFS commands of hammer(8) (cmd_pfs.c): pfs-master and pfs-slave     *)
(* look for a free id, configure the PFS, make a symbolic link and run     *)
(* pfs-update; pfs-destroy removes the PFS and then the link; pfs-upgrade  *)
(* and pfs-downgrade change its role.  Each ioctl and each change of the   *)
(* directory is a step.  The options of a command are reduced to the       *)
(* prune-min time and to being well-formed.                                *)
(***************************************************************************)
EXTENDS Integers, Sequences

CONSTANTS PfsProcs,    \* processes that run commands at the same time
          PfsNames,    \* names of links in the root PFS
          MaxPfsId,    \* HAMMER_MAX_PFS - 1
          MaxPfsCmds,  \* bound: commands
          SecMin, SecHour, SecDay, IntTop   \* 60, 3600, 86400 and INT_MAX, scaled

ASSUME PfsAssumption ==
  /\ {MaxPfsId, MaxPfsCmds} \subseteq Nat
  /\ {SecMin, SecHour, SecDay, IntTop} \subseteq Nat \ {0}
  /\ SecHour % SecMin = 0 /\ SecDay % SecHour = 0

VARIABLES pfsTab,    \* id -> configuration, or NoPfs
          pfsLink,   \* name -> id, or -1
          pfsProc,   \* process -> the command it runs
          pfsCmds,   \* commands started; also the source of unique uuids
          pfsMade    \* name -> uuid of the PFS that was created under it, or 0

pfsVars == <<pfsTab, pfsLink, pfsProc, pfsCmds, pfsMade>>

NoPfs == [role |-> "none", uuid |-> 0, prune |-> 0]
RootPfs == [role |-> "master", uuid |-> 0, prune |-> 0]
NoCmd == [pc |-> "idle"]

PfsInit ==
  /\ pfsTab = [i \in 0 .. MaxPfsId |-> IF i = 0 THEN RootPfs ELSE NoPfs]
  /\ pfsLink = [n \in PfsNames |-> -1]
  /\ pfsProc = [p \in PfsProcs |-> NoCmd]
  /\ pfsCmds = 0 /\ pfsMade = [n \in PfsNames |-> 0]

-----------------------------------------------------------------------------
(* prune-min.  The sum is an int and wraps before it is compared.          *)

WrapInt(v) == ((v + IntTop + 1) % (2 * (IntTop + 1))) - (IntTop + 1)

\* timetosecs; -1 is an illegal time.
TimeToSecs(t) ==
  LET v == WrapInt(t.d * SecDay + t.h * SecHour + t.m * SecMin + t.s)
  IN IF v > IntTop THEN IntTop ELSE v

\* dump_pfsd: Nd, Nd/hh:mm:ss or hh:mm:ss.
DumpPrune(v) ==
  IF v % SecDay = 0 /\ v >= SecDay THEN [d |-> v \div SecDay, h |-> 0, m |-> 0, s |-> 0]
  ELSE [d |-> v \div SecDay, h |-> (v \div SecHour) % (SecDay \div SecHour),
        m |-> (v \div SecMin) % (SecHour \div SecMin), s |-> v % SecMin]

-----------------------------------------------------------------------------
(* The commands.                                                           *)

StepTo(p, c) == pfsProc' = [pfsProc EXCEPT ![p] = c]

\* opt is [ok, t]: whether the options parse, and the prune-min given.
StartCmd(p, cmd, n, role, opt) ==
  /\ pfsProc[p] = NoCmd /\ pfsCmds < MaxPfsCmds
  /\ cmd = "create" => pfsLink[n] = -1          \* lstat: file exists
  /\ pfsCmds' = pfsCmds + 1
  /\ StepTo(p, [pc |-> IF cmd = "create" THEN "scan" ELSE "get", cmd |-> cmd,
                name |-> n, id |-> 0, role |-> role, opt |-> opt,
                uuid |-> pfsCmds + 1, pfs |-> NoPfs])
  /\ UNCHANGED <<pfsTab, pfsLink, pfsMade>>

\* HAMMERIOC_GET_PSEUDOFS on one id after the other; ENOENT ends the search.
ScanNext(c) ==
  IF pfsTab[c.id] # NoPfs
  THEN IF c.id = MaxPfsId THEN NoCmd ELSE [c EXCEPT !.id = @ + 1]
  ELSE [c EXCEPT !.pc = "set"]

ScanIds(p) ==
  /\ pfsProc[p].pc = "scan" /\ StepTo(p, ScanNext(pfsProc[p]))
  /\ UNCHANGED <<pfsTab, pfsLink, pfsCmds, pfsMade>>

\* init_pfsd.
NewPfs(c) == [role |-> c.role, uuid |-> c.uuid, prune |-> 0]

\* HAMMERIOC_SET_PSEUDOFS of a new PFS; it may fail.
SetNew(p) ==
  LET c == pfsProc[p] IN
  /\ c.pc = "set"
  /\ \/ /\ pfsTab' = [pfsTab EXCEPT ![c.id] = NewPfs(c)]
        /\ StepTo(p, [c EXCEPT !.pc = "symlink"])
     \/ StepTo(p, NoCmd) /\ UNCHANGED pfsTab
  /\ UNCHANGED <<pfsLink, pfsCmds, pfsMade>>

\* symlink("@@PFS%05d"); a failure leaves the PFS without a link.
MakeLink(p) ==
  LET c == pfsProc[p] IN
  /\ c.pc = "symlink"
  /\ \/ /\ pfsLink[c.name] = -1
        /\ pfsLink' = [pfsLink EXCEPT ![c.name] = c.id]
        /\ pfsMade' = [pfsMade EXCEPT ![c.name] = c.uuid]
        /\ StepTo(p, [c EXCEPT !.pc = "get"])
     \/ StepTo(p, NoCmd) /\ UNCHANGED <<pfsLink, pfsMade>>
  /\ UNCHANGED <<pfsTab, pfsCmds>>

\* parse_pfsd_options ends the command at the first option that is wrong.
BadOptions(opt) == ~opt.ok \/ TimeToSecs(opt.t) < 0

\* getpfs: the id from the link, the configuration from the kernel.  What
\* the commands refuse is decided on this copy.
Refuses(c, id) ==
  CASE c.cmd = "destroy"   -> id = 0
    [] c.cmd = "upgrade"   -> id = 0 \/ pfsTab[id].role = "master"
    [] c.cmd = "downgrade" -> id = 0 \/ pfsTab[id].role = "slave"
    [] OTHER -> BadOptions(c.opt)

GetPfs(p, id) ==
  LET c == pfsProc[p] IN
  /\ c.pc = "get"
  /\ id \in {pfsLink[c.name], 0}              \* the link, or the mount itself
  /\ c.cmd = "create" => id = pfsLink[c.name]
  /\ IF id = -1 \/ (id >= 0 /\ pfsTab[id] = NoPfs) \/ Refuses(c, id) THEN StepTo(p, NoCmd)
     ELSE StepTo(p, [c EXCEPT !.pc = "ioctl", !.id = id, !.pfs = pfsTab[id]])
  /\ UNCHANGED <<pfsTab, pfsLink, pfsCmds, pfsMade>>

\* pfs-update, also at the end of pfs-master and pfs-slave: the copy is
\* changed and written back.
UpdatePfs(p) ==
  LET c == pfsProc[p] IN
  /\ c.pc = "ioctl" /\ c.cmd \in {"create", "update"}
  /\ pfsTab' = [pfsTab EXCEPT ![c.id] = [c.pfs EXCEPT !.prune = TimeToSecs(c.opt.t)]]
  /\ StepTo(p, NoCmd)
  /\ UNCHANGED <<pfsLink, pfsCmds, pfsMade>>

ChangeRole(p) ==
  LET c == pfsProc[p] IN
  /\ c.pc = "ioctl" /\ c.cmd \in {"upgrade", "downgrade"}
  /\ pfsTab' = IF pfsTab[c.id] = NoPfs THEN pfsTab
               ELSE [pfsTab EXCEPT ![c.id].role =
                       IF c.cmd = "upgrade" THEN "master" ELSE "slave"]
  /\ StepTo(p, NoCmd)
  /\ UNCHANGED <<pfsLink, pfsCmds, pfsMade>>

\* HAMMERIOC_RMR_PSEUDOFS, once the questions are answered; it may fail.
DestroyPfs(p) ==
  LET c == pfsProc[p] IN
  /\ c.pc = "ioctl" /\ c.cmd = "destroy"
  /\ \/ /\ pfsTab[c.id] # NoPfs
        /\ pfsTab' = [pfsTab EXCEPT ![c.id] = NoPfs]
        /\ StepTo(p, [c EXCEPT !.pc = "unlink"])
     \/ StepTo(p, NoCmd) /\ UNCHANGED pfsTab
  /\ UNCHANGED <<pfsLink, pfsCmds, pfsMade>>

\* Mutant: the link is left behind.
RemoveLinkNot(c) == pfsLink

RemoveLink(c) == [pfsLink EXCEPT ![c.name] = -1]

UnlinkPfs(p) ==
  LET c == pfsProc[p] IN
  /\ c.pc = "unlink"
  /\ pfsLink' = RemoveLink(c)
  /\ pfsMade' = [pfsMade EXCEPT ![c.name] = 0]
  /\ StepTo(p, NoCmd)
  /\ UNCHANGED <<pfsTab, pfsCmds>>

PfsEnded ==
  /\ pfsCmds = MaxPfsCmds /\ \A p \in PfsProcs : pfsProc[p] = NoCmd
  /\ UNCHANGED pfsVars

PfsNext(opts) ==
  \/ \E p \in PfsProcs, n \in PfsNames, opt \in opts :
       \/ \E role \in {"master", "slave"} : StartCmd(p, "create", n, role, opt)
       \/ StartCmd(p, "update", n, "none", opt)
  \/ \E p \in PfsProcs, n \in PfsNames, cmd \in {"destroy", "upgrade", "downgrade"} :
       StartCmd(p, cmd, n, "none", CHOOSE opt \in opts : TRUE)
  \/ \E p \in PfsProcs, id \in -1 .. MaxPfsId : GetPfs(p, id)
  \/ \E p \in PfsProcs : \/ ScanIds(p) \/ SetNew(p) \/ MakeLink(p) \/ UpdatePfs(p)
                         \/ ChangeRole(p) \/ DestroyPfs(p) \/ UnlinkPfs(p)
  \/ PfsEnded

-----------------------------------------------------------------------------
(* Properties.                                                             *)

PfsQuiet == \A p \in PfsProcs : pfsProc[p] = NoCmd

\* Every link leads to the PFS that was created under it, by whatever
\* sequence of commands, failing ones included: an id is used again only
\* when no link leads to it.
OwnPfs ==
  PfsQuiet => \A n \in PfsNames :
    pfsLink[n] # -1 => pfsTab[pfsLink[n]] # NoPfs /\ pfsTab[pfsLink[n]].uuid = pfsMade[n]

\* The root PFS stays, and stays a master.
RootMaster == pfsTab[0].role = "master" /\ pfsTab[0].uuid = 0

\* The prune-min that pfs-status shows, given to pfs-update, sets the same
\* time again.
PruneRoundTrip == \A i \in DOMAIN pfsTab : TimeToSecs(DumpPrune(pfsTab[i].prune)) = pfsTab[i].prune

\* cmd_pfs.c says of timetosecs: "Return 0x7FFFFFFF if the time exceeds the
\* maximum allowed."
TimeSaturates ==
  \A p \in PfsProcs : pfsProc[p].pc = "ioctl" =>
    LET t == pfsProc[p].opt.t IN
    t.d * SecDay + t.h * SecHour + t.m * SecMin + t.s > IntTop => TimeToSecs(t) = IntTop

\* After any sequence of PFS commands, failing ones included, links lead to
\* the PFSs made under them, the root PFS is still a master, and pfs-status
\* shows each prune-min time so that pfs-update would set it again.
PfsSound == OwnPfs /\ RootMaster /\ PruneRoundTrip
-----------------------------------------------------------------------------
(* Why PfsSound holds of commands that do not overlap.                     *)

PfsOptions == [ok : BOOLEAN, t : [d : Nat, h : Nat, m : Nat, s : Nat]]
PfsConfig == [role : {"none", "master", "slave"}, uuid : Nat, prune : 0 .. IntTop]
PfsCommand == [pc : {"scan", "set", "symlink", "get", "ioctl", "unlink"},
               cmd : {"create", "update", "destroy", "upgrade", "downgrade"},
               name : PfsNames, id : 0 .. MaxPfsId, role : {"none", "master", "slave"},
               opt : PfsOptions, uuid : Nat, pfs : PfsConfig]

PfsTypeOK ==
  /\ pfsTab \in [0 .. MaxPfsId -> PfsConfig] /\ pfsCmds \in Nat
  /\ pfsLink \in [PfsNames -> -1 .. MaxPfsId] /\ pfsMade \in [PfsNames -> Nat]
  /\ pfsProc \in [PfsProcs -> PfsCommand \cup {NoCmd}]

\* A link leads to the PFS made under it, which is not the root's, except
\* that pfs-destroy removes the PFS before the link; two links never lead to
\* the same PFS.
LinkInv ==
  /\ \A n \in PfsNames :
       pfsLink[n] # -1 =>
         \/ /\ pfsTab[pfsLink[n]].role # "none" /\ pfsTab[pfsLink[n]].uuid = pfsMade[n]
            /\ pfsLink[n] # 0
         \/ \E p \in PfsProcs : pfsProc[p].pc = "unlink" /\ pfsProc[p].name = n
  /\ \A m, n \in PfsNames : pfsLink[m] = pfsLink[n] /\ pfsLink[m] # -1 => m = n

\* What a command has found out, or has done, still holds.
CmdInv(c) ==
  /\ c.cmd = "create" => c.role # "none"
  /\ c.pc \in {"scan", "set", "symlink"} => c.cmd = "create"
  /\ c.pc = "set" => pfsTab[c.id] = NoPfs
  /\ c.pc = "symlink" => /\ pfsTab[c.id].role # "none" /\ pfsTab[c.id].uuid = c.uuid
                         /\ c.id # 0 /\ \A n \in PfsNames : pfsLink[n] # c.id
  /\ c.pc = "ioctl" => /\ pfsTab[c.id] = c.pfs /\ c.pfs.role # "none"
                       /\ IF c.cmd \in {"create", "update"} THEN TimeToSecs(c.opt.t) >= 0
                          ELSE c.id # 0
                       /\ c.cmd = "destroy" => pfsLink[c.name] = c.id
  /\ c.pc = "unlink" => c.id # 0 /\ pfsLink[c.name] = c.id

PfsInv ==
  /\ PfsTypeOK /\ RootMaster /\ LinkInv
  /\ \A i \in 0 .. MaxPfsId : pfsTab[i].role = "none" => pfsTab[i] = NoPfs
  /\ \A p \in PfsProcs : pfsProc[p] # NoCmd => CmdInv(pfsProc[p])

PfsSpec(opts) == PfsInit /\ [][PfsNext(opts)]_pfsVars
=============================================================================
