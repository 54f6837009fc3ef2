--------------------------- MODULE HammerRecover ---------------------------
(***************************************************************************)
(* hammer recover rebuilds files from the B-Tree records it meets while it *)
(* scans a damaged image: the records come in any order, and any may be    *)
(* missing.  A dictionary maps an object id to what is known of it so far, *)
(* recover_path derives its path below the target directory from that, and *)
(* whenever a record changes the path the file or directory is renamed.    *)
(*                                                                         *)
(* A path is a sequence of <<kind, number>> components: "pfs" for the      *)
(* directory of a PFS, "obj" for an object without a name, "name" for one  *)
(* with a name.  A file's length and its data are in units, two to a data  *)
(* record.                                                                 *)
(***************************************************************************)
EXTENDS Integers, Sequences, FiniteSets, TLC

CONSTANTS Objs,      \* object ids; 1 is the root directory of the PFS
          RootDir    \* HAMMER_OBJID_ROOT

ASSUME RecoverAssumption == RootDir \in Objs /\ Objs \subseteq Nat \ {0}

NoObj == 0
NoName == 0

VARIABLES todo,       \* the records still to be met
          seen,       \* history: the records processed
          dict,       \* RDHash: what is known of the objects met
          target,     \* the target directory: path -> node
          files,      \* the files made: inode -> [len, units]
          cachedPath, cachedFd
recVars == <<todo, seen, dict, target, files, cachedPath, cachedFd>>

DirNode == [kind |-> "dir", ino |-> 0]
FileNode(i) == [kind |-> "file", ino |-> i]

RecInit(recs) ==
    /\ todo = recs /\ seen = {} /\ dict = << >>
    /\ target = (<<>> :> DirNode) /\ files = <<>>
    /\ cachedPath = <<>> /\ cachedFd = 0

\* mkdir, rename and open(O_CREAT) of the target file system.
Parent(p) == SubSeq(p, 1, Len(p) - 1)
IsDir(t, p) == p \in DOMAIN t /\ t[p].kind = "dir"
Below(p, q) == Len(q) >= Len(p) /\ SubSeq(q, 1, Len(p)) = p
Mkdir(t, p) == IF p \in DOMAIN t \/ ~IsDir(t, Parent(p)) THEN t ELSE t @@ (p :> DirNode)
MayRename(t, p, q) ==
    /\ p \in DOMAIN t /\ IsDir(t, Parent(q)) /\ ~Below(p, q)
    /\ q \in DOMAIN t => /\ t[q].kind = t[p].kind
                         /\ \A r \in DOMAIN t : Below(q, r) => r = q
Rename(t, p, q) ==
    IF ~MayRename(t, p, q) THEN t
    ELSE [r \in {x \in DOMAIN t : ~Below(p, x)} \cup
                {q \o SubSeq(x, Len(p) + 1, Len(x)) : x \in {y \in DOMAIN t : Below(p, y)}} |->
             IF Below(q, r) THEN t[p \o SubSeq(r, Len(q) + 1, Len(r))] ELSE t[r]]

\* get_dict: an object met for the first time hangs off the PFS's root.
Blank(o) == [parent |-> IF o = RootDir THEN NoObj ELSE RootDir, attached |-> FALSE,
             madedir |-> FALSE, size |-> -1, name |-> NoName]
Known(d, o) == [x \in DOMAIN d \cup {o, RootDir} |-> IF x \in DOMAIN d THEN d[x] ELSE Blank(x)]

\* recover_path: the names of an object and of its parents.  A parent that is
\* being visited already, a loop of directory entries, ends the path.
RECURSIVE PathFrom(_, _, _)
PathFrom(d, o, visited) ==
    LET p == d[o].parent
        up == IF p # NoObj /\ p \notin visited THEN PathFrom(d, p, visited \cup {p}) ELSE <<>>
    IN Append(up, IF o = RootDir THEN <<"pfs", 0>>
                  ELSE IF d[o].name # NoName THEN <<"name", d[o].name>> ELSE <<"obj", o>>)
RecoverPath(d, o) == PathFrom(d, o, {o})

\* A parent directory is made the first time it is needed, where its own path
\* says, and is not tried again.
MakeDir(s, o) ==
    IF o = NoObj \/ s.dict[o].madedir THEN s
    ELSE LET d == [s.dict EXCEPT ![o].madedir = TRUE]
         IN [s EXCEPT !.dict = d, !.target = Mkdir(s.target, RecoverPath(d, o))]

Truncate(f, size) == [len |-> size, units |-> {u \in f.units : u[1] < size}]

Now(o) == [dict |-> Known(dict, o), target |-> target, files |-> files]
Set(s) == dict' = s.dict /\ target' = s.target /\ files' = s.files

\* open(path, O_CREAT): the state after it and the inode, 0 when it fails.
Opened(s, p) ==
    IF p \in DOMAIN s.target
    THEN [state |-> s, ino |-> IF s.target[p].kind = "file" THEN s.target[p].ino ELSE 0]
    ELSE IF ~IsDir(s.target, Parent(p)) THEN [state |-> s, ino |-> 0]
    ELSE LET i == Len(s.files) + 1
         IN [state |-> [s EXCEPT !.target = @ @@ (p :> FileNode(i)),
                                 !.files = Append(@, [len |-> 0, units |-> {}])],
             ino |-> i]

Moved(s, p, q) == IF p = q THEN s ELSE [s EXCEPT !.target = Rename(@, p, q)]

\* Attach o to its parent directory p, once, and make sure that p exists.
Attach(s, o, p) ==
    IF s.dict[o].attached THEN s
    ELSE LET d == Known(s.dict, p)
         IN MakeDir([s EXCEPT !.dict = [d EXCEPT ![o].attached = TRUE, ![o].parent = p]], p)

RecoverInode(r) ==
    LET s0 == Now(r.obj)
        p1 == RecoverPath(s0.dict, r.obj)
        s1 == IF r.obj = RootDir \/ r.parent = NoObj THEN s0 ELSE Attach(s0, r.obj, r.parent)
        s2 == [s1 EXCEPT !.dict[r.obj].size = r.size]
        p2 == RecoverPath(s2.dict, r.obj)
        exists == p1 \in DOMAIN s2.target
        cut == IF r.isfile /\ s2.target[p1].kind = "file"
               THEN [s2 EXCEPT !.files[s2.target[p1].ino] = Truncate(@, r.size)] ELSE s2
        made == [s2 EXCEPT !.target = Mkdir(@, p2), !.dict[r.obj].madedir = TRUE] IN
    /\ Set(IF exists THEN Moved(cut, p1, p2)
           ELSE IF r.isfile THEN Opened(s2, p2).state ELSE made)
    /\ UNCHANGED <<cachedPath, cachedFd>>

\* Trailing zeros are only written when the inode has told the file's size.
Filled(r, size) == IF size = -1 THEN r.nonzero ELSE 2

RecoverData(r) ==
    LET s0 == Now(r.obj)
        s1 == MakeDir(s0, s0.dict[r.obj].parent)
        p == RecoverPath(s1.dict, r.obj)
        o == IF cachedFd # 0 /\ cachedPath = p THEN [state |-> s1, ino |-> cachedFd]
             ELSE Opened(s1, p)
        size == o.state.dict[r.obj].size
        n == Filled(r, size)
        f == o.state.files[o.ino]
        w == [len |-> IF n > 0 /\ r.off + n > f.len THEN r.off + n ELSE f.len,
              units |-> f.units \cup {<<u, r.obj>> : u \in r.off..r.off + r.nonzero - 1}]
        g == IF size >= 0 /\ r.off + 2 > size THEN Truncate(w, size) ELSE w IN
    IF o.ino = 0
    THEN Set(o.state) /\ UNCHANGED <<cachedPath, cachedFd>>
    ELSE /\ Set([o.state EXCEPT !.files[o.ino] = g])
         /\ cachedPath' = p /\ cachedFd' = o.ino

\* Mutant: the file is not moved to the name it is now known by.
RecoverDirentryStays(r) ==
    LET s0 == [Now(r.obj) EXCEPT !.dict = Known(@, r.entry)]
        s1 == IF s0.dict[r.entry].name # NoName THEN s0
              ELSE [s0 EXCEPT !.dict[r.entry].name = r.name] IN
    /\ Set(Attach(s1, r.entry, r.obj))
    /\ UNCHANGED <<cachedPath, cachedFd>>

\* A second name for an object is dropped: hard links are not supported.
RecoverDirentry(r) ==
    LET s0 == [Now(r.obj) EXCEPT !.dict = Known(@, r.entry)]
        p1 == RecoverPath(s0.dict, r.entry)
        s1 == IF s0.dict[r.entry].name # NoName THEN s0
              ELSE [s0 EXCEPT !.dict[r.entry].name = r.name]
        s2 == Attach(s1, r.entry, r.obj)
        p2 == RecoverPath(s2.dict, r.entry) IN
    /\ IF r.entry \in {NoObj, RootDir} THEN Set(Now(r.obj)) ELSE Set(Moved(s2, p1, p2))
    /\ UNCHANGED <<cachedPath, cachedFd>>

\* Deleted records are ignored, and so are those whose data cannot be read.
RecoverElm(r) ==
    /\ todo' = todo \ {r} /\ seen' = seen \cup {r}
    /\ IF r.deleted \/ ~r.readable
       THEN UNCHANGED <<dict, target, files, cachedPath, cachedFd>>
       ELSE \/ r.type = "inode" /\ RecoverInode(r)
            \/ r.type = "data" /\ RecoverData(r)
            \/ r.type = "direntry" /\ RecoverDirentry(r)

RecNext == \E r \in todo : RecoverElm(r)

-----------------------------------------------------------------------------
Live == {r \in seen : ~r.deleted /\ r.readable}
InodeOf(o) == {r \in Live : r.type = "inode" /\ r.obj = o}
DataOf(o) == {r \in Live : r.type = "data" /\ r.obj = o}
FileAt(o) ==
    LET p == RecoverPath(dict, o) IN
    IF p \in DOMAIN target /\ target[p].kind = "file" THEN target[p].ino ELSE 0

\* However the records are ordered, what has been met of an object is in one
\* file, at the path that the dictionary now gives the object: all of its data,
\* nothing of another object's, and once its last data has been met the length
\* that its inode says.
FragmentsRecovered ==
    \A o \in {r.obj : r \in {q \in Live : q.type = "data"}} :
        LET f == files[FileAt(o)] IN
        /\ FileAt(o) # 0
        /\ \A r \in DataOf(o), u \in 0..1 :
             LET live == \A i \in InodeOf(o) : r.off + u < i.size IN
             (u < r.nonzero /\ live) => <<r.off + u, o>> \in f.units
        /\ \A x \in f.units : x[2] = o
        /\ \A i \in InodeOf(o), r \in DataOf(o) : r.off + 2 >= i.size => f.len = i.size
=============================================================================
