---------------------------- MODULE HistoryStore ----------------------------
(***************************************************************************)
(* The transfer history of rust/filedrop-core/src/storage/history.rs: a    *)
(* map in memory behind a lock, and a JSON file replaced by "write a       *)
(* temporary file, rename it" on every mutation.                           *)
(*                                                                         *)
(* add and clear release the lock before they persist, and every persist   *)
(* uses the same temporary name.  A step of this module is what a mutation *)
(* does between two points where another one, or the end of the process,   *)
(* can come in.  The content of a file is the set of records it holds (none*)
(* in an empty file, which loads as an empty history), or {Torn}: bytes    *)
(* that are not a JSON list of records.  Inodes are named by the mutation  *)
(* that created them.                                                      *)
(***************************************************************************)
EXTENDS Naturals, FiniteSets

CONSTANTS
    Ops,        \* calls of add and clear
    Records,    \* transfer records, by id
    Work,       \* the record a call adds, or Clear
    Clear, Torn, None

ASSUME HistoryAssumption ==
    /\ Work \in [Ops -> Records \cup {Clear}]
    /\ Clear \notin Records
    /\ None \notin Ops
    /\ Torn \notin Records

VARIABLES
    up,         \* "up", "down" between two runs of the process, "broken": init failed
    records,    \* HistoryStore::records
    pc,         \* where each call is
    snap,       \* the list persist collected
    fd,         \* the inode its write goes to
    content,    \* inode -> content
    tmp,        \* history.json.tmp -> inode
    path,       \* history.json -> inode
    acked       \* observer: records whose add returned Ok, no clear having begun since

memVars == <<up, records>>
opVars == <<pc, snap, fd>>
diskVars == <<content, tmp, path>>
vars == <<memVars, opVars, diskVars, acked>>

Busy == {"inserted", "write", "fill", "rename"}

Init ==
    /\ up = "up"
    /\ records = {}
    /\ pc = [o \in Ops |-> "idle"]
    /\ snap = [o \in Ops |-> {}]
    /\ fd = [o \in Ops |-> None]
    /\ content = [o \in Ops |-> {}]
    /\ tmp = None
    /\ path = None
    /\ acked = {}

GoTo(o, label) == pc' = [pc EXCEPT ![o] = label]

\* Mutant of Insert: clear is taken for an addition.
InsertAlways(o) ==
    /\ up = "up"
    /\ pc[o] = "idle"
    /\ GoTo(o, "inserted")
    /\ records' = records \cup {Work[o]}
    /\ UNCHANGED <<up, snap, fd, diskVars, acked>>

\* The map is changed under the write lock, which is then released.
Insert(o) ==
    /\ up = "up"
    /\ pc[o] = "idle"
    /\ GoTo(o, "inserted")
    /\ records' = IF Work[o] = Clear THEN {} ELSE records \cup {Work[o]}
    /\ acked' = IF Work[o] = Clear THEN {} ELSE acked
    /\ UNCHANGED <<up, snap, fd, diskVars>>

\* Mutant of Snapshot: the newest record is not collected.
SnapshotStale(o) ==
    /\ pc[o] = "inserted"
    /\ GoTo(o, "write")
    /\ snap' = [snap EXCEPT ![o] = records \ {Work[o]}]
    /\ UNCHANGED <<memVars, fd, diskVars, acked>>

\* persist collects the map under the read lock.
Snapshot(o) ==
    /\ pc[o] = "inserted"
    /\ GoTo(o, "write")
    /\ snap' = [snap EXCEPT ![o] = records]
    /\ UNCHANGED <<memVars, fd, diskVars, acked>>

\* Mutant of OpenTmp: history.json itself is rewritten.
OpenInPlace(o) ==
    LET inode == IF path = None THEN o ELSE path
    IN  /\ pc[o] = "write"
        /\ GoTo(o, "fill")
        /\ content' = [content EXCEPT ![inode] = {}]
        /\ path' = inode
        /\ tmp' = inode
        /\ fd' = [fd EXCEPT ![o] = inode]
        /\ UNCHANGED <<memVars, snap, acked>>

\* tokio::fs::write, first half: history.json.tmp is created or truncated.
OpenTmp(o) ==
    LET inode == IF tmp = None THEN o ELSE tmp
    IN  /\ pc[o] = "write"
        /\ GoTo(o, "fill")
        /\ content' = [content EXCEPT ![inode] = {}]
        /\ tmp' = inode
        /\ fd' = [fd EXCEPT ![o] = inode]
        /\ UNCHANGED <<memVars, snap, path, acked>>

\* Second half: the JSON is written from the start of the file.  Over another
\* list it leaves that list's tail behind when it is the shorter of the two.
Fill(o) ==
    LET old == content[fd[o]]
    IN  /\ pc[o] = "fill"
        /\ GoTo(o, "rename")
        /\ \E new \in {snap[o], {Torn}} :
            /\ new = {Torn} => old \notin {{}, snap[o]}
            /\ content' = [content EXCEPT ![fd[o]] = new]
        /\ UNCHANGED <<memVars, snap, fd, tmp, path, acked>>

\* create_dir_all or the open fails: Err, the map keeps the record.
OpenFails(o) ==
    /\ pc[o] = "write"
    /\ GoTo(o, "err")
    /\ UNCHANGED <<memVars, snap, fd, diskVars, acked>>

\* The disk is full: Err, part of the list may be in the temporary file.
FillFails(o) ==
    /\ pc[o] = "fill"
    /\ GoTo(o, "err")
    /\ \E new \in {content[fd[o]], {Torn}} : content' = [content EXCEPT ![fd[o]] = new]
    /\ UNCHANGED <<memVars, snap, fd, tmp, path, acked>>

Rename(o) ==
    /\ pc[o] = "rename"
    /\ tmp # None
    /\ GoTo(o, "ok")
    /\ path' = tmp
    /\ tmp' = None
    /\ acked' = IF Work[o] = Clear THEN acked ELSE acked \cup {Work[o]}
    /\ UNCHANGED <<memVars, snap, fd, content>>

\* No such file, or an I/O error.
RenameFails(o) ==
    /\ pc[o] = "rename"
    /\ GoTo(o, "err")
    /\ UNCHANGED <<memVars, snap, fd, diskVars, acked>>

\* The process ends; a write it was in may have left part of its bytes.
Crash ==
    /\ up = "up"
    /\ up' = "down"
    /\ pc' = [o \in Ops |-> IF pc[o] \in Busy THEN "dead" ELSE pc[o]]
    /\ \E torn \in SUBSET {fd[o] : o \in {p \in Ops : pc[p] = "fill"}} :
            content' = [o \in Ops |-> IF o \in torn THEN {Torn} ELSE content[o]]
    /\ UNCHANGED <<records, snap, fd, tmp, path, acked>>

\* FileDropEngine::init, HistoryStore::load: no file or an empty one is an
\* empty history; what does not parse makes init fail.
Load ==
    /\ up = "down"
    /\ IF path # None /\ Torn \in content[path]
       THEN up' = "broken" /\ UNCHANGED records
       ELSE up' = "up" /\ records' = IF path = None THEN {} ELSE content[path]
    /\ UNCHANGED <<opVars, diskVars, acked>>

Persist(o) ==
    \/ Snapshot(o) \/ OpenTmp(o) \/ OpenFails(o) \/ Fill(o) \/ FillFails(o)
    \/ Rename(o) \/ RenameFails(o)

Background == Crash \/ Load \/ \E o \in Ops : Persist(o)

\* Any caller may hold the store: nothing keeps two mutations apart.
Next == Background \/ \E o \in Ops : Insert(o)

Spec == Init /\ [][Next]_vars

\* Callers that wait for one mutation before they begin the next.
Quiet == \A o \in Ops : pc[o] \notin Busy

SerialNext == Background \/ \E o \in Ops : Quiet /\ Insert(o)

SerialSpec == Init /\ [][SerialNext]_vars

-----------------------------------------------------------------------------
(* Properties.                                                             *)

\* The program's variables have their types (history.rs:40-102).
TypeOK ==
    /\ up \in {"up", "down", "broken"}
    /\ records \subseteq Records
    /\ pc \in [Ops -> Busy \cup {"idle", "ok", "err", "dead"}]
    /\ snap \in [Ops -> SUBSET Records]
    /\ fd \in [Ops -> Ops \cup {None}]
    /\ content \in [Ops -> SUBSET (Records \cup {Torn})]
    /\ tmp \in Ops \cup {None}
    /\ path \in Ops \cup {None}
    /\ acked \subseteq Records
    /\ \A o \in Ops : pc[o] = "fill" => fd[o] # None

\* "a crash mid-write can never corrupt the store" (history.rs:36-39): whenever
\* the process ends, the next one loads a whole list.
StoreLoadable == path # None => Torn \notin content[path]

\* A record whose add returned Ok is in the file, and so in the history of the
\* next run, until a clear begins (history.rs:67-73, 90-101).
AckedDurable == acked # {} => (path # None /\ acked \subseteq content[path])

\* Between the mutations, memory holds at least what was acknowledged: a
\* persist can only lose what a failed or interrupted call was to add.
AckedInMemory == up = "up" => acked \subseteq records

\* A mutation alone on the store writes to a file that is not the history.
SoleWriter ==
    /\ \A o, p \in Ops : (pc[o] \in Busy /\ pc[p] \in Busy) => o = p
    /\ tmp # None => tmp # path
    /\ \A o \in Ops : pc[o] = "idle" => o # tmp /\ o # path
    /\ \A o \in Ops : pc[o] \in {"fill", "rename"} => fd[o] = tmp /\ tmp # None
    /\ \A o \in Ops : pc[o] = "fill" => content[tmp] = {}
    /\ \A o \in Ops : pc[o] \in {"write", "fill", "rename"} => snap[o] = records
    /\ \A o \in Ops : pc[o] = "rename" => content[tmp] = records
    /\ \A o \in Ops : pc[o] \in Busy =>
            up = "up" /\ (Work[o] # Clear => Work[o] \in records) /\ o # path
    /\ \A o \in Ops : (pc[o] = "inserted" \/ pc[o] = "write") => o # tmp

\* The inductive invariant behind StoreLoadable and AckedDurable (history.rs:67-101).
IInv == SoleWriter /\ StoreLoadable /\ AckedDurable /\ AckedInMemory
=============================================================================
