------------------------------ MODULE Receiver ------------------------------
(***************************************************************************)
(* The receiving half of the transfer engine:                              *)
(* rust/filedrop-core/src/transfer/server.rs (the handler of               *)
(* POST /api/v1/transfer/:id and of GET .../status), session.rs and the    *)
(* staging/received directories of storage/paths.rs.                       *)
(*                                                                         *)
(* Every POST runs as a task of its own (a handler).  A step of this       *)
(* module is what a handler does between two awaits, so that the handlers  *)
(* interleave, are dropped by the HTTP library, or die with the process    *)
(* exactly where they can.  A file is a sequence of cells, one cell per    *)
(* chunk; the content of a source file is named by a version of it, and    *)
(* SHA-256 is taken to be collision-free: the digest of a sequence of      *)
(* cells is the sequence.                                                  *)
(*                                                                         *)
(* tokio::fs::File::write_all returns once the chunk is in the file's      *)
(* buffer and its write is queued on the blocking pool.  The next write or *)
(* flush waits for it and reports its error; a file that is dropped leaves *)
(* it to land on its own.                                                  *)
(***************************************************************************)
EXTENDS Integers, Sequences, FiniteSets

CONSTANTS
    Handlers,   \* the POST requests the server gets; also names the inodes they create
    Ids,        \* transfer ids
    Names,      \* sanitized file names in the received-files directory
    FileName,   \* the name every request of a transfer id carries
    Versions,   \* successive contents of the source files
    FileSize,   \* the number of cells of each version
    Requests,   \* the POST requests a peer may send
    None,       \* absence: no file, no session, no request
    NoSha,      \* the optional X-FileDrop-Sha256 header is absent
    Hole        \* a cell never written: a seek past the end leaves zeros

RequestType == [id : Ids, total : Nat, sha : Versions \cup {NoSha},
                offset : Nat, body : Versions]

ASSUME ReceiverAssumption ==
    /\ FileName \in [Ids -> Names]
    /\ FileSize \in [Versions -> Nat]
    /\ Requests \subseteq RequestType
    /\ None \notin Handlers \cup Nat
    /\ None \notin Requests
    /\ NoSha \notin Versions
    /\ Hole \notin Versions

VARIABLES
    pc,         \* where each handler is in receive_transfer
    req,        \* its request: headers and body
    fd,         \* the inode its file handle is open on
    written,    \* its `written` counter
    hashed,     \* the cells its Sha256Hasher was fed
    resp,       \* the status code it decided on
    inflight,   \* the handlers whose last chunk is queued, not yet on disk
    paused, cancelled, bytes,   \* the flags and count of the TransferSession each created
    sessions,   \* AppState::sessions
    content,    \* inode -> cells on disk
    staging,    \* <id>.part -> inode
    final,      \* received file -> inode
    committer,  \* observer: the handler whose rename put a received file there
    prior       \* observer: the .part a handler found, after truncation

handlerVars == <<pc, req, fd, written, hashed, resp, inflight>>
sessionVars == <<paused, cancelled, bytes, sessions>>
diskVars == <<content, staging, final>>
observers == <<committer, prior>>
vars == <<handlerVars, sessionVars, diskVars, observers>>

Cells == Versions \cup {Hole}
Codes == {200, 206, 400, 422, 499, 500}
Working == {"opened", "stream", "hold", "flushed", "verify", "unlink", "rename", "commit"}

Live(h) == pc[h] \in Working

\* The whole content of a version, and so its digest.
Digest(v) == [i \in 1..FileSize[v] |-> v]

\* write_all of one cell at position p: overwrites, extends, or leaves a hole.
WriteAt(c, p, x) ==
    [i \in 1..(IF Len(c) < p THEN p ELSE Len(c)) |->
        IF i = p THEN x ELSE IF i <= Len(c) THEN c[i] ELSE Hole]

Init ==
    /\ pc = [h \in Handlers |-> "idle"]
    /\ req = [h \in Handlers |-> None]
    /\ fd = [h \in Handlers |-> None]
    /\ written = [h \in Handlers |-> 0]
    /\ hashed = [h \in Handlers |-> <<>>]
    /\ resp = [h \in Handlers |-> None]
    /\ inflight = {}
    /\ paused = {}
    /\ cancelled = {}
    /\ bytes = [h \in Handlers |-> 0]
    /\ sessions = [t \in Ids |-> None]
    /\ content = [h \in Handlers |-> <<>>]
    /\ staging = [t \in Ids |-> None]
    /\ final = [n \in Names |-> None]
    /\ committer = [n \in Names |-> None]
    /\ prior = [h \in Handlers |-> <<>>]

-----------------------------------------------------------------------------
(* Steps shared by the handlers' branches.                                 *)

GoTo(h, label) == pc' = [pc EXCEPT ![h] = label]

Answer(h, code) == resp' = [resp EXCEPT ![h] = code]

\* state.sessions.write().await.remove(&transfer_id): removes whatever session
\* is registered under the id, be it this handler's or another's.
Unregister(h) ==
    /\ sessions' = [sessions EXCEPT ![req[h].id] = None]
    /\ UNCHANGED <<paused, cancelled, bytes>>

-----------------------------------------------------------------------------
(* The prologue: headers, staging file, session.                           *)

\* A missing or unparsable header (400), or an I/O error of create_dir_all or open (500).
RefuseRequest(h) ==
    /\ pc[h] = "idle"
    /\ GoTo(h, "done")
    /\ \E code \in {400, 500} : Answer(h, code)
    /\ UNCHANGED <<req, fd, written, hashed, inflight, sessionVars, diskVars, observers>>

\* OpenOptions::create(true).truncate(resume_offset == 0), then seek.
Open(h, r) ==
    LET inode == IF staging[r.id] = None THEN h ELSE staging[r.id]
        found == IF r.offset = 0 THEN <<>> ELSE content[inode]
    IN  /\ pc[h] = "idle"
        /\ GoTo(h, "opened")
        /\ req' = [req EXCEPT ![h] = r]
        /\ staging' = [staging EXCEPT ![r.id] = inode]
        /\ content' = [content EXCEPT ![inode] = found]
        /\ fd' = [fd EXCEPT ![h] = inode]
        /\ written' = [written EXCEPT ![h] = r.offset]
        /\ prior' = [prior EXCEPT ![h] = found]
        /\ UNCHANGED <<hashed, resp, inflight, sessionVars, final, committer>>

\* The seek to the resume offset fails: 500, the .part file stays.
SeekFails(h) ==
    /\ pc[h] = "opened"
    /\ req[h].offset > 0
    /\ GoTo(h, "done")
    /\ Answer(h, 500)
    /\ UNCHANGED <<req, fd, written, hashed, inflight, sessionVars, diskVars, observers>>

\* Mutant of Register: one byte too few, which wraps below zero.
RegisterOffByOne(h) ==
    /\ pc[h] = "opened"
    /\ GoTo(h, "stream")
    /\ bytes' = [bytes EXCEPT ![h] = req[h].offset - 1]
    /\ sessions' = [sessions EXCEPT ![req[h].id] = h]
    /\ UNCHANGED <<req, fd, written, hashed, resp, inflight, paused, cancelled, diskVars, observers>>

\* Mutant of Register: entry(..).or_insert, a session left in the map stays.
RegisterKeepsLeftover(h) ==
    /\ pc[h] = "opened"
    /\ GoTo(h, "stream")
    /\ bytes' = [bytes EXCEPT ![h] = req[h].offset]
    /\ sessions' = [sessions EXCEPT ![req[h].id] = IF @ = None THEN h ELSE @]
    /\ UNCHANGED <<req, fd, written, hashed, resp, inflight, paused, cancelled, diskVars, observers>>

\* TransferSession::new(..).with_initial_bytes(offset), inserted in the map.
Register(h) ==
    /\ pc[h] = "opened"
    /\ GoTo(h, "stream")
    /\ bytes' = [bytes EXCEPT ![h] = req[h].offset]
    /\ sessions' = [sessions EXCEPT ![req[h].id] = h]
    /\ UNCHANGED <<req, fd, written, hashed, resp, inflight, paused, cancelled, diskVars, observers>>

-----------------------------------------------------------------------------
(* The chunk loop.                                                         *)

HasChunk(h) == written[h] < FileSize[req[h].body]

\* A chunk arrived and the session is cancelled: 499, the .part file goes next.
AbortCancelled(h) ==
    /\ pc[h] = "stream"
    /\ HasChunk(h)
    /\ h \in cancelled
    /\ GoTo(h, "unlink")
    /\ Answer(h, 499)
    /\ Unregister(h)
    /\ UNCHANGED <<req, fd, written, hashed, inflight, diskVars, observers>>

\* A chunk arrived and is held while the session is paused.
TakeChunk(h) ==
    /\ pc[h] = "stream"
    /\ HasChunk(h)
    /\ h \notin cancelled
    /\ GoTo(h, "hold")
    /\ UNCHANGED <<req, fd, written, hashed, resp, inflight, sessionVars, diskVars, observers>>

\* Mutant of WriteChunk: the pause loop also waits while the session is cancelled.
WriteChunkUnlessCancelled(h) ==
    /\ pc[h] = "hold"
    /\ h \notin paused \cup cancelled
    /\ h \notin inflight
    /\ GoTo(h, "stream")
    /\ hashed' = [hashed EXCEPT ![h] = Append(@, req[h].body)]
    /\ inflight' = inflight \cup {h}
    /\ written' = [written EXCEPT ![h] = @ + 1]
    /\ bytes' = [bytes EXCEPT ![h] = @ + 1]
    /\ UNCHANGED <<req, fd, resp, paused, cancelled, sessions, diskVars, observers>>

\* The pause loop lets go: the chunk is hashed, queued and counted.
WriteChunk(h) ==
    /\ pc[h] = "hold"
    /\ h \notin paused
    /\ h \notin inflight
    /\ GoTo(h, "stream")
    /\ hashed' = [hashed EXCEPT ![h] = Append(@, req[h].body)]
    /\ inflight' = inflight \cup {h}
    /\ written' = [written EXCEPT ![h] = @ + 1]
    /\ bytes' = [bytes EXCEPT ![h] = @ + 1]
    /\ UNCHANGED <<req, fd, resp, paused, cancelled, sessions, diskVars, observers>>

\* The blocking pool writes the queued chunk, whatever became of the handler.
Land(h) ==
    /\ h \in inflight
    /\ inflight' = inflight \ {h}
    /\ content' = [content EXCEPT ![fd[h]] = WriteAt(@, written[h], req[h].body)]
    /\ UNCHANGED <<pc, req, fd, written, hashed, resp, sessionVars, staging, final, observers>>

\* write_all reports that the chunk before failed: 500, the .part file stays.
WriteFails(h) ==
    /\ pc[h] = "hold"
    /\ h \notin paused
    /\ h \in inflight
    /\ inflight' = inflight \ {h}
    /\ GoTo(h, "done")
    /\ Answer(h, 500)
    /\ Unregister(h)
    /\ UNCHANGED <<req, fd, written, hashed, diskVars, observers>>

\* The connection broke while the body was read: 400, the .part file stays.
BodyError(h) ==
    /\ pc[h] = "stream"
    /\ GoTo(h, "done")
    /\ Answer(h, 400)
    /\ Unregister(h)
    /\ UNCHANGED <<req, fd, written, hashed, inflight, diskVars, observers>>

\* End of the body; flush waits for the last chunk.
BodyEnd(h) ==
    /\ pc[h] = "stream"
    /\ ~HasChunk(h)
    /\ h \notin inflight
    /\ GoTo(h, "flushed")
    /\ UNCHANGED <<req, fd, written, hashed, resp, inflight, sessionVars, diskVars, observers>>

\* flush reports that the last chunk failed: 500, and the session stays in the map.
FlushFails(h) ==
    /\ pc[h] = "stream"
    /\ ~HasChunk(h)
    /\ h \in inflight
    /\ inflight' = inflight \ {h}
    /\ GoTo(h, "done")
    /\ Answer(h, 500)
    /\ UNCHANGED <<req, fd, written, hashed, sessionVars, diskVars, observers>>

-----------------------------------------------------------------------------
(* The epilogue: size, checksum, rename.                                   *)

\* written != total_size: 206, the .part file stays for a resume.
Partial(h) ==
    /\ pc[h] = "flushed"
    /\ written[h] # req[h].total
    /\ GoTo(h, "done")
    /\ Answer(h, 206)
    /\ Unregister(h)
    /\ UNCHANGED <<req, fd, written, hashed, inflight, diskVars, observers>>

\* Mutant of SizeMatches: a resumed upload is not verified.
SizeMatchesTrustResume(h) ==
    /\ pc[h] = "flushed"
    /\ written[h] = req[h].total
    /\ GoTo(h, IF req[h].sha = NoSha \/ req[h].offset > 0 THEN "rename" ELSE "verify")
    /\ UNCHANGED <<req, fd, written, hashed, resp, inflight, sessionVars, diskVars, observers>>

SizeMatches(h) ==
    /\ pc[h] = "flushed"
    /\ written[h] = req[h].total
    /\ GoTo(h, IF req[h].sha = NoSha THEN "rename" ELSE "verify")
    /\ UNCHANGED <<req, fd, written, hashed, resp, inflight, sessionVars, diskVars, observers>>

\* Mutant of Actual: only the bytes of this request are hashed.
ActualThisRequest(h) == hashed[h]

\* A resumed upload is hashed again from disk, by path.
Actual(h) == IF req[h].offset = 0 THEN hashed[h] ELSE content[staging[req[h].id]]

Readable(h) == req[h].offset = 0 \/ staging[req[h].id] # None

VerifyMatches(h) ==
    /\ pc[h] = "verify"
    /\ Readable(h)
    /\ Actual(h) = Digest(req[h].sha)
    /\ GoTo(h, "rename")
    /\ UNCHANGED <<req, fd, written, hashed, resp, inflight, sessionVars, diskVars, observers>>

\* 422, the .part file goes next.
VerifyMismatch(h) ==
    /\ pc[h] = "verify"
    /\ Readable(h)
    /\ Actual(h) # Digest(req[h].sha)
    /\ GoTo(h, "unlink")
    /\ Answer(h, 422)
    /\ Unregister(h)
    /\ UNCHANGED <<req, fd, written, hashed, inflight, diskVars, observers>>

\* sha256_file failed (no such file, or an I/O error): 500, the session stays in the map.
VerifyFails(h) ==
    /\ pc[h] = "verify"
    /\ req[h].offset > 0
    /\ GoTo(h, "done")
    /\ Answer(h, 500)
    /\ UNCHANGED <<req, fd, written, hashed, inflight, sessionVars, diskVars, observers>>

\* remove_file, whose failure is ignored; the answer was decided before.
Unlink(h) ==
    /\ pc[h] = "unlink"
    /\ GoTo(h, "done")
    /\ \/ staging' = [staging EXCEPT ![req[h].id] = None]
       \/ UNCHANGED staging
    /\ UNCHANGED <<req, fd, written, hashed, resp, inflight, sessionVars, content, final, observers>>

\* Mutant of Rename: a hard link, the .part name stays.
RenameLinks(h) ==
    LET name == FileName[req[h].id]
    IN  /\ pc[h] = "rename"
        /\ staging[req[h].id] # None
        /\ GoTo(h, "commit")
        /\ final' = [final EXCEPT ![name] = staging[req[h].id]]
        /\ committer' = [committer EXCEPT ![name] = h]
        /\ UNCHANGED <<req, fd, written, hashed, resp, inflight, sessionVars, content, staging, prior>>

Rename(h) ==
    LET name == FileName[req[h].id]
    IN  /\ pc[h] = "rename"
        /\ staging[req[h].id] # None
        /\ GoTo(h, "commit")
        /\ final' = [final EXCEPT ![name] = staging[req[h].id]]
        /\ staging' = [staging EXCEPT ![req[h].id] = None]
        /\ committer' = [committer EXCEPT ![name] = h]
        /\ UNCHANGED <<req, fd, written, hashed, resp, inflight, sessionVars, content, prior>>

\* rename failed (the .part is gone, or an I/O error): 500, the session stays in the map.
RenameFails(h) ==
    /\ pc[h] = "rename"
    /\ GoTo(h, "done")
    /\ Answer(h, 500)
    /\ UNCHANGED <<req, fd, written, hashed, inflight, sessionVars, diskVars, observers>>

Complete(h) ==
    /\ pc[h] = "commit"
    /\ GoTo(h, "done")
    /\ Answer(h, 200)
    /\ Unregister(h)
    /\ UNCHANGED <<req, fd, written, hashed, inflight, diskVars, observers>>

-----------------------------------------------------------------------------
(* The environment of a handler.                                           *)

\* The HTTP library drops the handler's future when its connection closes:
\* nothing after the await runs, so the session stays in the map.
Drop(h) ==
    /\ Live(h)
    /\ GoTo(h, "dropped")
    /\ UNCHANGED <<req, fd, written, hashed, resp, inflight, sessionVars, diskVars, observers>>

\* The process dies and FileDropEngine::init builds an empty session map over the same disk.
Crash ==
    /\ \E h \in Handlers : Live(h)
    /\ pc' = [h \in Handlers |-> IF Live(h) THEN "dropped" ELSE pc[h]]
    /\ sessions' = [t \in Ids |-> None]
    /\ inflight' = {}
    /\ UNCHANGED <<req, fd, written, hashed, resp, paused, cancelled, bytes, diskVars, observers>>

\* TransferSession::pause / resume / cancel, through the handle found in the map.
\* The handler reads both flags, and /status the first one; no code of the
\* repository sets them on a receiving session.
Pause(t) ==
    /\ sessions[t] # None
    /\ paused' = paused \cup {sessions[t]}
    /\ UNCHANGED <<handlerVars, cancelled, bytes, sessions, diskVars, observers>>

Resume(t) ==
    /\ sessions[t] # None
    /\ paused' = paused \ {sessions[t]}
    /\ UNCHANGED <<handlerVars, cancelled, bytes, sessions, diskVars, observers>>

Cancel(t) ==
    /\ sessions[t] # None
    /\ cancelled' = cancelled \cup {sessions[t]}
    /\ UNCHANGED <<handlerVars, paused, bytes, sessions, diskVars, observers>>

-----------------------------------------------------------------------------
Loop(h) ==
    \/ AbortCancelled(h) \/ TakeChunk(h) \/ WriteChunk(h)
    \/ WriteFails(h) \/ BodyError(h) \/ BodyEnd(h) \/ FlushFails(h)

Epilogue(h) ==
    \/ Partial(h) \/ SizeMatches(h)
    \/ VerifyMatches(h) \/ VerifyMismatch(h) \/ VerifyFails(h)
    \/ Unlink(h) \/ Rename(h) \/ RenameFails(h) \/ Complete(h)

HandlerStep(h) == Register(h) \/ SeekFails(h) \/ Loop(h) \/ Epilogue(h)

Control(t) == Pause(t) \/ Resume(t) \/ Cancel(t)

Background ==
    \/ \E h \in Handlers : RefuseRequest(h) \/ HandlerStep(h) \/ Land(h) \/ Drop(h)
    \/ \E t \in Ids : Control(t)
    \/ Crash

\* Nothing in the server keeps two requests of one transfer apart.
Next == Background \/ \E h \in Handlers, r \in Requests : Open(h, r)

Spec == Init /\ [][Next]_vars

\* A sender that retries a transfer only once the server has finished with
\* the previous request of it, its last write included.
Unattended(t) == \A h \in Handlers : (Live(h) \/ h \in inflight) => req[h].id # t

SerialNext ==
    \/ Background
    \/ \E h \in Handlers, r \in Requests : Unattended(r.id) /\ Open(h, r)

SerialSpec == Init /\ [][SerialNext]_vars

\* The runtime polls every task that is ready, and a body is eventually
\* delivered, ended or broken by its peer; nobody is obliged to pause,
\* resume, cancel, drop or crash.
Fairness == \A h \in Handlers : WF_vars(HandlerStep(h)) /\ WF_vars(Land(h))

FairSerialSpec == SerialSpec /\ Fairness

-----------------------------------------------------------------------------
(* Properties.                                                             *)

HandlerTypes ==
    /\ pc \in [Handlers -> Working \cup {"idle", "done", "dropped"}]
    /\ req \in [Handlers -> Requests \cup {None}]
    /\ fd \in [Handlers -> Handlers \cup {None}]
    /\ written \in [Handlers -> Nat]
    /\ hashed \in [Handlers -> Seq(Versions)]
    /\ resp \in [Handlers -> Codes \cup {None}]
    /\ inflight \subseteq Handlers

SessionTypes ==
    /\ paused \subseteq Handlers
    /\ cancelled \subseteq Handlers
    /\ bytes \in [Handlers -> Nat]
    /\ sessions \in [Ids -> Handlers \cup {None}]

DiskTypes ==
    /\ content \in [Handlers -> Seq(Cells)]
    /\ staging \in [Ids -> Handlers \cup {None}]
    /\ final \in [Names -> Handlers \cup {None}]

ObserverTypes ==
    /\ committer \in [Names -> Handlers \cup {None}]
    /\ prior \in [Handlers -> Seq(Cells)]

\* What is at work has a request and a file, and what is received has a committer.
Anchored ==
    /\ \A h \in Handlers : Live(h) \/ h \in inflight => req[h] # None /\ fd[h] # None
    /\ \A n \in Names : final[n] # None => committer[n] # None /\ req[committer[n]] # None

\* The program's variables have their types (server.rs:97-254).
TypeOK == HandlerTypes /\ SessionTypes /\ DiskTypes /\ ObserverTypes /\ Anchored

\* A received file whose sender announced a checksum has, on disk, exactly the
\* content that checksum announced: never a torn, mixed or half-written file,
\* whatever failed or crashed on the way (server.rs:223-250, paths.rs:29-31).
ReceivedVerified ==
    \A n \in Names :
        (final[n] # None /\ req[committer[n]].sha # NoSha)
            => content[final[n]] = Digest(req[committer[n]].sha)

\* Once a file is in the received-files directory no later step writes to it;
\* another transfer of the same name replaces it as a whole (server.rs:198, 248).
ReceivedImmutable ==
    [][\A n \in Names : final[n] # None => content'[final[n]] = content[final[n]]]_vars

\* The headers describe the body, and the .part found is a prefix of it that
\* reaches at least to the resume offset.
Honest(h) ==
    /\ req[h].sha = req[h].body
    /\ req[h].total = FileSize[req[h].body]
    /\ req[h].offset <= Len(prior[h])
    /\ Len(prior[h]) <= req[h].total
    /\ \A i \in 1..Len(prior[h]) : prior[h][i] = req[h].body

\* A faithful upload or resume is never answered 422, and so its .part is
\* never thrown away, however many interruptions came before (server.rs:229-246).
HonestNeverRejected ==
    \A h \in Handlers : (req[h] # None /\ Honest(h)) => resp[h] # 422

\* Past the prologue, up to its own removal of the session.
InService == {"stream", "hold", "flushed", "verify", "rename", "commit"}

\* The session that GET /status, pause and cancel find under a transfer id is
\* the one of the handler that serves the transfer now: never one that a failed
\* flush, a failed rename, or a dropped connection left behind, and no earlier
\* handler's remove(&transfer_id) has taken it away (server.rs:171-175, 184, 206-208).
ControlReachesHandler ==
    \A h \in Handlers : pc[h] \in InService => sessions[req[h].id] = h

\* Every request is answered, or its connection dropped, unless it is paused:
\* no branch of the handler waits for something that never comes.
EventuallyAnswered ==
    \A h \in Handlers : Live(h) ~> (~Live(h) \/ h \in paused)

\* The received-files directory as an observer sees it.
Received ==
    [n \in Names |->
        IF final[n] = None THEN None
        ELSE [sha |-> req[committer[n]].sha, data |-> content[final[n]]]]

Box == INSTANCE Inbox WITH box <- Received

\* The staging file, the in-memory or re-read digest and the rename together
\* implement an inbox into which whole, verified files fall in one step
\* (server.rs:97-254).
DeliversWhole == Box!Spec

-----------------------------------------------------------------------------
(* The inductive invariant behind ReceivedVerified and DeliversWhole.      *)

Active(h) == Live(h) \/ h \in inflight

\* A request that has not come yet owns nothing, and nobody uses its inode.
Untouched ==
    \A h \in Handlers : pc[h] = "idle" =>
        /\ hashed[h] = <<>> /\ content[h] = <<>> /\ h \notin inflight
        /\ \A g \in Handlers : fd[g] # h
        /\ \A t \in Ids : staging[t] # h
        /\ \A n \in Names : final[n] # h /\ committer[n] # h

\* No inode has two names.
OneName ==
    /\ \A t, u \in Ids : (staging[t] # None /\ staging[t] = staging[u]) => t = u
    /\ \A t \in Ids, n \in Names : staging[t] # None => staging[t] # final[n]

\* A handler, or a write it left behind, is alone on its transfer, and until
\* the rename the inode it writes to is no other transfer's and no received file's.
SoleWriter ==
    /\ \A g, h \in Handlers :
            (Active(g) /\ Active(h) /\ req[g].id = req[h].id) => g = h
    /\ \A h \in Handlers : (Active(h) /\ pc[h] # "commit") =>
            /\ Live(h) => staging[req[h].id] = fd[h]
            /\ \A n \in Names : final[n] # fd[h]
            /\ \A t \in Ids : t # req[h].id => staging[t] # fd[h]
    /\ \A h \in Handlers :
            h \in inflight => pc[h] \in {"stream", "hold", "unlink", "done", "dropped"}

\* What a fresh upload hashed is what it wrote, but for the write in flight.
HashFollowsDisk ==
    \A h \in Handlers :
        (pc[h] \in {"opened", "stream", "hold", "flushed", "verify"} /\ req[h].offset = 0) =>
            IF h \in inflight
            THEN /\ hashed[h] = Append(content[fd[h]], req[h].body)
                 /\ written[h] = Len(content[fd[h]]) + 1
            ELSE /\ hashed[h] = content[fd[h]]
                 /\ written[h] = Len(content[fd[h]])

\* A checked .part still has the content that was checked when it is renamed.
CheckedStaysChecked ==
    \A h \in Handlers :
        (pc[h] = "rename" /\ req[h].sha # NoSha) => content[fd[h]] = Digest(req[h].sha)

\* Why the verification holds at the rename: together with TypeOK and
\* ReceivedVerified this is inductive for SerialNext (server.rs:136-250).
IInv == Untouched /\ OneName /\ SoleWriter /\ HashFollowsDisk /\ CheckedStaysChecked

=============================================================================
