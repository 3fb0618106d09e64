----------------------------- MODULE SendQueue ------------------------------
(***************************************************************************)
(* The sending half: rust/filedrop-core/src/transfer/queue.rs, client.rs   *)
(* and the calls send_files, run_queued_send, pause_transfer,              *)
(* resume_transfer and cancel_transfer of rust/filedrop-ffi/src/api/mod.rs.*)
(*                                                                         *)
(* send_files gives every file a transfer id, queues an entry under it and *)
(* spawns a task for it.  A task first asks the queue for "the next" entry,*)
(* which need not be its own, gets the session made for that entry, and    *)
(* then sends its own file.  An entry, its session and the task spawned    *)
(* for it all have the same id; a file is counted in chunks.               *)
(***************************************************************************)
EXTENDS Integers, Sequences, FiniteSets, Functions

CONSTANTS
    Tasks,          \* transfer ids, one task each
    Calls,          \* calls of send_files
    Batch,          \* the files of each call, in order
    MaxParallel,    \* MAX_PARALLEL_TRANSFERS
    FileSize,       \* chunks of each file
    None

ASSUME SendQueueAssumption ==
    /\ IsFiniteSet(Tasks)
    /\ Batch \in [Calls -> Seq(Tasks)]
    /\ MaxParallel \in Nat
    /\ FileSize \in [Tasks -> Nat]
    /\ None \notin Tasks

VARIABLES
    queued,     \* how many files of its batch each call has queued
    result,     \* what each call returned
    pending,    \* TransferQueue::pending
    active,     \* TransferQueue::active, by entry id
    permits,    \* TransferQueue::permits
    pc,         \* where each task is in run_queued_send
    popped,     \* the entry a task got from the queue, and whose session it uses
    sent,       \* chunks of its own file a task has read for its request
    counted,    \* bytes_transferred of each entry's session
    paused, cancelled,  \* the sessions with the flag set
    pausing,    \* the sessions a call of pause_transfer has found, and not yet paused
    reply,      \* what the receiver answered a task
    shown       \* the last event emitted for each transfer

callVars == <<queued, result>>
sessionVars == <<counted, paused, cancelled, pausing>>
vars == <<callVars, pending, active, permits, pc, popped, sent, sessionVars, reply, shown>>

Holding == {"permit", "popped", "active", "sending", "answered", "settled", "finished"}

Init ==
    /\ queued = [c \in Calls |-> 0]
    /\ result = [c \in Calls |-> "running"]
    /\ pending = <<>>
    /\ active = {}
    /\ permits = MaxParallel
    /\ pc = [t \in Tasks |-> "new"]
    /\ popped = [t \in Tasks |-> None]
    /\ sent = [t \in Tasks |-> 0]
    /\ counted = [t \in Tasks |-> 0]
    /\ paused = {}
    /\ cancelled = {}
    /\ pausing = {}
    /\ reply = [t \in Tasks |-> None]
    /\ shown = [t \in Tasks |-> None]

GoTo(t, label) == pc' = [pc EXCEPT ![t] = label]

-----------------------------------------------------------------------------
(* send_files.                                                             *)

\* Mutant of Enqueue: the task is spawned, the entry is not queued.
EnqueueOnlySpawns(c) ==
    LET t == Batch[c][queued[c] + 1]
    IN  /\ result[c] = "running"
        /\ queued[c] < Len(Batch[c])
        /\ pc[t] = "new"
        /\ queued' = [queued EXCEPT ![c] = @ + 1]
        /\ GoTo(t, "waiting")
        /\ UNCHANGED <<result, pending, active, permits, popped, sent, sessionVars, reply, shown>>

\* Metadata of the next file read: under a fresh id its entry is queued and its task spawned.
Enqueue(c) ==
    LET t == Batch[c][queued[c] + 1]
    IN  /\ result[c] = "running"
        /\ queued[c] < Len(Batch[c])
        /\ pc[t] = "new"
        /\ queued' = [queued EXCEPT ![c] = @ + 1]
        /\ pending' = Append(pending, t)
        /\ GoTo(t, "waiting")
        /\ UNCHANGED <<result, active, permits, popped, sent, sessionVars, reply, shown>>

\* The metadata of the next file cannot be read: Err, what was queued before stays queued.
CallFails(c) ==
    /\ result[c] = "running"
    /\ queued[c] < Len(Batch[c])
    /\ result' = [result EXCEPT ![c] = "err"]
    /\ UNCHANGED <<queued, pending, active, permits, pc, popped, sent, sessionVars, reply, shown>>

CallReturns(c) ==
    /\ result[c] = "running"
    /\ queued[c] = Len(Batch[c])
    /\ result' = [result EXCEPT ![c] = "ok"]
    /\ UNCHANGED <<queued, pending, active, permits, pc, popped, sent, sessionVars, reply, shown>>

-----------------------------------------------------------------------------
(* TransferQueue::next.                                                    *)

\* Mutant of Acquire: no permit is asked for.
AcquireFreely(t) ==
    /\ pc[t] = "waiting"
    /\ GoTo(t, "permit")
    /\ UNCHANGED <<callVars, pending, active, permits, popped, sent, sessionVars, reply, shown>>

\* Mutant of Acquire: the last permit is given twice.
AcquireOneTooMany(t) ==
    /\ pc[t] = "waiting"
    /\ permits >= 0
    /\ permits' = permits - 1
    /\ GoTo(t, "permit")
    /\ UNCHANGED <<callVars, pending, active, popped, sent, sessionVars, reply, shown>>

Acquire(t) ==
    /\ pc[t] = "waiting"
    /\ permits > 0
    /\ permits' = permits - 1
    /\ GoTo(t, "permit")
    /\ UNCHANGED <<callVars, pending, active, popped, sent, sessionVars, reply, shown>>

\* Mutant of Pop: the entry is read, not removed.
PopPeeks(t) ==
    /\ pc[t] = "permit"
    /\ pending # <<>>
    /\ popped' = [popped EXCEPT ![t] = Head(pending)]
    /\ GoTo(t, "popped")
    /\ UNCHANGED <<callVars, pending, active, permits, sent, sessionVars, reply, shown>>

\* pop_front: the oldest entry, whoever it was queued for.  On an empty queue
\* the permit goes back and the task ends without a word.
Pop(t) ==
    /\ pc[t] = "permit"
    /\ IF pending = <<>>
       THEN /\ permits' = permits + 1
            /\ GoTo(t, "stranded")
            /\ UNCHANGED <<pending, popped>>
       ELSE /\ popped' = [popped EXCEPT ![t] = Head(pending)]
            /\ pending' = Tail(pending)
            /\ GoTo(t, "popped")
            /\ UNCHANGED permits
    /\ UNCHANGED <<callVars, active, sent, sessionVars, reply, shown>>

PushActive(t) ==
    /\ pc[t] = "popped"
    /\ active' = active \cup {popped[t]}
    /\ GoTo(t, "active")
    /\ UNCHANGED <<callVars, pending, permits, popped, sent, sessionVars, reply, shown>>

-----------------------------------------------------------------------------
(* run_queued_send and send_file.                                          *)

\* TransferStarted carries the task's own id.
Start(t) ==
    /\ pc[t] = "active"
    /\ shown' = [shown EXCEPT ![t] = "started"]
    /\ GoTo(t, "sending")
    /\ UNCHANGED <<callVars, pending, active, permits, popped, sent, sessionVars, reply>>

\* ProgressReader::poll_read: a chunk of the task's file is counted in the
\* session of the entry it popped; neither flag of the session is looked at.
SendChunk(t) ==
    /\ pc[t] = "sending"
    /\ sent[t] < FileSize[t]
    /\ sent' = [sent EXCEPT ![t] = @ + 1]
    /\ counted' = [counted EXCEPT ![popped[t]] = @ + 1]
    /\ UNCHANGED <<callVars, pending, active, permits, pc, popped, paused, cancelled, pausing, reply, shown>>

\* The answer of the receiver once it has the whole body: 200, or 206 when the
\* file's size was not the announced one, which is_success() takes for success too.
Answered(t) ==
    /\ pc[t] = "sending"
    /\ sent[t] = FileSize[t]
    /\ \E code \in {"complete", "partial"} : reply' = [reply EXCEPT ![t] = code]
    /\ GoTo(t, "answered")
    /\ UNCHANGED <<callVars, pending, active, permits, popped, sent, sessionVars, shown>>

\* metadata, hash or open failed, the connection broke, or the receiver
\* refused (4xx, 5xx), at any point of the request.
SendFails(t) ==
    /\ pc[t] = "sending"
    /\ reply' = [reply EXCEPT ![t] = "error"]
    /\ GoTo(t, "answered")
    /\ UNCHANGED <<callVars, pending, active, permits, popped, sent, sessionVars, shown>>

\* Mutant of Settle: the error branch returns early, with no event.
SettleOnlySuccess(t) ==
    /\ pc[t] = "answered"
    /\ shown' = [shown EXCEPT ![t] = IF reply[t] = "error" THEN @ ELSE "completed"]
    /\ GoTo(t, "settled")
    /\ UNCHANGED <<callVars, pending, active, permits, popped, sent, sessionVars, reply>>

Settle(t) ==
    /\ pc[t] = "answered"
    /\ shown' = [shown EXCEPT ![t] = IF reply[t] = "error" THEN "failed" ELSE "completed"]
    /\ GoTo(t, "settled")
    /\ UNCHANGED <<callVars, pending, active, permits, popped, sent, sessionVars, reply>>

\* mark_finished(transfer_id): removes the entry with the task's own id, if it is there.
MarkFinished(t) ==
    /\ pc[t] = "settled"
    /\ active' = active \ {t}
    /\ GoTo(t, "finished")
    /\ UNCHANGED <<callVars, pending, permits, popped, sent, sessionVars, reply, shown>>

\* Mutant of Release: the permit is forgotten.
ReleaseForgets(t) ==
    /\ pc[t] = "finished"
    /\ GoTo(t, "done")
    /\ UNCHANGED <<callVars, pending, active, permits, popped, sent, sessionVars, reply, shown>>

\* _permit is dropped at the end of the task.
Release(t) ==
    /\ pc[t] = "finished"
    /\ permits' = permits + 1
    /\ GoTo(t, "done")
    /\ UNCHANGED <<callVars, pending, active, popped, sent, sessionVars, reply, shown>>

-----------------------------------------------------------------------------
(* pause_transfer, resume_transfer, cancel_transfer: find_session(id).     *)

\* pause_transfer found the session; other tasks run before it goes on.
PauseFinds(t) ==
    /\ t \in active
    /\ pausing' = pausing \cup {t}
    /\ UNCHANGED <<callVars, pending, active, permits, pc, popped, sent, counted, paused, cancelled, reply, shown>>

\* The flag is set and TransferPaused emitted, whatever became of the transfer.
Pause(t) ==
    /\ t \in pausing
    /\ pausing' = pausing \ {t}
    /\ paused' = paused \cup {t}
    /\ shown' = [shown EXCEPT ![t] = "paused"]
    /\ UNCHANGED <<callVars, pending, active, permits, pc, popped, sent, counted, cancelled, reply>>

Resume(t) ==
    /\ t \in active
    /\ paused' = paused \ {t}
    /\ UNCHANGED <<callVars, pending, active, permits, pc, popped, sent, counted, cancelled, pausing, reply, shown>>

Cancel(t) ==
    /\ t \in active
    /\ cancelled' = cancelled \cup {t}
    /\ UNCHANGED <<callVars, pending, active, permits, pc, popped, sent, counted, paused, pausing, reply, shown>>

-----------------------------------------------------------------------------
CallStep(c) == Enqueue(c) \/ CallFails(c) \/ CallReturns(c)

TaskStep(t) ==
    \/ Acquire(t) \/ Pop(t) \/ PushActive(t)
    \/ Start(t) \/ SendChunk(t) \/ Answered(t) \/ SendFails(t)
    \/ Settle(t) \/ MarkFinished(t) \/ Release(t)

Control(t) == PauseFinds(t) \/ Pause(t) \/ Resume(t) \/ Cancel(t)

Next ==
    \/ \E c \in Calls : CallStep(c)
    \/ \E t \in Tasks : TaskStep(t) \/ Control(t)

Spec == Init /\ [][Next]_vars

-----------------------------------------------------------------------------
(* Properties.                                                             *)

\* The program's variables have their types (queue.rs:33-47, api/mod.rs:218-308).
TypeOK ==
    /\ queued \in [Calls -> Nat]
    /\ result \in [Calls -> {"running", "ok", "err"}]
    /\ pending \in Seq(Tasks)
    /\ active \subseteq Tasks
    /\ permits \in Nat
    /\ pc \in [Tasks -> {"new", "waiting", "stranded", "done"} \cup Holding]
    /\ popped \in [Tasks -> Tasks \cup {None}]
    /\ sent \in [Tasks -> Nat]
    /\ counted \in [Tasks -> Nat]
    /\ paused \subseteq Tasks
    /\ cancelled \subseteq Tasks
    /\ pausing \subseteq Tasks
    /\ reply \in [Tasks -> {None, "complete", "partial", "error"}]
    /\ shown \in [Tasks -> {None, "started", "paused", "completed", "failed"}]
    /\ \A t \in Tasks : pc[t] \in Holding \ {"permit"} => popped[t] # None

Holders == {t \in Tasks : pc[t] \in Holding}

\* A permit is free or held by one task that will give it back, whatever the
\* outcome of its transfer (queue.rs:56-72, api/mod.rs:265-308).
PermitsBalanced == permits + Cardinality(Holders) = MaxParallel

\* Every queued entry is either waiting or was popped by exactly one task.
EntriesConserved ==
    /\ \A i, j \in 1..Len(pending) : pending[i] = pending[j] => i = j
    /\ \A t, u \in Tasks : (popped[t] # None /\ popped[t] = popped[u]) => t = u
    /\ \A t \in Tasks, i \in 1..Len(pending) : popped[t] # pending[i]
    /\ \A t \in Tasks : pc[t] # "new" <=>
            \/ \E i \in 1..Len(pending) : pending[i] = t
            \/ \E u \in Tasks : popped[u] = t

\* The tasks that have not had their entry from the queue.
Unserved == {t \in Tasks : pc[t] \in {"waiting", "permit"}}

\* There is one pending entry for every task still to pop one.
OneEntryEach == Len(pending) = Cardinality(Unserved)

\* next() never finds the queue empty: no task ends without an event, even
\* though the tasks take each other's entries (queue.rs:58, api/mod.rs:273-275).
NoneStranded == \A t \in Tasks : pc[t] # "stranded"

Phase(t) ==
    CASE pc[t] = "new" -> "new"
      [] pc[t] = "waiting" -> "queued"
      [] pc[t] \in {"permit", "popped", "active", "sending", "answered"} -> "running"
      [] pc[t] = "stranded" -> "lost"
      [] OTHER -> IF reply[t] = "error" THEN "failed" ELSE "completed"

Pool == INSTANCE TransferPool WITH phase <- [t \in Tasks |-> Phase(t)]

\* The queue, its semaphore and the tasks implement a pool that starts every
\* file once and runs at most MaxParallel of them (queue.rs:13-16).
ImplementsPool == Pool!Spec

\* Every queued file comes to an end its caller hears of, completed or failed,
\* although failures, and calls that fail midway, leave entries behind.
EventuallySettled ==
    \A t \in Tasks : pc[t] = "waiting" ~> shown[t] \in {"completed", "failed"}

-----------------------------------------------------------------------------
(* What the documentation says and the code does not do.                   *)

\* "Updates session's byte counter as data leaves the socket" (client.rs:45-47),
\* "progress snapshot for an active transfer" (FFI_INTERFACE.md:50): what
\* get_transfer_status reports under an id is the progress of that transfer.
ProgressIsOwn == \A t \in active : counted[t] = sent[t]
=============================================================================
