-------------------------- MODULE SendQueueProofs ---------------------------
(***************************************************************************)
(* Proofs about the send queue, for any number of files, calls and         *)
(* permits, and about the app on top of it, for any taps and any capacity  *)
(* of the event channel.                                                   *)
(***************************************************************************)
EXTENDS TransferBoard, FiniteSetTheorems, TLAPS

\* The entry a call queues next is a transfer id.
LEMMA NextFile ==
    ASSUME TypeOK, NEW c \in Calls, queued[c] < Len(Batch[c])
    PROVE  Batch[c][queued[c] + 1] \in Tasks /\ Len(Batch[c]) \in Nat
<1>1. Batch[c] \in Seq(Tasks) /\ queued[c] \in Nat
    BY SendQueueAssumption DEF TypeOK
<1>2. QED
    BY <1>1

LEMMA TypeStep == TypeOK /\ [Next]_vars => TypeOK'
<1> SUFFICES ASSUME TypeOK, [Next]_vars PROVE TypeOK'
    OBVIOUS
<1> USE DEF callVars, sessionVars, GoTo, Holding
<1>1. ASSUME NEW c \in Calls, Enqueue(c) PROVE TypeOK'
  <2> DEFINE t == Batch[c][queued[c] + 1]
  <2>1. t \in Tasks
      BY <1>1, NextFile DEF Enqueue
  <2> HIDE DEF t
  <2>2. /\ queued' = [queued EXCEPT ![c] = @ + 1]
        /\ pending' = Append(pending, t)
        /\ pc' = [pc EXCEPT ![t] = "waiting"]
        /\ UNCHANGED <<result, active, permits, popped, sent, counted, paused, cancelled, pausing, reply, shown>>
      BY <1>1 DEF Enqueue, t
  <2>3. pending' \in Seq(Tasks) /\ queued' \in [Calls -> Nat]
      BY <2>1, <2>2 DEF TypeOK
  <2>4. QED
      BY <2>1, <2>2, <2>3 DEF TypeOK
<1>2. ASSUME NEW c \in Calls, CallFails(c) \/ CallReturns(c) PROVE TypeOK'
    BY <1>2 DEF CallFails, CallReturns, TypeOK
<1>3. ASSUME NEW t \in Tasks, Acquire(t) PROVE TypeOK'
    BY <1>3 DEF Acquire, TypeOK
<1>4. ASSUME NEW t \in Tasks, Pop(t) PROVE TypeOK'
  <2>1. CASE pending = <<>>
    <3>1. /\ permits' = permits + 1 /\ pc' = [pc EXCEPT ![t] = "stranded"]
          /\ UNCHANGED <<queued, result, pending, active, popped, sent, counted, paused,
                         cancelled, pausing, reply, shown>>
        BY <1>4, <2>1 DEF Pop
    <3>2. QED
        BY <3>1 DEF TypeOK
  <2>2. CASE pending # <<>>
    <3>1. Head(pending) \in Tasks /\ Tail(pending) \in Seq(Tasks) /\ Head(pending) # None
        BY <2>2, SendQueueAssumption DEF TypeOK
    <3>2. QED
        BY <1>4, <2>2, <3>1 DEF Pop, TypeOK
  <2>3. QED
      BY <2>1, <2>2
<1>5. ASSUME NEW t \in Tasks, PushActive(t) \/ MarkFinished(t) PROVE TypeOK'
  <2>1. CASE PushActive(t)
      BY <2>1 DEF PushActive, TypeOK
  <2>2. CASE MarkFinished(t)
      BY <2>2 DEF MarkFinished, TypeOK
  <2>3. QED
      BY <1>5, <2>1, <2>2
<1>6. ASSUME NEW t \in Tasks, Start(t) \/ Settle(t) PROVE TypeOK'
  <2>1. CASE Start(t)
      BY <2>1 DEF Start, TypeOK
  <2>2. CASE Settle(t)
      BY <2>2 DEF Settle, TypeOK
  <2>3. QED
      BY <1>6, <2>1, <2>2
<1>7. ASSUME NEW t \in Tasks, SendChunk(t) PROVE TypeOK'
    BY <1>7 DEF SendChunk, TypeOK
<1>8. ASSUME NEW t \in Tasks, Answered(t) \/ SendFails(t) PROVE TypeOK'
  <2>1. /\ pc[t] = "sending" /\ pc' = [pc EXCEPT ![t] = "answered"]
        /\ \E code \in {"complete", "partial", "error"} : reply' = [reply EXCEPT ![t] = code]
        /\ UNCHANGED <<queued, result, pending, active, permits, popped, sent, counted, paused,
                       cancelled, pausing, shown>>
      BY <1>8 DEF Answered, SendFails
  <2>2. reply' \in [Tasks -> {None, "complete", "partial", "error"}]
      BY <2>1 DEF TypeOK
  <2>3. QED
      BY <2>1, <2>2 DEF TypeOK
<1>9. ASSUME NEW t \in Tasks, Release(t) PROVE TypeOK'
    BY <1>9 DEF Release, TypeOK
<1>10. ASSUME NEW t \in Tasks, Control(t) PROVE TypeOK'
  <2>1. CASE Pause(t)
      BY <2>1 DEF Pause, TypeOK
  <2>2. CASE Resume(t)
      BY <2>2 DEF Resume, TypeOK
  <2>3. CASE Cancel(t)
      BY <2>3 DEF Cancel, TypeOK
  <2>4. CASE PauseFinds(t)
      BY <2>4 DEF PauseFinds, TypeOK
  <2>5. QED
      BY <1>10, <2>1, <2>2, <2>3, <2>4 DEF Control
<1>11. ASSUME UNCHANGED vars PROVE TypeOK'
    BY <1>11 DEF vars, TypeOK
<1>12. QED
    BY <1>1, <1>2, <1>3, <1>4, <1>5, <1>6, <1>7, <1>8, <1>9, <1>10, <1>11
       DEF Next, CallStep, TaskStep

-----------------------------------------------------------------------------
(* Counting permits and entries.                                           *)

LEMMA HoldersFinite == IsFiniteSet(Holders) /\ IsFiniteSet(Unserved)
BY SendQueueAssumption, FS_Subset DEF Holders, Unserved

Counts == PermitsBalanced /\ OneEntryEach /\ NoneStranded

\* What the other steps leave of the counts.
Steady ==
    /\ UNCHANGED <<permits, pending>>
    /\ \A t \in Tasks : /\ pc'[t] \in Holding <=> pc[t] \in Holding
                        /\ pc'[t] \in {"waiting", "permit"} <=> pc[t] \in {"waiting", "permit"}
                        /\ pc'[t] = "stranded" <=> pc[t] = "stranded"

LEMMA SteadyStep ==
    ASSUME TypeOK, [Next]_vars,
           \A c \in Calls : ~Enqueue(c), \A t \in Tasks : ~Acquire(t) /\ ~Pop(t) /\ ~Release(t)
    PROVE  Steady
<1> USE DEF callVars, sessionVars, GoTo, Holding
<1>1. ASSUME NEW c \in Calls, CallFails(c) \/ CallReturns(c) PROVE Steady
    BY <1>1 DEF CallFails, CallReturns, Steady
<1>2. ASSUME NEW t \in Tasks, PushActive(t) \/ MarkFinished(t) \/ Start(t) \/ Settle(t) PROVE Steady
    BY <1>2 DEF PushActive, MarkFinished, Start, Settle, Steady, TypeOK
<1>3. ASSUME NEW t \in Tasks, SendChunk(t) \/ Answered(t) \/ SendFails(t) PROVE Steady
    BY <1>3 DEF SendChunk, Answered, SendFails, Steady, TypeOK
<1>4. ASSUME NEW t \in Tasks, Control(t) PROVE Steady
    BY <1>4 DEF Control, PauseFinds, Pause, Resume, Cancel, Steady
<1>5. ASSUME UNCHANGED vars PROVE Steady
    BY <1>5 DEF vars, Steady
<1>6. QED
    BY <1>1, <1>2, <1>3, <1>4, <1>5 DEF Next, CallStep, TaskStep

\* A task that is still to pop an entry finds one.
LEMMA QueueNotEmpty ==
    ASSUME TypeOK, Counts, NEW t \in Tasks, pc[t] = "permit"
    PROVE  pending # <<>>
<1>1. t \in Unserved
    BY DEF Unserved
<1>2. Cardinality(Unserved) # 0
    BY <1>1, HoldersFinite, FS_EmptySet
<1>3. QED
    BY <1>2 DEF Counts, OneEntryEach

LEMMA CountsStep == TypeOK /\ Counts /\ [Next]_vars => Counts'
<1> SUFFICES ASSUME TypeOK, Counts, [Next]_vars PROVE Counts'
    OBVIOUS
<1> USE DEF GoTo, Counts
<1>1. ASSUME NEW c \in Calls, Enqueue(c) PROVE Counts'
  <2> DEFINE t == Batch[c][queued[c] + 1]
  <2>1. t \in Tasks
      BY <1>1, NextFile DEF Enqueue
  <2> HIDE DEF t
  <2>2. /\ pc[t] = "new" /\ pc' = [pc EXCEPT ![t] = "waiting"]
        /\ pending' = Append(pending, t) /\ permits' = permits
      BY <1>1 DEF Enqueue, t
  <2>3. Holders' = Holders /\ Unserved' = Unserved \cup {t} /\ t \notin Unserved
      BY <2>1, <2>2 DEF Holders, Unserved, Holding, TypeOK
  <2>4. Cardinality(Unserved') = Cardinality(Unserved) + 1
      BY <2>3, HoldersFinite, FS_AddElement
  <2>5. Len(pending') = Len(pending) + 1
      BY <2>1, <2>2 DEF TypeOK
  <2>6. PermitsBalanced'
      BY <2>2, <2>3 DEF PermitsBalanced
  <2>7. OneEntryEach'
      BY <2>4, <2>5 DEF OneEntryEach
  <2>8. NoneStranded'
      BY <2>1, <2>2 DEF NoneStranded, TypeOK
  <2>9. QED
      BY <2>6, <2>7, <2>8
<1>2. ASSUME NEW t \in Tasks, Acquire(t) PROVE Counts'
  <2>1. /\ pc[t] = "waiting" /\ pc' = [pc EXCEPT ![t] = "permit"]
        /\ permits' = permits - 1 /\ pending' = pending
      BY <1>2 DEF Acquire
  <2>2. Holders' = Holders \cup {t} /\ t \notin Holders /\ Unserved' = Unserved
      BY <2>1 DEF Holders, Unserved, Holding, TypeOK
  <2>3. Cardinality(Holders') = Cardinality(Holders) + 1 /\ Cardinality(Holders) \in Nat
      BY <2>2, HoldersFinite, FS_AddElement, FS_CardinalityType
  <2>4. PermitsBalanced'
      BY <2>1, <2>3 DEF PermitsBalanced, TypeOK
  <2>5. OneEntryEach'
      BY <2>1, <2>2 DEF OneEntryEach
  <2>6. NoneStranded'
      BY <2>1 DEF NoneStranded, TypeOK
  <2>7. QED
      BY <2>4, <2>5, <2>6
<1>3. ASSUME NEW t \in Tasks, Pop(t) PROVE Counts'
  <2>1. pc[t] = "permit" /\ pending # <<>>
      BY <1>3, QueueNotEmpty DEF Pop
  <2>2. pc' = [pc EXCEPT ![t] = "popped"] /\ permits' = permits /\ pending' = Tail(pending)
      BY <1>3, <2>1 DEF Pop
  <2>3. Holders' = Holders /\ Unserved' = Unserved \ {t} /\ t \in Unserved
      BY <2>1, <2>2 DEF Holders, Unserved, Holding, TypeOK
  <2>4. Cardinality(Unserved') = Cardinality(Unserved) - 1
      BY <2>3, HoldersFinite, FS_RemoveElement
  <2>5. Len(pending') = Len(pending) - 1
      BY <2>1, <2>2 DEF TypeOK
  <2>6. PermitsBalanced'
      BY <2>2, <2>3 DEF PermitsBalanced
  <2>7. OneEntryEach'
      BY <2>4, <2>5 DEF OneEntryEach
  <2>8. NoneStranded'
      BY <2>2 DEF NoneStranded, TypeOK
  <2>9. QED
      BY <2>6, <2>7, <2>8
<1>4. ASSUME NEW t \in Tasks, Release(t) PROVE Counts'
  <2>1. /\ pc[t] = "finished" /\ pc' = [pc EXCEPT ![t] = "done"]
        /\ permits' = permits + 1 /\ pending' = pending
      BY <1>4 DEF Release
  <2>2. Holders' = Holders \ {t} /\ t \in Holders /\ Unserved' = Unserved
      BY <2>1 DEF Holders, Unserved, Holding, TypeOK
  <2>3. Cardinality(Holders') = Cardinality(Holders) - 1 /\ Cardinality(Holders) \in Nat
      BY <2>2, HoldersFinite, FS_RemoveElement, FS_CardinalityType
  <2>4. PermitsBalanced'
      BY <2>1, <2>3 DEF PermitsBalanced, TypeOK
  <2>5. OneEntryEach'
      BY <2>1, <2>2 DEF OneEntryEach
  <2>6. NoneStranded'
      BY <2>1 DEF NoneStranded, TypeOK
  <2>7. QED
      BY <2>4, <2>5, <2>6
<1>5. ASSUME Steady PROVE Counts'
  <2>1. Holders' = Holders /\ Unserved' = Unserved
      BY <1>5 DEF Steady, Holders, Unserved
  <2>2. QED
      BY <1>5, <2>1 DEF Steady, PermitsBalanced, OneEntryEach, NoneStranded
<1>6. QED
    BY <1>1, <1>2, <1>3, <1>4, <1>5, SteadyStep

LEMMA CountsInvariant == Spec => [](TypeOK /\ Counts)
<1>1. Init => TypeOK
    BY SendQueueAssumption DEF Init, TypeOK, Holding
<1>2. Init => Counts
  <2> SUFFICES ASSUME Init PROVE Counts
      OBVIOUS
  <2>1. Holders = {} /\ Unserved = {}
      BY DEF Init, Holders, Unserved, Holding
  <2>2. QED
      BY <2>1, FS_EmptySet, SendQueueAssumption
         DEF Init, Counts, PermitsBalanced, OneEntryEach, NoneStranded
<1>3. QED
    BY <1>1, <1>2, TypeStep, CountsStep, PTL DEF Spec

\* Permits are never lost or invented, for any number of transfers and any
\* MAX_PARALLEL_TRANSFERS (queue.rs:56-72).
THEOREM PermitsAreBalanced == Spec => []PermitsBalanced
BY CountsInvariant, PTL DEF Counts

\* A task that asks the queue for an entry always gets one, though perhaps
\* another's (queue.rs:58, api/mod.rs:273-275).
THEOREM NobodyIsStranded == Spec => []NoneStranded
BY CountsInvariant, PTL DEF Counts

-----------------------------------------------------------------------------
(* The queue implements the pool.                                          *)

\* How a step of one task shows in the pool.
LEMMA PoolStep ==
    ASSUME TypeOK, TypeOK', Counts, Counts', [Next]_vars
    PROVE  [Pool!Next]_([t \in Tasks |-> Phase(t)])
<1> DEFINE phases == [t \in Tasks |-> Phase(t)]
<1> USE DEF callVars, sessionVars, GoTo
<1>1. ASSUME NEW t \in Tasks, NEW l,
             pc' = [pc EXCEPT ![t] = l], \A u \in Tasks : u # t => reply'[u] = reply[u]
      PROVE  phases' = [phases EXCEPT ![t] = Phase(t)']
  <2>1. \A u \in Tasks : u # t => pc'[u] = pc[u]
      BY <1>1 DEF TypeOK
  <2>2. \A u \in Tasks : u # t => Phase(u)' = Phase(u)
      BY <1>1, <2>1 DEF Phase
  <2>3. QED
      BY <2>2
<1>2. ASSUME NEW c \in Calls, Enqueue(c) PROVE Pool!Next
  <2>1. PICK t \in Tasks :
            pc[t] = "new" /\ pc' = [pc EXCEPT ![t] = "waiting"] /\ reply' = reply
      BY <1>2, NextFile DEF Enqueue
  <2>2. Phase(t) = "new" /\ Phase(t)' = "queued"
      BY <2>1 DEF Phase, TypeOK
  <2>3. phases' = [phases EXCEPT ![t] = "queued"]
      BY <1>1, <2>1, <2>2
  <2>4. QED
      BY <2>2, <2>3 DEF Pool!Next, Pool!Submit
<1>3. ASSUME NEW t \in Tasks, Acquire(t) PROVE Pool!Next
  <2>1. pc[t] = "waiting" /\ permits > 0 /\ pc' = [pc EXCEPT ![t] = "permit"] /\ reply' = reply
      BY <1>3 DEF Acquire
  <2>2. Phase(t) = "queued" /\ Phase(t)' = "running"
      BY <2>1 DEF Phase, TypeOK
  <2>3. phases' = [phases EXCEPT ![t] = "running"]
      BY <1>1, <2>1, <2>2
  <2>4. Pool!Running \subseteq Holders
      BY DEF Pool!Running, Holders, Holding, Phase, TypeOK
  <2>5. Cardinality(Pool!Running) <= Cardinality(Holders)
      BY <2>4, HoldersFinite, FS_Subset
  <2>6. Cardinality(Pool!Running) \in Nat /\ Cardinality(Holders) \in Nat
      BY <2>4, HoldersFinite, FS_Subset, FS_CardinalityType
  <2>7. Cardinality(Pool!Running) < MaxParallel
      BY <2>1, <2>5, <2>6, SendQueueAssumption DEF Counts, PermitsBalanced, TypeOK
  <2>8. phases[t] = "queued"
      BY <2>2
  <2>9. Pool!Start(t)
      BY <2>3, <2>7, <2>8 DEF Pool!Start, Pool!Cardinality, Cardinality
  <2>10. QED
      BY <2>9 DEF Pool!Next
<1>4. ASSUME NEW t \in Tasks, Settle(t) PROVE Pool!Next
  <2>1. pc[t] = "answered" /\ pc' = [pc EXCEPT ![t] = "settled"] /\ reply' = reply
      BY <1>4 DEF Settle
  <2>2. Phase(t) = "running" /\ Phase(t)' \in {"completed", "failed"}
      BY <2>1 DEF Phase, TypeOK
  <2>3. phases' = [phases EXCEPT ![t] = Phase(t)']
      BY <1>1, <2>1
  <2>4. QED
      BY <2>2, <2>3 DEF Pool!Next, Pool!Settle
<1>5. ASSUME NEW t \in Tasks, Pop(t) \/ PushActive(t) \/ Start(t) \/ SendChunk(t)
      PROVE  phases' = phases
  <2>1. /\ pc[t] \in {"permit", "popped", "active", "sending"} /\ reply' = reply
        /\ pc' = pc \/ \E l \in {"popped", "active", "sending"} : pc' = [pc EXCEPT ![t] = l]
      BY <1>5, QueueNotEmpty DEF Pop, PushActive, Start, SendChunk
  <2>2. CASE pc' = pc
      BY <2>1, <2>2 DEF Phase
  <2>3. ASSUME NEW l \in {"popped", "active", "sending"}, pc' = [pc EXCEPT ![t] = l]
        PROVE  phases' = phases
    <3>1. Phase(t)' = Phase(t)
        BY <2>1, <2>3 DEF Phase, TypeOK
    <3>2. QED
        BY <1>1, <2>1, <2>3, <3>1
  <2>4. QED
      BY <2>1, <2>2, <2>3
<1>6. ASSUME NEW t \in Tasks, Answered(t) \/ SendFails(t) PROVE phases' = phases
  <2>1. /\ pc[t] = "sending" /\ pc' = [pc EXCEPT ![t] = "answered"]
        /\ \E code : reply' = [reply EXCEPT ![t] = code]
      BY <1>6 DEF Answered, SendFails
  <2>2. Phase(t)' = Phase(t)
      BY <2>1 DEF Phase, TypeOK
  <2>3. \A u \in Tasks : u # t => reply'[u] = reply[u]
      BY <2>1 DEF TypeOK
  <2>4. QED
      BY <1>1, <2>1, <2>2, <2>3
<1>7. ASSUME NEW t \in Tasks, MarkFinished(t) \/ Release(t) PROVE phases' = phases
  <2>1. /\ pc[t] \in {"settled", "finished"} /\ reply' = reply
        /\ \E l \in {"finished", "done"} : pc' = [pc EXCEPT ![t] = l]
      BY <1>7 DEF MarkFinished, Release
  <2>2. Phase(t)' = Phase(t)
      BY <2>1 DEF Phase, TypeOK
  <2>3. QED
      BY <1>1, <2>1, <2>2
<1>8. ASSUME UNCHANGED <<pc, reply>> PROVE phases' = phases
    BY <1>8 DEF Phase
<1>9. ASSUME NEW t \in Tasks, Control(t) PROVE UNCHANGED <<pc, reply>>
    BY <1>9 DEF Control, PauseFinds, Pause, Resume, Cancel
<1>10. ASSUME NEW c \in Calls, CallFails(c) \/ CallReturns(c) PROVE UNCHANGED <<pc, reply>>
    BY <1>10 DEF CallFails, CallReturns
<1>11. ASSUME UNCHANGED vars PROVE UNCHANGED <<pc, reply>>
    BY <1>11 DEF vars
<1>12. QED
    BY <1>2, <1>3, <1>4, <1>5, <1>6, <1>7, <1>8, <1>9, <1>10, <1>11
       DEF Next, CallStep, TaskStep

\* The queue, its semaphore and the tasks start every file once, run at most
\* MaxParallel of them and settle each, for any number of files (queue.rs:13-16).
THEOREM QueueIsPool == Spec => ImplementsPool
<1>1. Init => Pool!Init
    BY DEF Init, Pool!Init, Phase
<1>2. TypeOK /\ Counts /\ TypeOK' /\ Counts' /\ [Next]_vars => [Pool!Next]_([t \in Tasks |-> Phase(t)])
    BY PoolStep
<1>3. QED
    BY <1>1, <1>2, CountsInvariant, PTL DEF Spec, ImplementsPool, Pool!Spec

\* The queue's variables keep their types, and a task that is past the queue
\* has an entry (queue.rs:33-72, api/mod.rs:218-308).
THEOREM TypeCorrect == Spec => []TypeOK
BY CountsInvariant, PTL

-----------------------------------------------------------------------------
(* No entry is lost, doubled or handed out twice.                          *)

\* Only Enqueue and Pop move entries, and only Enqueue takes a task out of "new".
LEMMA EntriesStay ==
    ASSUME TypeOK, EntriesConserved, UNCHANGED <<pending, popped>>,
           \A t \in Tasks : pc'[t] = "new" <=> pc[t] = "new"
    PROVE  EntriesConserved'
BY DEF EntriesConserved

LEMMA EnqueueConserves ==
    ASSUME TypeOK, EntriesConserved, NEW c \in Calls, Enqueue(c)
    PROVE  EntriesConserved'
<1> DEFINE t == Batch[c][queued[c] + 1]
<1>1. t \in Tasks
    BY NextFile DEF Enqueue
<1> HIDE DEF t
<1>2. pc[t] = "new" /\ pending' = Append(pending, t) /\ pc' = [pc EXCEPT ![t] = "waiting"] /\ popped' = popped
    BY DEF Enqueue, GoTo, t
<1>3. /\ \A i \in 1..Len(pending) : pending[i] # t
      /\ \A u \in Tasks : popped[u] # t
    BY <1>1, <1>2 DEF EntriesConserved
<1>4. /\ Len(pending') = Len(pending) + 1 /\ Len(pending) \in Nat
      /\ pending'[Len(pending) + 1] = t
      /\ \A i \in 1..Len(pending) : pending'[i] = pending[i]
    BY <1>1, <1>2 DEF TypeOK
<1>5. \A i, j \in 1..Len(pending') : pending'[i] = pending'[j] => i = j
    BY <1>3, <1>4 DEF EntriesConserved
<1>6. \A u \in Tasks, i \in 1..Len(pending') : popped'[u] # pending'[i]
    BY <1>2, <1>3, <1>4 DEF EntriesConserved
<1>7. ASSUME NEW u \in Tasks
      PROVE  pc'[u] # "new" <=>
                \/ \E i \in 1..Len(pending') : pending'[i] = u
                \/ \E v \in Tasks : popped'[v] = u
  <2>1. CASE u = t
      BY <2>1, <1>2, <1>4 DEF TypeOK
  <2>2. CASE u # t
    <3>1. pc'[u] = pc[u]
        BY <1>1, <1>2, <2>2 DEF TypeOK
    <3>2. (\E i \in 1..Len(pending') : pending'[i] = u) <=> \E i \in 1..Len(pending) : pending[i] = u
        BY <1>4, <2>2
    <3>3. QED
        BY <3>1, <3>2, <1>2 DEF EntriesConserved
  <2>3. QED
      BY <2>1, <2>2
<1>8. QED
    BY <1>2, <1>5, <1>6, <1>7 DEF EntriesConserved

LEMMA PopConserves ==
    ASSUME TypeOK, EntriesConserved, NEW t \in Tasks, Pop(t), pending # <<>>, popped[t] = None
    PROVE  EntriesConserved'
<1> DEFINE e == Head(pending)
<1>1. /\ Len(pending) \in Nat \ {0} /\ e \in Tasks /\ e = pending[1]
      /\ pending' \in Seq(Tasks) /\ Len(pending') = Len(pending) - 1
      /\ \A i \in 1..Len(pending') : pending'[i] = pending[i + 1]
  <2>1. pending \in Seq(Tasks) /\ pending # <<>>
      BY DEF TypeOK
  <2>2. Len(pending) \in Nat \ {0} /\ e \in Tasks /\ e = pending[1]
      BY <2>1
  <2>3. pending' = Tail(pending)
      BY DEF Pop
  <2>4. Tail(pending) \in Seq(Tasks) /\ Len(Tail(pending)) = Len(pending) - 1
      BY <2>1
  <2>5. \A i \in 1..Len(Tail(pending)) : Tail(pending)[i] = pending[i + 1]
      BY <2>1
  <2>6. QED
      BY <2>2, <2>3, <2>4, <2>5
<1>2. popped' = [popped EXCEPT ![t] = e] /\ pc' = [pc EXCEPT ![t] = "popped"] /\ pc[t] = "permit"
    BY DEF Pop, GoTo
<1>3. popped'[t] = e /\ \A u \in Tasks : u # t => popped'[u] = popped[u]
    BY <1>2 DEF TypeOK
<1>4. \A u \in Tasks : popped[u] # e
    BY <1>1 DEF EntriesConserved
<1>5. \A i, j \in 1..Len(pending') : pending'[i] = pending'[j] => i = j
    BY <1>1 DEF EntriesConserved
<1>6. \A i \in 1..Len(pending') : pending'[i] # e
    BY <1>1 DEF EntriesConserved
<1> HIDE DEF e
<1>7. \A u, v \in Tasks : (popped'[u] # None /\ popped'[u] = popped'[v]) => u = v
    BY <1>3, <1>4 DEF EntriesConserved
<1>8. \A u \in Tasks, i \in 1..Len(pending') : popped'[u] # pending'[i]
    BY <1>1, <1>3, <1>6 DEF EntriesConserved
<1>9. ASSUME NEW u \in Tasks
      PROVE  pc'[u] # "new" <=>
                \/ \E i \in 1..Len(pending') : pending'[i] = u
                \/ \E v \in Tasks : popped'[v] = u
  <2>1. pc'[u] = "new" <=> pc[u] = "new"
      BY <1>2 DEF TypeOK
  <2>2. (\E v \in Tasks : popped'[v] = u) <=> u = e \/ \E v \in Tasks : popped[v] = u
      BY <1>3, SendQueueAssumption
  <2>3. (\E i \in 1..Len(pending) : pending[i] = u) <=> u = e \/ \E i \in 1..Len(pending') : pending'[i] = u
    <3>1. ASSUME NEW i \in 1..Len(pending), pending[i] = u, u # e
          PROVE  \E k \in 1..Len(pending') : pending'[k] = u
      <4>1. i # 1
          BY <1>1, <3>1
      <4>2. i - 1 \in 1..Len(pending') /\ pending'[i - 1] = pending[i]
          BY <1>1, <4>1
      <4>3. QED
          BY <3>1, <4>2
    <3>2. QED
        BY <1>1, <3>1
  <2>4. QED
      BY <2>1, <2>2, <2>3 DEF EntriesConserved
<1>10. QED
    BY <1>5, <1>7, <1>8, <1>9 DEF EntriesConserved

\* A task that is still to pop an entry has none.
NoneEarly == \A t \in Tasks : pc[t] \in {"new", "waiting", "permit"} => popped[t] = None

LEMMA ConservedStep ==
    ASSUME TypeOK, Counts, EntriesConserved, NoneEarly, [Next]_vars
    PROVE  EntriesConserved' /\ NoneEarly'
<1> USE DEF callVars, sessionVars, GoTo
<1>1. ASSUME NEW c \in Calls, Enqueue(c) PROVE EntriesConserved' /\ NoneEarly'
    BY <1>1, EnqueueConserves DEF Enqueue, NoneEarly, TypeOK
<1>2. ASSUME NEW c \in Calls, CallFails(c) \/ CallReturns(c) PROVE EntriesConserved' /\ NoneEarly'
    BY <1>2, EntriesStay DEF CallFails, CallReturns, NoneEarly
<1>3. ASSUME NEW t \in Tasks, Pop(t) PROVE EntriesConserved' /\ NoneEarly'
  <2>1. pc[t] = "permit" /\ popped[t] = None
      BY <1>3 DEF Pop, NoneEarly
  <2>2. pending # <<>>
      BY <2>1, QueueNotEmpty DEF Counts
  <2>3. EntriesConserved'
      BY <1>3, <2>1, <2>2, PopConserves
  <2>4. NoneEarly'
      BY <1>3, <2>2 DEF Pop, NoneEarly, TypeOK
  <2>5. QED
      BY <2>3, <2>4
<1>4. ASSUME NEW t \in Tasks, Acquire(t) \/ PushActive(t) \/ MarkFinished(t) \/ Release(t)
      PROVE  EntriesConserved' /\ NoneEarly'
    BY <1>4, EntriesStay DEF Acquire, PushActive, MarkFinished, Release, NoneEarly, TypeOK
<1>5. ASSUME NEW t \in Tasks, Start(t) \/ SendChunk(t) \/ Answered(t) \/ SendFails(t) \/ Settle(t)
      PROVE  EntriesConserved' /\ NoneEarly'
    BY <1>5, EntriesStay DEF Start, SendChunk, Answered, SendFails, Settle, NoneEarly, TypeOK
<1>6. ASSUME NEW t \in Tasks, Control(t) PROVE EntriesConserved' /\ NoneEarly'
    BY <1>6, EntriesStay DEF Control, PauseFinds, Pause, Resume, Cancel, NoneEarly
<1>7. CASE UNCHANGED vars
    BY <1>7, EntriesStay DEF vars, NoneEarly
<1>8. QED
    BY <1>1, <1>2, <1>3, <1>4, <1>5, <1>6, <1>7 DEF Next, CallStep, TaskStep

\* Every file that was queued has one entry, waiting in the queue or popped by
\* one task, in whatever order the tasks come (queue.rs:48-72).
THEOREM EntriesAreConserved == Spec => []EntriesConserved
<1>1. Init => EntriesConserved /\ NoneEarly
    BY SendQueueAssumption DEF Init, EntriesConserved, NoneEarly
<1>2. TypeOK /\ Counts /\ EntriesConserved /\ NoneEarly /\ [Next]_vars => (EntriesConserved /\ NoneEarly)'
    BY ConservedStep
<1>3. QED
    BY <1>1, <1>2, CountsInvariant, PTL DEF Spec

-----------------------------------------------------------------------------
(* The queue under the app.                                                *)

\* A step of the board is a step of the queue, or none of its variables change.
LEMMA BoardStepIsQueueStep == [BoardNext]_allVars => [Next]_vars
<1> SUFFICES ASSUME [BoardNext]_allVars PROVE [Next]_vars
    OBVIOUS
<1>1. ASSUME NEW c \in Calls, CallStep(c) PROVE Next
    BY <1>1 DEF Next
<1>2. ASSUME NEW t \in Tasks, SenderStep(t) PROVE Next
    BY <1>2 DEF SenderStep, Quietly, Announces, Reports, Next, TaskStep
<1>3. ASSUME NEW t \in Tasks, ConfirmsPause(t) \/ Tap(t) PROVE Next
    BY <1>3 DEF ConfirmsPause, Tap, Next, Control
<1>4. Forwards \/ Handle \/ UNCHANGED allVars => UNCHANGED vars
    BY DEF Forwards, Handle, allVars
<1>5. QED
    BY <1>1, <1>2, <1>3, <1>4 DEF BoardNext

LEMMA BoardIsQueue == BoardSpec => Spec
<1>1. BoardInit => Init
    BY DEF BoardInit
<1>2. QED
    BY <1>1, BoardStepIsQueueStep, PTL DEF BoardSpec, Spec

\* Whatever the user taps and however events are lost, the files go through
\* the queue as through a pool of MaxParallel places (queue.rs:13-16,
\* api/mod.rs:322-354).
THEOREM BoardIsPool == BoardSpec => ImplementsPool
BY BoardIsQueue, QueueIsPool

-----------------------------------------------------------------------------
(* The events are their own task's.                                        *)

Begun == {"sending", "answered", "settled", "finished", "done"}
Over == {"settled", "finished", "done"}
Kinds == {"started", "paused"} \cup Ended

\* An outcome is told once the transfer has it (p and r stand for pc and
\* reply, of one state or the next).
Outcome(kind, t, p, r) ==
    /\ kind = "completed" => p[t] \in Over /\ r[t] \in {"complete", "partial"}
    /\ kind = "failed" => p[t] \in Over /\ r[t] = "error"

Truthful(e, p, r) ==
    /\ e.id \in Tasks /\ e.kind \in Kinds
    /\ e.kind = "started" => p[e.id] \in Begun
    /\ Outcome(e.kind, e.id, p, r)

Told(s, p, r) == \A i \in 1..Len(s) : Truthful(s[i], p, r)

\* The events on their way, and the cards made of them.
Feed == ring \in Seq([kind : Kinds, id : Tasks]) /\ inbox \in Seq([kind : Kinds, id : Tasks])

Cards ==
    /\ card \in [Tasks -> Statuses \cup {None}]
    /\ \A t \in Tasks : card[t] # None => pc[t] \in Begun /\ Outcome(card[t], t, pc, reply)

Answers == \A t \in Tasks : pc[t] \in {"answered"} \cup Over => reply[t] \in {"complete", "partial", "error"}

BoardInv == TypeOK /\ Answers /\ Feed /\ Told(ring, pc, reply) /\ Told(inbox, pc, reply) /\ Cards

\* A transfer that has begun has begun for good, and one that is over keeps
\* the reply it got.
LEMMA HistoryIsKept ==
    ASSUME TypeOK, Answers, [Next]_vars
    PROVE  /\ Answers'
           /\ \A t \in Tasks : pc[t] \in Begun => pc'[t] \in Begun
           /\ \A t \in Tasks : pc[t] \in Over => pc'[t] \in Over /\ reply'[t] = reply[t]
<1> DEFINE Kept == /\ Answers'
                   /\ \A t \in Tasks : pc[t] \in Begun => pc'[t] \in Begun
                   /\ \A t \in Tasks : pc[t] \in Over => pc'[t] \in Over /\ reply'[t] = reply[t]
<1> USE DEF TypeOK, Answers, Begun, Over, GoTo
<1>1. ASSUME NEW c \in Calls, Enqueue(c) PROVE Kept
  <2>1. PICK u \in Tasks : pc[u] = "new" /\ pc' = [pc EXCEPT ![u] = "waiting"] /\ reply' = reply
      BY <1>1, NextFile DEF Enqueue
  <2>2. QED
      BY <2>1
<1>2. ASSUME NEW c \in Calls, CallFails(c) \/ CallReturns(c) PROVE Kept
    BY <1>2 DEF CallFails, CallReturns
<1>3. ASSUME NEW u \in Tasks, Acquire(u) \/ Pop(u) \/ PushActive(u) \/ Start(u) \/ SendChunk(u)
      PROVE  Kept
  <2>1. /\ pc[u] \notin {"answered"} \cup Over /\ reply' = reply
        /\ pc' = pc \/ \E l \in {"permit", "stranded", "popped", "active", "sending"} :
                            pc' = [pc EXCEPT ![u] = l] /\ (pc[u] \notin Begun)
      BY <1>3 DEF Acquire, Pop, PushActive, Start, SendChunk
  <2>2. QED
      BY <2>1
<1>4. ASSUME NEW u \in Tasks, Answered(u) \/ SendFails(u) PROVE Kept
  <2>1. /\ pc[u] = "sending" /\ pc' = [pc EXCEPT ![u] = "answered"]
        /\ \E r \in {"complete", "partial", "error"} : reply' = [reply EXCEPT ![u] = r]
      BY <1>4 DEF Answered, SendFails
  <2>2. QED
      BY <2>1
<1>5. ASSUME NEW u \in Tasks, Settle(u) \/ MarkFinished(u) \/ Release(u) PROVE Kept
    BY <1>5 DEF Settle, MarkFinished, Release
<1>6. ASSUME NEW u \in Tasks, Control(u) PROVE Kept
    BY <1>6 DEF Control, PauseFinds, Pause, Resume, Cancel
<1>7. CASE UNCHANGED vars
    BY <1>7 DEF vars
<1>8. QED
    BY <1>1, <1>2, <1>3, <1>4, <1>5, <1>6, <1>7 DEF Next, CallStep, TaskStep

\* So what was true of an event or a card stays true.
LEMMA TruthIsKept ==
    ASSUME TypeOK, Answers, [Next]_vars
    PROVE  /\ \A kind, t : t \in Tasks /\ Outcome(kind, t, pc, reply) => Outcome(kind, t, pc', reply')
           /\ \A s : Told(s, pc, reply) => Told(s, pc', reply')
<1>1. ASSUME NEW kind, NEW t \in Tasks, Outcome(kind, t, pc, reply) PROVE Outcome(kind, t, pc', reply')
    BY <1>1, HistoryIsKept DEF Outcome
<1>2. ASSUME NEW e, Truthful(e, pc, reply) PROVE Truthful(e, pc', reply')
    BY <1>1, <1>2, HistoryIsKept DEF Truthful
<1>3. QED
    BY <1>1, <1>2 DEF Told
\* What is left of a sequence without its first element.
LEMMA HeadAndTail ==
    ASSUME NEW S, NEW s \in Seq(S), s # <<>>
    PROVE  /\ Head(s) = s[1] /\ Len(s) \in Nat \ {0} /\ Head(s) \in S
           /\ Tail(s) \in Seq(S) /\ Len(Tail(s)) = Len(s) - 1
           /\ \A i \in 1..Len(Tail(s)) : Tail(s)[i] = s[i + 1]
<1>1. Len(s) \in Nat \ {0} /\ Head(s) = s[1]
    OBVIOUS
<1>2. Head(s) \in S
    BY <1>1
<1>3. Tail(s) \in Seq(S) /\ Len(Tail(s)) = Len(s) - 1
    OBVIOUS
<1>4. \A i \in 1..Len(Tail(s)) : Tail(s)[i] = s[i + 1]
    OBVIOUS
<1>5. QED
    BY <1>1, <1>2, <1>3, <1>4

\* With an event that is true, a step of the queue leaves the feed true.
LEMMA EmitIsTold ==
    ASSUME TypeOK, Answers, [Next]_vars, Feed, Told(ring, pc, reply), Told(inbox, pc, reply),
           NEW e \in [kind : Kinds, id : Tasks], Truthful(e, pc', reply'), Emit(e)
    PROVE  Feed' /\ Told(ring', pc', reply') /\ Told(inbox', pc', reply')
<1>1. PICK r \in {ring, Tail(ring)} : ring' = Append(r, e)
    BY DEF Emit
<1>2. r \in Seq([kind : Kinds, id : Tasks]) /\ \A i \in 1..Len(r) : Truthful(r[i], pc, reply)
  <2>1. CASE r = ring
      BY <2>1 DEF Feed, Told
  <2>2. CASE r = Tail(ring) /\ ring # <<>>
    <3>1. /\ Tail(ring) \in Seq([kind : Kinds, id : Tasks]) /\ Len(Tail(ring)) = Len(ring) - 1
          /\ \A i \in 1..Len(Tail(ring)) : Tail(ring)[i] = ring[i + 1]
        BY <2>2 DEF Feed
    <3>2. Len(ring) \in Nat
        BY DEF Feed
    <3>3. QED
        BY <2>2, <3>1, <3>2 DEF Told
  <2>3. ring # <<>> \/ r = ring
      BY <1>1, FeedAssumption DEF Emit, Full
  <2>4. QED
      BY <1>1, <2>1, <2>2, <2>3
<1>3. Told(r, pc', reply')
    BY <1>2, TruthIsKept DEF Told
<1>4. Told(ring', pc', reply') /\ ring' \in Seq([kind : Kinds, id : Tasks])
    BY <1>1, <1>2, <1>3 DEF Told
<1>5. inbox' = inbox
    BY DEF Emit
<1>6. QED
    BY <1>4, <1>5, TruthIsKept DEF Feed, Told

LEMMA BoardStep == BoardInv /\ [BoardNext]_allVars => BoardInv'
<1> SUFFICES ASSUME BoardInv, [BoardNext]_allVars PROVE BoardInv'
    OBVIOUS
<1>q. [Next]_vars
    BY BoardStepIsQueueStep
<1>i. TypeOK /\ Answers /\ Feed /\ Told(ring, pc, reply) /\ Told(inbox, pc, reply) /\ Cards
    BY DEF BoardInv
<1>t. TypeOK' /\ Answers'
    BY <1>q, <1>i, TypeStep, HistoryIsKept
<1>c. ASSUME card' = card PROVE Cards'
    BY <1>c, <1>i, <1>q, TruthIsKept, HistoryIsKept DEF Cards
<1>f. ASSUME ring' = ring, inbox' = inbox PROVE Feed' /\ Told(ring', pc', reply') /\ Told(inbox', pc', reply')
    BY <1>f, <1>i, <1>q, TruthIsKept DEF Feed, Told
<1>1. ASSUME UNCHANGED <<ring, inbox, card>> PROVE BoardInv'
    BY <1>1, <1>t, <1>c, <1>f DEF BoardInv
<1>2. ASSUME NEW e \in [kind : Kinds, id : Tasks], Truthful(e, pc', reply'), Emit(e), card' = card PROVE BoardInv'
    BY <1>2, <1>t, <1>c, <1>i, <1>q, EmitIsTold DEF BoardInv
<1>3. ASSUME NEW t \in Tasks, Announces(t) PROVE BoardInv'
  <2> DEFINE e == Event("started", t)
  <2>1. e \in [kind : Kinds, id : Tasks] /\ e.id = t /\ e.kind = "started"
      BY DEF Event, Kinds
  <2>2. Emit(e) /\ card' = card /\ pc'[t] = "sending"
      BY <1>3, <1>i DEF Announces, Start, Tell, GoTo, TypeOK
  <2>3. Truthful(e, pc', reply')
      BY <2>1, <2>2 DEF Truthful, Outcome, Begun, Kinds
  <2>4. QED
      BY <1>2, <2>1, <2>2, <2>3
<1>4. ASSUME NEW t \in Tasks, Reports(t) PROVE BoardInv'
  <2> DEFINE e == Event(shown'[t], t)
  <2>1. /\ pc[t] = "answered" /\ pc'[t] = "settled" /\ reply'[t] = reply[t]
        /\ shown'[t] = IF reply[t] = "error" THEN "failed" ELSE "completed"
      BY <1>4, <1>i DEF Reports, Settle, GoTo, TypeOK
  <2>2. Emit(e) /\ card' = card
      BY <1>4 DEF Reports, Tell
  <2>3. /\ e \in [kind : Kinds, id : Tasks] /\ e.id = t
        /\ e.kind = IF reply[t] = "error" THEN "failed" ELSE "completed"
      BY <2>1 DEF Event, Kinds, Ended
  <2>4. reply[t] \in {"complete", "partial", "error"}
      BY <1>i, <2>1 DEF Answers
  <2> HIDE DEF e
  <2>5. Truthful(e, pc', reply')
      BY <2>1, <2>3, <2>4 DEF Truthful, Outcome, Over, Kinds, Ended
  <2>6. QED
      BY <1>2, <2>2, <2>3, <2>5
<1>5. ASSUME NEW t \in Tasks, ConfirmsPause(t) PROVE BoardInv'
  <2> DEFINE e == Event("paused", t)
  <2>1. e \in [kind : Kinds, id : Tasks] /\ e.id = t /\ e.kind = "paused"
      BY DEF Event, Kinds
  <2>2. Emit(e) /\ card' = card
      BY <1>5 DEF ConfirmsPause, Tell
  <2>3. Truthful(e, pc', reply')
      BY <2>1 DEF Truthful, Outcome, Kinds
  <2>4. QED
      BY <1>2, <2>1, <2>2, <2>3
<1>6. ASSUME Forwards PROVE BoardInv'
  <2>1. UNCHANGED <<vars, card>> /\ (Lagged \/ Deliver)
      BY <1>6 DEF Forwards, Forward
  <2>2. CASE Lagged
      BY <1>1, <2>1, <2>2 DEF Lagged
  <2>3. CASE Deliver
    <3>1. ring # <<>> /\ inbox' = Append(inbox, Head(ring)) /\ ring' = Tail(ring)
        BY <2>3 DEF Deliver
    <3>2. /\ Head(ring) = ring[1] /\ Len(ring) \in Nat \ {0}
          /\ Head(ring) \in [kind : Kinds, id : Tasks]
          /\ Tail(ring) \in Seq([kind : Kinds, id : Tasks]) /\ Len(Tail(ring)) = Len(ring) - 1
          /\ \A i \in 1..Len(Tail(ring)) : Tail(ring)[i] = ring[i + 1]
        BY <1>i, <3>1, HeadAndTail DEF Feed
    <3>3. Told(ring, pc', reply')
        BY <1>i, <1>q, TruthIsKept
    <3>4. Told(ring', pc', reply')
        BY <3>1, <3>2, <3>3 DEF Told
    <3>5. Told(inbox, pc', reply')
        BY <1>i, <1>q, TruthIsKept
    <3>6. Told(inbox', pc', reply')
        BY <1>i, <3>1, <3>2, <3>3, <3>5 DEF Told, Feed
    <3>7. Feed'
        BY <1>i, <3>1, <3>2 DEF Feed
    <3>8. QED
        BY <1>t, <1>c, <2>1, <3>4, <3>6, <3>7 DEF BoardInv
  <2>4. QED
      BY <2>1, <2>2, <2>3
<1>7. ASSUME Handle PROVE BoardInv'
  <2> DEFINE e == Head(inbox)
  <2>1. inbox # <<>> /\ inbox' = Tail(inbox) /\ UNCHANGED <<vars, ring>>
      BY <1>7 DEF Handle
  <2>2. /\ e = inbox[1] /\ Len(inbox) \in Nat \ {0}
        /\ Tail(inbox) \in Seq([kind : Kinds, id : Tasks]) /\ Len(Tail(inbox)) = Len(inbox) - 1
        /\ \A i \in 1..Len(Tail(inbox)) : Tail(inbox)[i] = inbox[i + 1]
      BY <1>i, <2>1 DEF Feed
  <2>3. Truthful(e, pc, reply)
      BY <1>i, <2>2 DEF Told
  <2>4. Told(inbox, pc', reply')
      BY <1>i, <1>q, TruthIsKept
  <2>5. Told(inbox', pc', reply') /\ Told(ring', pc', reply') /\ Feed'
      BY <1>i, <1>q, <2>1, <2>2, <2>4, TruthIsKept DEF Told, Feed
  <2>6. \/ card' = card
        \/ e.kind = "started" /\ card' = [card EXCEPT ![e.id] = "inProgress"]
        \/ e.kind # "started" /\ card[e.id] # None /\ card' = [card EXCEPT ![e.id] = e.kind]
      BY <1>7 DEF Handle, Show
  <2> HIDE DEF e
  <2>7. Cards'
    <3>1. pc' = pc /\ reply' = reply
        BY <2>1 DEF vars
    <3>2. e.id \in Tasks /\ e.kind \in Kinds /\ Outcome(e.kind, e.id, pc, reply)
        BY <2>3 DEF Truthful
    <3>3. ASSUME e.kind = "started", card' = [card EXCEPT ![e.id] = "inProgress"] PROVE Cards'
      <4>1. pc[e.id] \in Begun
          BY <2>3, <3>3 DEF Truthful
      <4>2. QED
          BY <1>i, <3>1, <3>2, <3>3, <4>1 DEF Cards, Statuses, Outcome
    <3>4. ASSUME e.kind # "started", card[e.id] # None, card' = [card EXCEPT ![e.id] = e.kind] PROVE Cards'
      <4>1. e.kind \in Statuses
          BY <3>2, <3>4 DEF Kinds, Statuses
      <4>2. QED
          BY <1>i, <3>1, <3>2, <3>4, <4>1 DEF Cards, Outcome
    <3>5. QED
        BY <1>c, <2>6, <3>3, <3>4
  <2>8. QED
      BY <1>t, <2>5, <2>7 DEF BoardInv
<1>8. ASSUME NEW c \in Calls, CallStep(c) /\ UNCHANGED boardVars PROVE UNCHANGED <<ring, inbox, card>>
    BY <1>8 DEF boardVars, feedVars
<1>9. ASSUME NEW t \in Tasks, Quietly(t) \/ Tap(t) PROVE UNCHANGED <<ring, inbox, card>>
    BY <1>9 DEF Quietly, Tap, boardVars, feedVars
<1>10. ASSUME UNCHANGED allVars PROVE UNCHANGED <<ring, inbox, card>>
    BY <1>10 DEF allVars, boardVars, feedVars
<1>11. QED
    BY <1>1, <1>3, <1>4, <1>5, <1>6, <1>7, <1>8, <1>9, <1>10 DEF BoardNext, SenderStep

LEMMA BoardInvariant == BoardSpec => []BoardInv
<1>1. BoardInit => BoardInv
  <2>1. SUFFICES ASSUME BoardInit PROVE BoardInv
      OBVIOUS
  <2>2. ring = <<>> /\ inbox = <<>> /\ card = [t \in Tasks |-> None] /\ \A t \in Tasks : pc[t] = "new"
      BY <2>1 DEF BoardInit, FeedInit, Init
  <2>3. TypeOK
      BY <2>1, SendQueueAssumption DEF BoardInit, Init, TypeOK, Holding
  <2>4. Answers /\ Feed /\ Told(ring, pc, reply) /\ Told(inbox, pc, reply) /\ Cards
      BY <2>2 DEF Answers, Over, Feed, Told, Cards
  <2>5. QED
      BY <2>3, <2>4 DEF BoardInv
<1>2. QED
    BY <1>1, BoardStep, PTL DEF BoardSpec

\* A card ends only as the send_file of its own transfer returned, Ok or Err,
\* for any number of tasks and whatever events are lost: no task's outcome is
\* shown on another's card (api/mod.rs:277-305, filedrop_providers.dart:381-421).
THEOREM CardsAreTheirOwn == BoardSpec => []CardsAreAttributed
<1>1. BoardInv => CardsAreAttributed
    BY BoardAssumption DEF BoardInv, Cards, Outcome, CardsAreAttributed, Begun, Over, Statuses, Ended
<1>2. QED
    BY <1>1, BoardInvariant, PTL

-----------------------------------------------------------------------------
(* A card is opened once.                                                  *)

\* The transfers whose TransferStarted is on its way, and that it is only once.
Opening(s) == {s[i].id : i \in {j \in 1..Len(s) : s[j].kind = "started"}}

OpensOnce(s) ==
    \A i, j \in 1..Len(s) :
        s[i].kind = "started" /\ s[j].kind = "started" /\ s[i].id = s[j].id => i = j

LEMMA OpeningTail ==
    ASSUME NEW S, NEW s \in Seq(S), s # <<>>, OpensOnce(s)
    PROVE  /\ OpensOnce(Tail(s)) /\ Opening(Tail(s)) \subseteq Opening(s)
           /\ Head(s).kind = "started" => Head(s).id \in Opening(s) \ Opening(Tail(s))
<1> DEFINE r == Tail(s)
<1>1. /\ Head(s) = s[1] /\ Len(s) \in Nat \ {0} /\ Len(r) = Len(s) - 1
      /\ \A i \in 1..Len(r) : r[i] = s[i + 1]
    BY HeadAndTail
<1> HIDE DEF r
<1>2. \A i \in 1..Len(r) : i + 1 \in 1..Len(s) /\ i + 1 # 1 /\ 1 \in 1..Len(s)
    BY <1>1
<1>3. OpensOnce(r)
    BY <1>1, <1>2 DEF OpensOnce
<1>4. Opening(r) \subseteq Opening(s)
    BY <1>1, <1>2 DEF Opening
<1>5. ASSUME Head(s).kind = "started" PROVE Head(s).id \in Opening(s) \ Opening(r)
  <2>1. Head(s).id \in Opening(s)
      BY <1>1, <1>5 DEF Opening
  <2>2. \A i \in 1..Len(r) : r[i].kind = "started" => r[i].id # Head(s).id
      BY <1>1, <1>2, <1>5 DEF OpensOnce
  <2>3. QED
      BY <2>1, <2>2 DEF Opening
<1>6. QED
    BY <1>3, <1>4, <1>5 DEF r

LEMMA OpeningAppend ==
    ASSUME NEW S, NEW s \in Seq(S), NEW e \in S, OpensOnce(s),
           e.kind = "started" => e.id \notin Opening(s)
    PROVE  /\ OpensOnce(Append(s, e))
           /\ Opening(Append(s, e)) = Opening(s) \cup (IF e.kind = "started" THEN {e.id} ELSE {})
<1> DEFINE r == Append(s, e)
<1>1. /\ Len(s) \in Nat /\ Len(r) = Len(s) + 1 /\ r[Len(s) + 1] = e
      /\ \A i \in 1..Len(s) : r[i] = s[i]
    OBVIOUS
<1> HIDE DEF r
<1>2. 1..Len(r) = 1..Len(s) \cup {Len(s) + 1} /\ Len(s) + 1 \notin 1..Len(s)
    BY <1>1
<1>3. \A i \in 1..Len(s) : s[i].kind = "started" => s[i].id \in Opening(s)
    BY DEF Opening
<1>4. OpensOnce(r)
    BY <1>1, <1>2, <1>3 DEF OpensOnce
<1>5. ASSUME NEW t PROVE t \in Opening(r) <=> t \in Opening(s) \/ (e.kind = "started" /\ e.id = t)
  <2>1. t \in Opening(r) <=> \E i \in 1..Len(r) : r[i].kind = "started" /\ r[i].id = t
      BY DEF Opening
  <2>2. t \in Opening(s) <=> \E i \in 1..Len(s) : s[i].kind = "started" /\ s[i].id = t
      BY DEF Opening
  <2>3. t \in Opening(r) => t \in Opening(s) \/ (e.kind = "started" /\ e.id = t)
      BY <1>1, <1>2, <2>1, <2>2
  <2>4. t \in Opening(s) => t \in Opening(r)
    <3>1. \A i \in 1..Len(s) : i \in 1..Len(r) /\ r[i] = s[i]
        BY <1>1, <1>2
    <3>2. QED
        BY <2>1, <2>2, <3>1
  <2>5. e.kind = "started" /\ e.id = t => t \in Opening(r)
    <3>1. Len(s) + 1 \in 1..Len(r) /\ r[Len(s) + 1] = e
        BY <1>1, <1>2
    <3>2. QED
        BY <2>1, <3>1
  <2>6. QED
      BY <2>3, <2>4, <2>5
<1>6. Opening(r) = Opening(s) \cup (IF e.kind = "started" THEN {e.id} ELSE {})
    BY <1>5
<1>7. QED
    BY <1>4, <1>6 DEF r

\* Each TransferStarted on its way is for a transfer that has no card yet.
OnceInv ==
    /\ OpensOnce(ring) /\ OpensOnce(inbox)
    /\ Opening(ring) \cap Opening(inbox) = {}
    /\ \A t \in Tasks : t \in Opening(ring) \cup Opening(inbox) => card[t] = None

\* A transfer that has not begun has neither.
LEMMA NotBegun ==
    ASSUME BoardInv, NEW t \in Tasks, pc[t] \notin Begun
    PROVE  card[t] = None /\ t \notin Opening(ring) \cup Opening(inbox)
BY DEF BoardInv, Cards, Told, Truthful, Opening

\* Emitting an event.
LEMMA EmitOnce ==
    ASSUME BoardInv, OnceInv, NEW e \in [kind : Kinds, id : Tasks], Emit(e), card' = card,
           e.kind = "started" => pc[e.id] \notin Begun
    PROVE  OnceInv'
<1>1. ring \in Seq([kind : Kinds, id : Tasks]) /\ inbox' = inbox
    BY DEF BoardInv, Feed, Emit
<1>2. ring = <<>> => ~Full
    BY FeedAssumption DEF Full
<1>3. PICK r \in Seq([kind : Kinds, id : Tasks]) :
          OpensOnce(r) /\ Opening(r) \subseteq Opening(ring) /\ ring' = Append(r, e)
  <2>1. CASE Full
    <3>1. ring # <<>> /\ ring' = Append(Tail(ring), e)
        BY <1>2, <2>1 DEF Emit
    <3>2. /\ OpensOnce(Tail(ring)) /\ Opening(Tail(ring)) \subseteq Opening(ring)
          /\ Tail(ring) \in Seq([kind : Kinds, id : Tasks])
        BY <1>1, <3>1, OpeningTail, HeadAndTail DEF OnceInv
    <3>3. QED
        BY <3>1, <3>2
  <2>2. CASE ~Full
      BY <1>1, <2>2 DEF Emit, OnceInv
  <2>3. QED
      BY <2>1, <2>2
<1>4. e.kind = "started" => card[e.id] = None /\ e.id \notin Opening(ring) \cup Opening(inbox)
    BY NotBegun
<1>5. /\ OpensOnce(ring')
      /\ Opening(ring') = Opening(r) \cup (IF e.kind = "started" THEN {e.id} ELSE {})
  <2>1. e.kind = "started" => e.id \notin Opening(r)
      BY <1>3, <1>4
  <2>2. QED
      BY <1>3, <2>1, OpeningAppend
<1>6. QED
    BY <1>1, <1>3, <1>4, <1>5 DEF OnceInv

LEMMA HandleOnce ==
    ASSUME BoardInv, OnceInv, Handle
    PROVE  OnceInv' /\ \A t \in Tasks : card[t] \in Ended => card'[t] # "inProgress"
<1> DEFINE e == Head(inbox)
           r == Tail(inbox)
<1>1. inbox # <<>> /\ inbox \in Seq([kind : Kinds, id : Tasks]) /\ inbox' = r /\ ring' = ring
    BY DEF Handle, BoardInv, Feed
<1>2. /\ OpensOnce(r) /\ Opening(r) \subseteq Opening(inbox)
      /\ e.kind = "started" => e.id \in Opening(inbox) \ Opening(r)
    BY <1>1, OpeningTail DEF OnceInv
<1>3. e \in [kind : Kinds, id : Tasks]
    BY <1>1, HeadAndTail
<1>4. card \in [Tasks -> Statuses \cup {None}]
    BY DEF BoardInv, Cards
<1>5. \/ card' = card
      \/ e.kind = "started" /\ card' = [card EXCEPT ![e.id] = "inProgress"]
      \/ e.kind # "started" /\ card[e.id] # None /\ card' = [card EXCEPT ![e.id] = e.kind]
    BY DEF Handle, Show
<1> HIDE DEF e, r
<1>6. OnceInv'
  <2>1. \A t \in Tasks : t \in Opening(ring) \cup Opening(r) => card'[t] = None
    <3>1. ASSUME NEW t \in Tasks, t \in Opening(ring) \cup Opening(r) PROVE card'[t] = card[t]
      <4>1. card[t] = None
          BY <3>1, <1>2 DEF OnceInv
      <4>2. e.kind = "started" => e.id # t
          BY <3>1, <1>2 DEF OnceInv
      <4>3. QED
          BY <4>1, <4>2, <1>3, <1>4, <1>5
    <3>2. QED
        BY <3>1, <1>2 DEF OnceInv
  <2>2. QED
      BY <1>1, <1>2, <2>1 DEF OnceInv
<1>7. ASSUME NEW t \in Tasks, card[t] \in Ended PROVE card'[t] # "inProgress"
  <2>1. card[t] # None
      BY <1>7, BoardAssumption DEF Statuses
  <2>2. e.kind = "started" => e.id # t
      BY <2>1, <1>2, <1>3 DEF OnceInv
  <2>3. e.kind # "inProgress"
      BY <1>3 DEF Kinds, Ended
  <2>4. QED
      BY <2>2, <2>3, <1>3, <1>4, <1>5, <1>7 DEF Ended
<1>8. QED
    BY <1>6, <1>7

LEMMA OnceStep ==
    ASSUME BoardInv, OnceInv, [BoardNext]_allVars
    PROVE  OnceInv' /\ \A t \in Tasks : card[t] \in Ended => card'[t] # "inProgress"
<1> DEFINE Shut == \A t \in Tasks : card[t] \in Ended => card'[t] # "inProgress"
<1>1. ASSUME card' = card PROVE Shut
    BY <1>1 DEF Ended
<1>2. ASSUME UNCHANGED <<ring, inbox, card>> PROVE OnceInv' /\ Shut
    BY <1>1, <1>2 DEF OnceInv
<1>3. ASSUME NEW t \in Tasks, Announces(t) PROVE OnceInv' /\ Shut
  <2> DEFINE e == Event("started", t)
  <2>1. e \in [kind : Kinds, id : Tasks] /\ e.id = t
      BY DEF Event, Kinds
  <2>2. Emit(e) /\ card' = card /\ pc[t] \notin Begun
      BY <1>3 DEF Announces, Start, Tell, Begun
  <2>3. QED
      BY <1>1, <2>1, <2>2, EmitOnce
<1>4. ASSUME NEW t \in Tasks, Reports(t) PROVE OnceInv' /\ Shut
  <2> DEFINE e == Event(shown'[t], t)
  <2>1. shown'[t] \in Ended
      BY <1>4 DEF BoardInv, TypeOK, Reports, Settle, Ended
  <2>2. e \in [kind : Kinds, id : Tasks] /\ e.kind # "started"
      BY <2>1 DEF Event, Kinds, Ended
  <2>3. Emit(e) /\ card' = card
      BY <1>4 DEF Reports, Tell
  <2> HIDE DEF e
  <2>4. QED
      BY <1>1, <2>2, <2>3, EmitOnce
<1>5. ASSUME NEW t \in Tasks, ConfirmsPause(t) PROVE OnceInv' /\ Shut
  <2> DEFINE e == Event("paused", t)
  <2>1. e \in [kind : Kinds, id : Tasks] /\ e.kind # "started"
      BY DEF Event, Kinds
  <2>2. Emit(e) /\ card' = card
      BY <1>5 DEF ConfirmsPause, Tell
  <2>3. QED
      BY <1>1, <2>1, <2>2, EmitOnce
<1>6. ASSUME Forwards PROVE OnceInv' /\ Shut
  <2>1. card' = card /\ (Lagged \/ Deliver)
      BY <1>6 DEF Forwards, Forward
  <2>2. CASE Lagged
      BY <1>2, <2>1, <2>2 DEF Lagged
  <2>3. CASE Deliver
    <3> DEFINE e == Head(ring)
    <3>1. ring # <<>> /\ inbox' = Append(inbox, e) /\ ring' = Tail(ring)
        BY <2>3 DEF Deliver
    <3>2. ring \in Seq([kind : Kinds, id : Tasks]) /\ inbox \in Seq([kind : Kinds, id : Tasks])
        BY DEF BoardInv, Feed
    <3>3. e \in [kind : Kinds, id : Tasks]
        BY <3>1, <3>2, HeadAndTail
    <3>4. /\ OpensOnce(ring') /\ Opening(ring') \subseteq Opening(ring)
          /\ e.kind = "started" => e.id \in Opening(ring) \ Opening(ring')
        BY <3>1, <3>2, OpeningTail DEF OnceInv
    <3> HIDE DEF e
    <3>5. e.kind = "started" => e.id \notin Opening(inbox)
        BY <3>4 DEF OnceInv
    <3>6. /\ OpensOnce(inbox')
          /\ Opening(inbox') = Opening(inbox) \cup (IF e.kind = "started" THEN {e.id} ELSE {})
        BY <3>1, <3>2, <3>3, <3>5, OpeningAppend DEF OnceInv
    <3>7. OnceInv'
        BY <2>1, <3>4, <3>6 DEF OnceInv
    <3>8. QED
        BY <1>1, <2>1, <3>7
  <2>4. QED
      BY <2>1, <2>2, <2>3
<1>7. CASE Handle
    BY <1>7, HandleOnce
<1>8. ASSUME NEW c \in Calls, CallStep(c) /\ UNCHANGED boardVars PROVE UNCHANGED <<ring, inbox, card>>
    BY <1>8 DEF boardVars, feedVars
<1>9. ASSUME NEW t \in Tasks, Quietly(t) \/ Tap(t) PROVE UNCHANGED <<ring, inbox, card>>
    BY <1>9 DEF Quietly, Tap, boardVars, feedVars
<1>10. ASSUME UNCHANGED allVars PROVE UNCHANGED <<ring, inbox, card>>
    BY <1>10 DEF allVars, boardVars, feedVars
<1>11. QED
    BY <1>2, <1>3, <1>4, <1>5, <1>6, <1>7, <1>8, <1>9, <1>10 DEF BoardNext, SenderStep

\* A card that has ended is never set back to in progress: TransferStarted
\* reaches Dart once for each transfer, and before its end (api/mod.rs:277-305,
\* filedrop_providers.dart:383-401).
THEOREM CardsStayShut == BoardSpec => NeverReopened
<1> DEFINE Shut == \A t \in Tasks : card[t] \in Ended => card'[t] # "inProgress"
<1>1. BoardInit => OnceInv
    BY DEF BoardInit, FeedInit, OnceInv, OpensOnce, Opening
<1>2. BoardInv /\ OnceInv /\ [BoardNext]_allVars => OnceInv' /\ [Shut]_allVars
    BY OnceStep
<1>3. QED
    BY <1>1, <1>2, BoardInvariant, PTL DEF BoardSpec, NeverReopened
=============================================================================
