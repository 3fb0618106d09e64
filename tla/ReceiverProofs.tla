--------------------------- MODULE ReceiverProofs ---------------------------
(***************************************************************************)
(* Proofs about the receiving half, for any number of requests, transfers, *)
(* names and versions of the source files.                                 *)
(***************************************************************************)
EXTENDS Receiver, TLAPS

-----------------------------------------------------------------------------
(* What a write does to the cells of a file.                               *)

\* A write at any position leaves a sequence of cells.
LEMMA WriteAtType ==
    ASSUME NEW c \in Seq(Cells), NEW p \in Nat, NEW x \in Cells
    PROVE  WriteAt(c, p, x) \in Seq(Cells)
<1>1. Hole \in Cells
    BY DEF Cells
<1>2. Len(c) \in Nat /\ \A i \in 1..Len(c) : c[i] \in Cells
    OBVIOUS
<1>3. PICK m \in Nat : WriteAt(c, p, x) =
            [i \in 1..m |-> IF i = p THEN x ELSE IF i <= Len(c) THEN c[i] ELSE Hole]
    BY <1>2 DEF WriteAt
<1>4. QED
    BY <1>1, <1>2, <1>3

\* A write just past the end appends (the cursor of a file that was truncated).
LEMMA WriteAtEnd ==
    ASSUME NEW c \in Seq(Cells), NEW x \in Cells
    PROVE  WriteAt(c, Len(c) + 1, x) = Append(c, x)
<1> DEFINE w == WriteAt(c, Len(c) + 1, x)
<1>1. Len(c) \in Nat
    OBVIOUS
<1>2. w = [i \in 1..(Len(c) + 1) |-> IF i = Len(c) + 1 THEN x ELSE c[i]]
    BY <1>1 DEF WriteAt
<1>3. QED
    BY <1>1, <1>2

-----------------------------------------------------------------------------
(* Type correctness.                                                       *)

LEMMA RequestFields ==
    ASSUME NEW r \in Requests
    PROVE  /\ r.id \in Ids /\ r.total \in Nat /\ r.sha \in Versions \cup {NoSha}
           /\ r.offset \in Nat /\ r.body \in Versions
           /\ r # None
BY ReceiverAssumption DEF RequestType

\* A handler at work has a request with well-typed fields and an open file.
LEMMA AtWork ==
    ASSUME TypeOK, NEW h \in Handlers, Live(h) \/ h \in inflight
    PROVE  /\ req[h] \in Requests /\ fd[h] \in Handlers
           /\ req[h].id \in Ids /\ req[h].offset \in Nat /\ req[h].body \in Versions
           /\ req[h].total \in Nat /\ req[h].sha \in Versions \cup {NoSha}
           /\ FileName[req[h].id] \in Names
<1>1. req[h] \in Requests /\ fd[h] \in Handlers
    BY DEF TypeOK, Anchored, HandlerTypes
<1>2. QED
    BY <1>1, RequestFields, ReceiverAssumption

LEMMA StepHandlerTypes == TypeOK /\ [Next]_vars => HandlerTypes'
<1> SUFFICES ASSUME TypeOK, [Next]_vars PROVE HandlerTypes'
    OBVIOUS
<1> USE DEF handlerVars, HandlerTypes, GoTo, Answer, Working
<1> HandlerTypes
    BY DEF TypeOK
<1>1. ASSUME NEW h \in Handlers, NEW r \in Requests, Open(h, r) PROVE HandlerTypes'
  <2>1. r.offset \in Nat /\ r.id \in Ids
      BY RequestFields
  <2>2. staging[r.id] \in Handlers \cup {None}
      BY <2>1 DEF TypeOK, DiskTypes
  <2>3. QED
      BY <1>1, <2>1, <2>2 DEF Open
<1>2. ASSUME NEW h \in Handlers, RefuseRequest(h) \/ Register(h) \/ SeekFails(h) PROVE HandlerTypes'
  <2>1. UNCHANGED <<req, fd, written, hashed, inflight>>
      BY <1>2 DEF RefuseRequest, Register, SeekFails
  <2>2. \E l \in {"stream", "done"} : pc' = [pc EXCEPT ![h] = l]
      BY <1>2 DEF RefuseRequest, Register, SeekFails
  <2>3. resp' = resp \/ \E c \in Codes : resp' = [resp EXCEPT ![h] = c]
      BY <1>2 DEF Codes, RefuseRequest, Register, SeekFails
  <2>4. pc' \in [Handlers -> Working \cup {"idle", "done", "dropped"}]
      BY <2>2
  <2>5. resp' \in [Handlers -> Codes \cup {None}]
      BY <2>3
  <2>6. QED
      BY <2>1, <2>4, <2>5
<1>3. ASSUME NEW h \in Handlers, WriteChunk(h) PROVE HandlerTypes'
  <2>1. req[h].body \in Versions
      BY <1>3, AtWork DEF WriteChunk, Live
  <2>2. QED
      BY <1>3, <2>1 DEF WriteChunk
<1>4. ASSUME NEW h \in Handlers, Loop(h), ~WriteChunk(h) PROVE HandlerTypes'
  <2>1. UNCHANGED <<req, fd, written, hashed>> /\ inflight' \subseteq inflight
      BY <1>4 DEF Loop, AbortCancelled, TakeChunk, WriteFails, BodyError, BodyEnd, FlushFails
  <2>2. \E l \in Working \cup {"done"} : pc' = [pc EXCEPT ![h] = l]
      BY <1>4 DEF Loop, AbortCancelled, TakeChunk, WriteFails, BodyError, BodyEnd, FlushFails
  <2>3. resp' = resp \/ \E c \in Codes : resp' = [resp EXCEPT ![h] = c]
      BY <1>4 DEF Codes, Loop, AbortCancelled, TakeChunk, WriteFails, BodyError, BodyEnd, FlushFails
  <2>4. pc' \in [Handlers -> Working \cup {"idle", "done", "dropped"}]
      BY <2>2
  <2>5. resp' \in [Handlers -> Codes \cup {None}]
      BY <2>3
  <2>6. QED
      BY <2>1, <2>4, <2>5
<1>5. ASSUME NEW h \in Handlers, Epilogue(h) PROVE HandlerTypes'
  <2> USE DEF Epilogue, Partial, SizeMatches, VerifyMatches, VerifyMismatch,
              VerifyFails, Unlink, Rename, RenameFails, Complete
  <2>1. UNCHANGED <<req, fd, written, hashed, inflight>>
      BY <1>5
  <2>2. \E l \in Working \cup {"done"} : pc' = [pc EXCEPT ![h] = l]
      BY <1>5
  <2>3. resp' = resp \/ \E c \in Codes : resp' = [resp EXCEPT ![h] = c]
      BY <1>5 DEF Codes
  <2>4. pc' \in [Handlers -> Working \cup {"idle", "done", "dropped"}]
      BY <2>2
  <2>5. resp' \in [Handlers -> Codes \cup {None}]
      BY <2>3
  <2>6. QED
      BY <2>1, <2>4, <2>5
<1>6. ASSUME NEW h \in Handlers, Land(h) \/ Drop(h) PROVE HandlerTypes'
  <2>1. UNCHANGED <<req, fd, written, hashed, resp>> /\ inflight' \subseteq inflight
      BY <1>6 DEF Land, Drop
  <2>2. pc' = pc \/ pc' = [pc EXCEPT ![h] = "dropped"]
      BY <1>6 DEF Land, Drop
  <2>3. QED
      BY <2>1, <2>2
<1>7. ASSUME Crash PROVE HandlerTypes'
    BY <1>7 DEF Crash
<1>8. ASSUME NEW t \in Ids, Control(t) PROVE HandlerTypes'
    BY <1>8 DEF Control, Pause, Resume, Cancel
<1>9. QED
    BY <1>1, <1>2, <1>3, <1>4, <1>5, <1>6, <1>7, <1>8 DEF Next, Background, HandlerStep, vars

LEMMA StepSessionTypes == TypeOK /\ [Next]_vars => SessionTypes'
<1> SUFFICES ASSUME TypeOK, [Next]_vars PROVE SessionTypes'
    OBVIOUS
<1> USE DEF sessionVars, SessionTypes, Unregister
<1> SessionTypes
    BY DEF TypeOK
<1>1. ASSUME NEW h \in Handlers, Register(h) PROVE SessionTypes'
  <2>1. req[h].offset \in Nat
      BY <1>1, AtWork DEF Register, Live, Working
  <2>2. QED
      BY <1>1, <2>1 DEF Register
<1>2. ASSUME NEW h \in Handlers, Loop(h) PROVE SessionTypes'
    BY <1>2 DEF Loop, AbortCancelled, TakeChunk, WriteChunk, WriteFails, BodyError, BodyEnd, FlushFails
<1>3. ASSUME NEW h \in Handlers, Epilogue(h) PROVE SessionTypes'
    BY <1>3 DEF Epilogue, Partial, SizeMatches, VerifyMatches, VerifyMismatch,
                VerifyFails, Unlink, Rename, RenameFails, Complete
<1>4. ASSUME NEW t \in Ids, Control(t) PROVE SessionTypes'
    BY <1>4 DEF Control, Pause, Resume, Cancel
<1>5. ASSUME Crash PROVE SessionTypes'
    BY <1>5 DEF Crash
<1>6. ASSUME NEW h \in Handlers,
             RefuseRequest(h) \/ SeekFails(h) \/ Land(h) \/ Drop(h) \/ \E r \in Requests : Open(h, r)
      PROVE  SessionTypes'
    BY <1>6 DEF RefuseRequest, SeekFails, Land, Drop, Open
<1>7. QED
    BY <1>1, <1>2, <1>3, <1>4, <1>5, <1>6 DEF Next, Background, HandlerStep, vars

LEMMA StepDiskTypes == TypeOK /\ [Next]_vars => DiskTypes' /\ ObserverTypes'
<1> SUFFICES ASSUME TypeOK, [Next]_vars PROVE DiskTypes' /\ ObserverTypes'
    OBVIOUS
<1> USE DEF diskVars, observers, DiskTypes, ObserverTypes
<1> DiskTypes /\ ObserverTypes
    BY DEF TypeOK
<1>1. ASSUME NEW h \in Handlers, NEW r \in Requests, Open(h, r) PROVE DiskTypes' /\ ObserverTypes'
  <2>1. r.id \in Ids
      BY RequestFields
  <2>2. QED
      BY <1>1, <2>1 DEF Open
<1>2. ASSUME NEW h \in Handlers, Land(h) PROVE DiskTypes' /\ ObserverTypes'
  <2>1. fd[h] \in Handlers /\ req[h].body \in Cells /\ written[h] \in Nat
      BY <1>2, AtWork DEF Land, Cells, TypeOK, HandlerTypes
  <2>2. WriteAt(content[fd[h]], written[h], req[h].body) \in Seq(Cells)
      BY <2>1, WriteAtType
  <2>3. QED
      BY <1>2, <2>1, <2>2 DEF Land
<1>3. ASSUME NEW h \in Handlers, Rename(h) \/ Unlink(h) PROVE DiskTypes' /\ ObserverTypes'
  <2>1. req[h].id \in Ids /\ FileName[req[h].id] \in Names
      BY <1>3, AtWork DEF Rename, Unlink, Live, Working
  <2>2. QED
      BY <1>3, <2>1 DEF Rename, Unlink
<1>4. ASSUME NEW h \in Handlers, Loop(h) PROVE UNCHANGED <<diskVars, observers>>
    BY <1>4 DEF Loop, AbortCancelled, TakeChunk, WriteChunk, WriteFails, BodyError, BodyEnd, FlushFails
<1>5. ASSUME NEW h \in Handlers, Epilogue(h), ~(Rename(h) \/ Unlink(h)) PROVE UNCHANGED <<diskVars, observers>>
    BY <1>5 DEF Epilogue, Partial, SizeMatches, VerifyMatches, VerifyMismatch,
                VerifyFails, RenameFails, Complete
<1>6. ASSUME NEW h \in Handlers, RefuseRequest(h) \/ Register(h) \/ SeekFails(h) \/ Drop(h)
      PROVE  UNCHANGED <<diskVars, observers>>
    BY <1>6 DEF RefuseRequest, Register, SeekFails, Drop
<1>7. ASSUME NEW t \in Ids, Control(t) PROVE UNCHANGED <<diskVars, observers>>
    BY <1>7 DEF Control, Pause, Resume, Cancel
<1>8. ASSUME Crash PROVE UNCHANGED <<diskVars, observers>>
    BY <1>8 DEF Crash
<1>9. ASSUME UNCHANGED <<diskVars, observers>> PROVE DiskTypes' /\ ObserverTypes'
    BY <1>9
<1>10. QED
    BY <1>1, <1>2, <1>3, <1>4, <1>5, <1>6, <1>7, <1>8, <1>9 DEF Next, Background, HandlerStep, vars

\* No step but Open starts a handler or changes what it works on.
LEMMA BackgroundFrame ==
    ASSUME TypeOK, Background
    PROVE  /\ UNCHANGED <<req, fd>>
           /\ \A g \in Handlers : Live(g)' => Live(g)
           /\ \A g \in Handlers : g \in inflight' => Live(g) \/ g \in inflight
<1> USE DEF handlerVars, GoTo, Working, Live, HandlerTypes
<1> HandlerTypes
    BY DEF TypeOK
<1> DEFINE Goal == /\ UNCHANGED <<req, fd>>
                   /\ \A g \in Handlers : Live(g)' => Live(g)
                   /\ \A g \in Handlers : g \in inflight' => Live(g) \/ g \in inflight
<1>1. ASSUME NEW h \in Handlers, RefuseRequest(h) \/ Register(h) \/ SeekFails(h) PROVE Goal
    BY <1>1 DEF RefuseRequest, Register, SeekFails
<1>2. ASSUME NEW h \in Handlers, Loop(h) PROVE Goal
    BY <1>2 DEF Loop, AbortCancelled, TakeChunk, WriteChunk, WriteFails, BodyError, BodyEnd, FlushFails
<1>3. ASSUME NEW h \in Handlers, Epilogue(h) PROVE Goal
    BY <1>3 DEF Epilogue, Partial, SizeMatches, VerifyMatches, VerifyMismatch,
                VerifyFails, Unlink, Rename, RenameFails, Complete
<1>4. ASSUME NEW h \in Handlers, Land(h) \/ Drop(h) PROVE Goal
    BY <1>4 DEF Land, Drop
<1>5. ASSUME NEW t \in Ids, Control(t) PROVE Goal
    BY <1>5 DEF Control, Pause, Resume, Cancel
<1>6. ASSUME Crash PROVE Goal
    BY <1>6 DEF Crash
<1>7. QED
    BY <1>1, <1>2, <1>3, <1>4, <1>5, <1>6 DEF Background, HandlerStep

\* The received-files directory changes in Rename alone.
LEMMA FinalFrame ==
    ASSUME Background, \A h \in Handlers : ~Rename(h)
    PROVE  UNCHANGED <<final, committer>>
<1> USE DEF diskVars, observers
<1>1. ASSUME NEW h \in Handlers, RefuseRequest(h) \/ Register(h) \/ SeekFails(h)
      PROVE  UNCHANGED <<final, committer>>
    BY <1>1 DEF RefuseRequest, Register, SeekFails
<1>2. ASSUME NEW h \in Handlers, Loop(h) PROVE UNCHANGED <<final, committer>>
    BY <1>2 DEF Loop, AbortCancelled, TakeChunk, WriteChunk, WriteFails, BodyError, BodyEnd, FlushFails
<1>3. ASSUME NEW h \in Handlers, Epilogue(h) PROVE UNCHANGED <<final, committer>>
    BY <1>3 DEF Epilogue, Partial, SizeMatches, VerifyMatches, VerifyMismatch,
                VerifyFails, Unlink, RenameFails, Complete
<1>4. ASSUME NEW h \in Handlers, Land(h) \/ Drop(h) PROVE UNCHANGED <<final, committer>>
    BY <1>4 DEF Land, Drop
<1>5. ASSUME NEW t \in Ids, Control(t) PROVE UNCHANGED <<final, committer>>
    BY <1>5 DEF Control, Pause, Resume, Cancel
<1>6. ASSUME Crash PROVE UNCHANGED <<final, committer>>
    BY <1>6 DEF Crash
<1>7. QED
    BY <1>1, <1>2, <1>3, <1>4, <1>5, <1>6 DEF Background, HandlerStep

LEMMA StepAnchored == TypeOK /\ [Next]_vars => Anchored'
<1> SUFFICES ASSUME TypeOK, [Next]_vars PROVE Anchored'
    OBVIOUS
<1> Anchored
    BY DEF TypeOK
<1>1. ASSUME NEW h \in Handlers, NEW r \in Requests, Open(h, r) PROVE Anchored'
  <2>1. /\ fd' = [fd EXCEPT ![h] = IF staging[r.id] = None THEN h ELSE staging[r.id]]
        /\ req' = [req EXCEPT ![h] = r]
        /\ pc' = [pc EXCEPT ![h] = "opened"]
        /\ UNCHANGED <<final, committer, inflight>>
      BY <1>1 DEF Open, GoTo
  <2>2. r # None /\ h # None
      BY RequestFields, ReceiverAssumption
  <2>3. \A g \in Handlers : g # h => (Live(g)' => Live(g))
      BY <2>1 DEF Live, TypeOK, HandlerTypes
  <2>4. fd'[h] # None /\ req'[h] # None
      BY <2>1, <2>2 DEF TypeOK, HandlerTypes
  <2>5. \A g \in Handlers : g # h => fd'[g] = fd[g] /\ req'[g] = req[g]
      BY <2>1 DEF TypeOK, HandlerTypes
  <2>6. \A n \in Names : committer[n] \in Handlers \cup {None}
      BY DEF TypeOK, ObserverTypes
  <2>7. QED
      BY <2>1, <2>3, <2>4, <2>5, <2>6 DEF Anchored
<1>2. CASE Background
  <2>1. \A h \in Handlers : (Live(h) \/ h \in inflight)' => req[h]' # None /\ fd[h]' # None
      BY <1>2, BackgroundFrame DEF Anchored
  <2>2. CASE \A h \in Handlers : ~Rename(h)
      BY <2>1, <2>2, <1>2, FinalFrame, BackgroundFrame DEF Anchored
  <2>3. ASSUME NEW h \in Handlers, Rename(h) PROVE Anchored'
    <3>1. req[h] # None /\ h # None /\ FileName[req[h].id] \in Names
        BY <2>3, AtWork, ReceiverAssumption DEF Rename, Live, Working, Anchored
    <3>2. \A n \in Names : n # FileName[req[h].id] => final'[n] = final[n] /\ committer'[n] = committer[n]
        BY <2>3 DEF Rename, TypeOK, DiskTypes, ObserverTypes
    <3>3. committer'[FileName[req[h].id]] = h
        BY <2>3, <3>1 DEF Rename, TypeOK, ObserverTypes
    <3>4. QED
        BY <1>2, <2>1, <3>1, <3>2, <3>3, BackgroundFrame DEF Anchored
  <2>4. QED
      BY <2>2, <2>3
<1>3. CASE UNCHANGED vars
    BY <1>3 DEF vars, handlerVars, diskVars, observers, Anchored, Live
<1>4. QED
    BY <1>1, <1>2, <1>3 DEF Next

LEMMA TypeStep == TypeOK /\ [Next]_vars => TypeOK'
BY StepHandlerTypes, StepSessionTypes, StepDiskTypes, StepAnchored DEF TypeOK

\* Every state a server can reach, with requests that overlap in any way, is
\* type-correct.
THEOREM TypeCorrect == Spec => []TypeOK
<1>1. Init => TypeOK
    BY ReceiverAssumption
       DEF Init, TypeOK, HandlerTypes, SessionTypes, DiskTypes, ObserverTypes, Anchored, Live, Working
<1>2. QED
    BY <1>1, TypeStep, PTL DEF Spec

-----------------------------------------------------------------------------
(* The received files are verified.                                        *)

Streaming == {"opened", "stream", "hold", "flushed", "verify"}
MayHoldWrite == {"stream", "hold", "unlink", "done", "dropped"}

\* What a step leaves alone that neither opens, writes, removes nor renames a file.
Tame ==
    /\ UNCHANGED <<req, fd, written, hashed, content, staging, final, committer>>
    /\ \A g \in Handlers :
        /\ pc'[g] = "idle" => pc[g] = "idle"
        /\ Live(g)' => Live(g)
        /\ pc[g] = "commit" => pc'[g] = "commit" \/ ~Live(g)'
        /\ pc'[g] \in Streaming =>
              pc[g] \in Streaming /\ (g \in inflight' <=> g \in inflight)
        /\ pc'[g] = "rename" =>
              pc[g] = "rename" \/ VerifyMatches(g) \/ req[g].sha = NoSha
        /\ g \in inflight' =>
              g \in inflight /\ (pc'[g] = pc[g] \/ pc'[g] \in MayHoldWrite)

\* The part of Tame that is about a single handler's program counter.
LEMMA TameByPc ==
    ASSUME TypeOK, NEW h \in Handlers, NEW l,
           UNCHANGED <<req, fd, written, hashed, content, staging, final, committer>>,
           pc' = [pc EXCEPT ![h] = l],
           inflight' = inflight \/ (inflight' = inflight \ {h} /\ l = "done"),
           \/ l \in {"done", "dropped"} /\ (Live(h) \/ pc[h] = "idle")
           \/ Live(h) /\ pc[h] # "commit" /\
              \/ l \in {"stream", "hold"} /\ pc[h] \in Streaming
              \/ l = "unlink"
              \/ l \in {"flushed", "verify"} /\ pc[h] \in Streaming /\ h \notin inflight
              \/ l = "rename" /\ h \notin inflight /\ (VerifyMatches(h) \/ req[h].sha = NoSha)
    PROVE  Tame
<1>1. pc \in [Handlers -> Working \cup {"idle", "done", "dropped"}]
    BY DEF TypeOK, HandlerTypes
<1>2. ASSUME NEW g \in Handlers, g # h PROVE pc'[g] = pc[g] /\ (g \in inflight' <=> g \in inflight)
    BY <1>1, <1>2
<1>3. pc'[h] = l /\ (h \in inflight' => h \in inflight)
    BY <1>1
<1>4. QED
    BY <1>1, <1>2, <1>3 DEF Tame, Live, Working, Streaming, MayHoldWrite

\* The steps that touch the disk or what a handler hashed.
Touches(h) == WriteChunk(h) \/ Land(h) \/ Unlink(h) \/ Rename(h)

LEMMA TameStep ==
    ASSUME TypeOK, SoleWriter, Background \/ UNCHANGED vars, \A h \in Handlers : ~Touches(h)
    PROVE  Tame
<1> USE DEF handlerVars, diskVars, observers, GoTo, Touches
<1>0. \A h \in Handlers : h \in inflight => pc[h] \in MayHoldWrite
    BY DEF SoleWriter, MayHoldWrite
<1>1. ASSUME NEW h \in Handlers, RefuseRequest(h) \/ Register(h) \/ SeekFails(h) PROVE Tame
  <2>1. UNCHANGED <<req, fd, written, hashed, content, staging, final, committer, inflight>>
      BY <1>1 DEF RefuseRequest, Register, SeekFails
  <2>2. \/ pc' = [pc EXCEPT ![h] = "done"] /\ (Live(h) \/ pc[h] = "idle")
        \/ pc' = [pc EXCEPT ![h] = "stream"] /\ pc[h] = "opened"
      BY <1>1 DEF RefuseRequest, Register, SeekFails, Live, Working
  <2>3. QED
      BY <2>1, <2>2, TameByPc DEF Live, Working, Streaming
<1>2. ASSUME NEW h \in Handlers, Loop(h) PROVE Tame
  <2>1. UNCHANGED <<req, fd, written, hashed, content, staging, final, committer>>
      BY <1>2 DEF Loop, AbortCancelled, TakeChunk, WriteFails, BodyError, BodyEnd, FlushFails
  <2>2. CASE AbortCancelled(h) \/ TakeChunk(h)
    <3>1. pc[h] = "stream" /\ inflight' = inflight
        BY <2>2 DEF AbortCancelled, TakeChunk
    <3>2. pc' = [pc EXCEPT ![h] = "unlink"] \/ pc' = [pc EXCEPT ![h] = "hold"]
        BY <2>2 DEF AbortCancelled, TakeChunk
    <3>3. QED
        BY <2>1, <3>1, <3>2, TameByPc DEF Live, Working, Streaming
  <2>3. CASE BodyEnd(h)
    <3>1. pc[h] = "stream" /\ inflight' = inflight /\ h \notin inflight /\ pc' = [pc EXCEPT ![h] = "flushed"]
        BY <2>3 DEF BodyEnd
    <3>2. QED
        BY <2>1, <3>1, TameByPc DEF Live, Working, Streaming
  <2>4. CASE WriteFails(h) \/ BodyError(h) \/ FlushFails(h)
    <3>1. pc[h] \in {"stream", "hold"} /\ pc' = [pc EXCEPT ![h] = "done"]
        BY <2>4 DEF WriteFails, BodyError, FlushFails
    <3>2. inflight' = inflight \/ inflight' = inflight \ {h}
        BY <2>4 DEF WriteFails, BodyError, FlushFails
    <3>3. QED
        BY <2>1, <3>1, <3>2, TameByPc DEF Live, Working
  <2>5. QED
      BY <1>2, <2>2, <2>3, <2>4 DEF Loop
<1>3. ASSUME NEW h \in Handlers, Epilogue(h) PROVE Tame
  <2>1. UNCHANGED <<req, fd, written, hashed, content, staging, final, committer, inflight>>
      BY <1>3 DEF Epilogue, Partial, SizeMatches, VerifyMatches, VerifyMismatch, VerifyFails, RenameFails, Complete
  <2>2. CASE Partial(h) \/ VerifyFails(h) \/ RenameFails(h) \/ Complete(h)
    <3>1. Live(h) /\ pc' = [pc EXCEPT ![h] = "done"]
        BY <2>2 DEF Partial, VerifyFails, RenameFails, Complete, Live, Working
    <3>2. QED
        BY <2>1, <3>1, TameByPc
  <2>3. CASE SizeMatches(h)
    <3>1. pc[h] = "flushed" /\ pc' = [pc EXCEPT ![h] = IF req[h].sha = NoSha THEN "rename" ELSE "verify"]
        BY <2>3 DEF SizeMatches
    <3>2. h \notin inflight
        BY <1>0, <3>1 DEF MayHoldWrite
    <3>3. QED
        BY <2>1, <3>1, <3>2, TameByPc DEF Live, Working, Streaming
  <2>4. CASE VerifyMatches(h)
    <3>1. pc[h] = "verify" /\ pc' = [pc EXCEPT ![h] = "rename"]
        BY <2>4 DEF VerifyMatches
    <3>2. h \notin inflight
        BY <1>0, <3>1 DEF MayHoldWrite
    <3>3. QED
        BY <2>1, <2>4, <3>1, <3>2, TameByPc DEF Live, Working
  <2>5. CASE VerifyMismatch(h)
    <3>1. pc[h] = "verify" /\ pc' = [pc EXCEPT ![h] = "unlink"]
        BY <2>5 DEF VerifyMismatch
    <3>2. QED
        BY <2>1, <3>1, TameByPc DEF Live, Working
  <2>6. QED
      BY <1>3, <2>2, <2>3, <2>4, <2>5 DEF Epilogue
<1>4. ASSUME NEW h \in Handlers, Drop(h) PROVE Tame
  <2>1. /\ UNCHANGED <<req, fd, written, hashed, content, staging, final, committer, inflight>>
        /\ Live(h) /\ pc' = [pc EXCEPT ![h] = "dropped"]
      BY <1>4 DEF Drop
  <2>2. QED
      BY <2>1, TameByPc
<1>5. ASSUME Crash PROVE Tame
  <2>1. /\ UNCHANGED <<req, fd, written, hashed, content, staging, final, committer>>
        /\ pc' = [g \in Handlers |-> IF Live(g) THEN "dropped" ELSE pc[g]]
        /\ inflight' = {}
      BY <1>5 DEF Crash
  <2>2. QED
      BY <2>1 DEF Tame, Live, Working, Streaming
<1>6. ASSUME UNCHANGED <<handlerVars, diskVars, observers>> PROVE Tame
    BY <1>6 DEF Tame, Live
<1>7. ASSUME NEW t \in Ids, Control(t) PROVE Tame
    BY <1>6, <1>7 DEF Control, Pause, Resume, Cancel
<1>8. QED
    BY <1>1, <1>2, <1>3, <1>4, <1>5, <1>6, <1>7 DEF Background, HandlerStep, vars

\* The invariant is preserved by the steps that leave the disk alone.
LEMMA TameKeeps ==
    ASSUME TypeOK, IInv, ReceivedVerified, Tame
    PROVE  IInv' /\ ReceivedVerified'
<1> USE DEF IInv
<1>1. Untouched'
    BY DEF Tame, Untouched
<1>2. OneName'
    BY DEF Tame, OneName
<1>3. \A h \in Handlers : h \in inflight => pc[h] \in MayHoldWrite
    BY DEF SoleWriter, MayHoldWrite
<1>4. \A h \in Handlers : Active(h)' => Active(h)
    BY DEF Tame, Active
<1>5. SoleWriter'
  <2>1. \A g, h \in Handlers : (Active(g)' /\ Active(h)' /\ req[g].id = req[h].id) => g = h
      BY <1>4 DEF SoleWriter
  <2>2. \A h \in Handlers : h \in inflight' => pc'[h] \in MayHoldWrite
      BY <1>3 DEF Tame
  <2>3. ASSUME NEW h \in Handlers, Active(h)', pc'[h] # "commit"
        PROVE  /\ Live(h)' => staging[req[h].id] = fd[h]
               /\ \A n \in Names : final[n] # fd[h]
               /\ \A t \in Ids : t # req[h].id => staging[t] # fd[h]
    <3>1. pc[h] # "commit"
        BY <1>3, <2>3 DEF Tame, Active, MayHoldWrite
    <3>2. QED
        BY <1>4, <2>3, <3>1 DEF SoleWriter, Tame
  <2>4. QED
      BY <2>1, <2>2, <2>3 DEF SoleWriter, Tame, MayHoldWrite
<1>6. HashFollowsDisk'
    BY DEF Tame, HashFollowsDisk, Streaming
<1>7. CheckedStaysChecked'
  <2> SUFFICES ASSUME NEW h \in Handlers, pc'[h] = "rename", req[h].sha # NoSha
               PROVE  content[fd[h]] = Digest(req[h].sha)
      BY DEF CheckedStaysChecked, Tame
  <2>1. CASE pc[h] = "rename"
      BY <2>1 DEF CheckedStaysChecked
  <2>2. CASE VerifyMatches(h)
    <3>1. pc[h] = "verify" /\ Actual(h) = Digest(req[h].sha)
        BY <2>2 DEF VerifyMatches
    <3>2. h \notin inflight
        BY <1>3, <3>1 DEF MayHoldWrite
    <3>3. staging[req[h].id] = fd[h]
        BY <3>1 DEF SoleWriter, Active, Live, Working
    <3>4. req[h].offset = 0 => hashed[h] = content[fd[h]]
        BY <3>1, <3>2 DEF HashFollowsDisk
    <3>5. QED
        BY <3>1, <3>3, <3>4 DEF Actual
  <2>3. QED
      BY <2>1, <2>2 DEF Tame
<1>8. ReceivedVerified'
    BY DEF Tame, ReceivedVerified
<1>9. QED
    BY <1>1, <1>2, <1>5, <1>6, <1>7, <1>8

LEMMA WriteChunkKeeps ==
    ASSUME TypeOK, IInv, ReceivedVerified, NEW h \in Handlers, WriteChunk(h)
    PROVE  IInv' /\ ReceivedVerified'
<1> USE DEF IInv
<1>1. /\ pc[h] = "hold" /\ h \notin inflight
      /\ pc' = [pc EXCEPT ![h] = "stream"]
      /\ hashed' = [hashed EXCEPT ![h] = Append(@, req[h].body)]
      /\ inflight' = inflight \cup {h}
      /\ written' = [written EXCEPT ![h] = @ + 1]
      /\ UNCHANGED <<req, fd, content, staging, final, committer>>
    BY DEF WriteChunk, GoTo, diskVars, observers
<1>2. /\ pc'[h] = "stream"
      /\ \A g \in Handlers : g # h => pc'[g] = pc[g] /\ hashed'[g] = hashed[g] /\ written'[g] = written[g]
      /\ hashed'[h] = Append(hashed[h], req[h].body) /\ written'[h] = written[h] + 1
    BY <1>1 DEF TypeOK, HandlerTypes
<1>3. Untouched'
    BY <1>1, <1>2 DEF Untouched
<1>4. OneName'
    BY <1>1 DEF OneName
<1>5. \A g \in Handlers : (Live(g)' <=> Live(g)) /\ (Active(g)' <=> Active(g))
    BY <1>1, <1>2 DEF Active, Live, Working
<1>6. SoleWriter'
    BY <1>1, <1>2, <1>5 DEF SoleWriter
<1>7. HashFollowsDisk'
  <2> SUFFICES ASSUME NEW g \in Handlers, pc'[g] \in Streaming, req[g].offset = 0
               PROVE  IF g \in inflight'
                      THEN /\ hashed'[g] = Append(content[fd[g]], req[g].body)
                           /\ written'[g] = Len(content[fd[g]]) + 1
                      ELSE /\ hashed'[g] = content[fd[g]]
                           /\ written'[g] = Len(content[fd[g]])
      BY <1>1 DEF HashFollowsDisk, Streaming
  <2>1. CASE g = h
      BY <1>1, <1>2, <2>1 DEF HashFollowsDisk
  <2>2. CASE g # h
      BY <1>1, <1>2, <2>2 DEF HashFollowsDisk, Streaming
  <2>3. QED
      BY <2>1, <2>2
<1>8. CheckedStaysChecked'
    BY <1>1, <1>2 DEF CheckedStaysChecked
<1>9. ReceivedVerified'
    BY <1>1 DEF ReceivedVerified
<1>10. QED
    BY <1>3, <1>4, <1>6, <1>7, <1>8, <1>9

\* A write reaches neither another transfer's .part nor a received file.
LEMMA LandKeeps ==
    ASSUME TypeOK, IInv, ReceivedVerified, NEW h \in Handlers, Land(h)
    PROVE  IInv' /\ ReceivedVerified'
<1> USE DEF IInv
<1>1. /\ h \in inflight /\ inflight' = inflight \ {h}
      /\ content' = [content EXCEPT ![fd[h]] = WriteAt(@, written[h], req[h].body)]
      /\ UNCHANGED <<pc, req, fd, written, hashed, staging, final, committer>>
    BY DEF Land, observers
<1>2. fd[h] \in Handlers /\ req[h].id \in Ids /\ req[h].body \in Cells
    BY <1>1, AtWork DEF Cells
<1>3. /\ content'[fd[h]] = WriteAt(content[fd[h]], written[h], req[h].body)
      /\ \A i \in Handlers : i # fd[h] => content'[i] = content[i]
    BY <1>1, <1>2 DEF TypeOK, DiskTypes
<1>4. pc[h] \in MayHoldWrite
    BY <1>1 DEF SoleWriter, MayHoldWrite
<1>5. /\ \A n \in Names : final[n] # fd[h]
      /\ \A t \in Ids : t # req[h].id => staging[t] # fd[h]
    BY <1>1, <1>4 DEF SoleWriter, Active, MayHoldWrite
<1>6. ASSUME NEW g \in Handlers, g # h, Live(g), pc[g] # "commit"
      PROVE  content'[fd[g]] = content[fd[g]]
  <2>1. req[g].id # req[h].id
      BY <1>1, <1>6 DEF SoleWriter, Active
  <2>2. staging[req[g].id] = fd[g] /\ req[g].id \in Ids /\ fd[g] \in Handlers
      BY <1>6, AtWork DEF SoleWriter, Active
  <2>3. QED
      BY <1>3, <1>5, <2>1, <2>2
<1>7. Untouched'
    BY <1>1, <1>3 DEF Untouched
<1>8. OneName'
    BY <1>1 DEF OneName
<1>9. SoleWriter'
  <2>1. \A g \in Handlers : (Live(g)' <=> Live(g)) /\ (Active(g)' => Active(g))
      BY <1>1 DEF Active, Live
  <2>2. QED
      BY <1>1, <2>1 DEF SoleWriter
<1>10. HashFollowsDisk'
  <2> SUFFICES ASSUME NEW g \in Handlers, pc[g] \in Streaming, req[g].offset = 0
               PROVE  IF g \in inflight'
                      THEN /\ hashed[g] = Append(content'[fd[g]], req[g].body)
                           /\ written[g] = Len(content'[fd[g]]) + 1
                      ELSE /\ hashed[g] = content'[fd[g]]
                           /\ written[g] = Len(content'[fd[g]])
      BY <1>1 DEF HashFollowsDisk, Streaming
  <2>1. CASE g = h
    <3>1. hashed[h] = Append(content[fd[h]], req[h].body) /\ written[h] = Len(content[fd[h]]) + 1
        BY <1>1, <2>1 DEF HashFollowsDisk, Streaming
    <3>2. content[fd[h]] \in Seq(Cells)
        BY <1>2 DEF TypeOK, DiskTypes
    <3>3. content'[fd[h]] = Append(content[fd[h]], req[h].body)
        BY <1>2, <1>3, <3>1, <3>2, WriteAtEnd
    <3>4. Len(content'[fd[h]]) = Len(content[fd[h]]) + 1
        BY <1>2, <3>2, <3>3
    <3>5. QED
        BY <1>1, <2>1, <3>1, <3>3, <3>4
  <2>2. CASE g # h
    <3>1. content'[fd[g]] = content[fd[g]]
        BY <1>6, <2>2 DEF Live, Working, Streaming
    <3>2. QED
        BY <1>1, <2>2, <3>1 DEF HashFollowsDisk, Streaming
  <2>3. QED
      BY <2>1, <2>2
<1>11. CheckedStaysChecked'
  <2> SUFFICES ASSUME NEW g \in Handlers, pc[g] = "rename", req[g].sha # NoSha
               PROVE  content'[fd[g]] = Digest(req[g].sha)
      BY <1>1 DEF CheckedStaysChecked
  <2>1. g # h
      BY <1>4 DEF MayHoldWrite
  <2>2. QED
      BY <1>6, <2>1 DEF CheckedStaysChecked, Live, Working
<1>12. ReceivedVerified'
  <2>1. \A n \in Names : final[n] # None => content'[final[n]] = content[final[n]]
      BY <1>3, <1>5 DEF TypeOK, DiskTypes
  <2>2. QED
      BY <1>1, <2>1 DEF ReceivedVerified
<1>13. QED
    BY <1>7, <1>8, <1>9, <1>10, <1>11, <1>12

LEMMA UnlinkKeeps ==
    ASSUME TypeOK, IInv, ReceivedVerified, NEW h \in Handlers, Unlink(h)
    PROVE  IInv' /\ ReceivedVerified'
<1> USE DEF IInv
<1>1. /\ pc[h] = "unlink" /\ pc' = [pc EXCEPT ![h] = "done"]
      /\ staging' = [staging EXCEPT ![req[h].id] = None] \/ UNCHANGED staging
      /\ UNCHANGED <<req, fd, written, hashed, inflight, content, final, committer>>
    BY DEF Unlink, GoTo, observers
<1>2. Live(h)
    BY <1>1 DEF Live, Working
<1>3. fd[h] \in Handlers /\ req[h].id \in Ids
    BY <1>2, AtWork
<1>4. /\ pc'[h] = "done"
      /\ \A g \in Handlers : g # h => pc'[g] = pc[g]
      /\ staging'[req[h].id] \in {None, staging[req[h].id]}
      /\ \A t \in Ids : t # req[h].id => staging'[t] = staging[t]
    BY <1>1, <1>3 DEF TypeOK, HandlerTypes, DiskTypes
<1>5. \A i \in Handlers : i # None
    BY ReceiverAssumption
<1>6. Untouched'
    BY <1>1, <1>4, <1>5 DEF Untouched
<1>7. OneName'
    BY <1>1, <1>4 DEF OneName
<1>8. SoleWriter'
  <2>1. \A g \in Handlers : (Active(g)' => Active(g)) /\ (Live(g)' => Live(g) /\ g # h)
      BY <1>1, <1>4 DEF Active, Live, Working
  <2>2. \A g \in Handlers : (Live(g)' /\ pc'[g] # "commit") => req[g].id # req[h].id
      BY <1>2, <2>1 DEF SoleWriter, Active
  <2>3. \A g \in Handlers : Active(g) => fd[g] # None /\ req[g].id \in Ids
      BY <1>5, AtWork DEF Active
  <2>4. \A g, k \in Handlers : (Active(g)' /\ Active(k)' /\ req[g].id = req[k].id) => g = k
      BY <2>1 DEF SoleWriter
  <2>5. ASSUME NEW g \in Handlers, Active(g)', pc'[g] # "commit"
        PROVE  /\ Live(g)' => staging'[req[g].id] = fd[g]
               /\ \A n \in Names : final[n] # fd[g]
               /\ \A t \in Ids : t # req[g].id => staging'[t] # fd[g]
    <3>1. Active(g) /\ pc[g] # "commit"
        BY <1>1, <1>4, <2>1, <2>5
    <3>2. QED
        BY <1>4, <2>1, <2>2, <2>3, <2>5, <3>1 DEF SoleWriter
  <2>6. QED
      BY <1>1, <1>4, <2>4, <2>5 DEF SoleWriter
<1>9. HashFollowsDisk'
    BY <1>1, <1>4 DEF HashFollowsDisk
<1>10. CheckedStaysChecked'
    BY <1>1, <1>4 DEF CheckedStaysChecked
<1>11. ReceivedVerified'
    BY <1>1 DEF ReceivedVerified
<1>12. QED
    BY <1>6, <1>7, <1>8, <1>9, <1>10, <1>11

\* What is renamed is the checked .part of this handler, and no writer follows it.
LEMMA RenameKeeps ==
    ASSUME TypeOK, IInv, ReceivedVerified, NEW h \in Handlers, Rename(h)
    PROVE  IInv' /\ ReceivedVerified'
<1> USE DEF IInv
<1> DEFINE name == FileName[req[h].id]
<1>1. /\ pc[h] = "rename" /\ pc' = [pc EXCEPT ![h] = "commit"]
      /\ staging[req[h].id] # None
      /\ final' = [final EXCEPT ![name] = staging[req[h].id]]
      /\ staging' = [staging EXCEPT ![req[h].id] = None]
      /\ committer' = [committer EXCEPT ![name] = h]
      /\ UNCHANGED <<req, fd, written, hashed, inflight, content>>
    BY DEF Rename, GoTo
<1>2. Live(h)
    BY <1>1 DEF Live, Working
<1>3. fd[h] \in Handlers /\ req[h].id \in Ids /\ name \in Names
    BY <1>2, AtWork
<1>4. staging[req[h].id] = fd[h]
    BY <1>1, <1>2 DEF SoleWriter, Active
<1> HIDE DEF name
<1>5. /\ pc'[h] = "commit"
      /\ \A g \in Handlers : g # h => pc'[g] = pc[g]
      /\ staging'[req[h].id] = None
      /\ \A t \in Ids : t # req[h].id => staging'[t] = staging[t]
      /\ final'[name] = fd[h] /\ committer'[name] = h
      /\ \A n \in Names : n # name => final'[n] = final[n] /\ committer'[n] = committer[n]
    BY <1>1, <1>3, <1>4 DEF TypeOK, HandlerTypes, DiskTypes, ObserverTypes
<1>6. \A i \in Handlers : i # None
    BY ReceiverAssumption
<1>7. Untouched'
  <2> SUFFICES ASSUME NEW g \in Handlers, pc'[g] = "idle"
               PROVE  /\ hashed[g] = <<>> /\ content[g] = <<>> /\ g \notin inflight
                      /\ \A k \in Handlers : fd[k] # g
                      /\ \A t \in Ids : staging'[t] # g
                      /\ \A n \in Names : final'[n] # g /\ committer'[n] # g
      BY <1>1 DEF Untouched
  <2>1. g # h /\ pc[g] = "idle"
      BY <1>1, <1>5
  <2>2. QED
      BY <1>5, <1>6, <2>1 DEF Untouched
<1>8. OneName'
    BY <1>3, <1>4, <1>5, <1>6 DEF OneName
<1>9. SoleWriter'
  <2>1. \A g \in Handlers : (Active(g)' <=> Active(g)) /\ (Live(g)' <=> Live(g))
      BY <1>1, <1>2, <1>5 DEF Active, Live, Working
  <2>2. ASSUME NEW g \in Handlers, Active(g)', pc'[g] # "commit"
        PROVE  /\ Live(g)' => staging'[req[g].id] = fd[g]
               /\ \A n \in Names : final'[n] # fd[g]
               /\ \A t \in Ids : t # req[g].id => staging'[t] # fd[g]
    <3>1. g # h /\ Active(g) /\ pc[g] # "commit"
        BY <1>1, <1>5, <2>1, <2>2
    <3>2. req[g].id # req[h].id /\ req[g].id \in Ids /\ fd[g] # None
        BY <1>2, <1>6, <3>1, AtWork DEF SoleWriter, Active
    <3>3. fd[g] # fd[h]
        BY <1>3, <1>4, <3>1, <3>2 DEF SoleWriter
    <3>4. QED
        BY <1>3, <1>5, <2>1, <3>1, <3>2, <3>3 DEF SoleWriter
  <2>3. \A g \in Handlers : g \in inflight' => pc'[g] \in MayHoldWrite
      BY <1>1, <1>5 DEF SoleWriter, MayHoldWrite
  <2>4. \A g, k \in Handlers : (Active(g)' /\ Active(k)' /\ req[g].id = req[k].id) => g = k
      BY <2>1 DEF SoleWriter
  <2>5. QED
      BY <1>1, <2>2, <2>3, <2>4 DEF SoleWriter, MayHoldWrite
<1>10. HashFollowsDisk'
    BY <1>1, <1>5 DEF HashFollowsDisk
<1>11. CheckedStaysChecked'
    BY <1>1, <1>5 DEF CheckedStaysChecked
<1>12. ReceivedVerified'
  <2>1. req[h].sha # NoSha => content[fd[h]] = Digest(req[h].sha)
      BY <1>1 DEF CheckedStaysChecked
  <2>2. QED
      BY <1>1, <1>5, <2>1 DEF ReceivedVerified
<1>13. QED
    BY <1>7, <1>8, <1>9, <1>10, <1>11, <1>12

\* A new request gets a fresh inode, or the .part that nobody uses any more.
LEMMA OpenKeeps ==
    ASSUME TypeOK, IInv, ReceivedVerified, NEW h \in Handlers, NEW r \in Requests,
           Unattended(r.id), Open(h, r)
    PROVE  IInv' /\ ReceivedVerified'
<1> USE DEF IInv
<1> DEFINE inode == IF staging[r.id] = None THEN h ELSE staging[r.id]
           found == IF r.offset = 0 THEN <<>> ELSE content[inode]
<1>1. /\ pc[h] = "idle" /\ pc' = [pc EXCEPT ![h] = "opened"]
      /\ req' = [req EXCEPT ![h] = r]
      /\ staging' = [staging EXCEPT ![r.id] = inode]
      /\ content' = [content EXCEPT ![inode] = found]
      /\ fd' = [fd EXCEPT ![h] = inode]
      /\ written' = [written EXCEPT ![h] = r.offset]
      /\ UNCHANGED <<hashed, inflight, final, committer>>
    BY DEF Open, GoTo
<1>2. r.id \in Ids /\ r.offset \in Nat
    BY RequestFields
<1>3. inode \in Handlers /\ inode # None
    BY <1>2, ReceiverAssumption DEF TypeOK, DiskTypes
<1>4. /\ hashed[h] = <<>> /\ h \notin inflight
      /\ \A g \in Handlers : fd[g] # h
      /\ \A t \in Ids : staging[t] # h
      /\ \A n \in Names : final[n] # h /\ committer[n] # h
    BY <1>1 DEF Untouched
<1>5. ~Active(h)
    BY <1>1, <1>4 DEF Active, Live, Working
<1>6. \A t \in Ids : t # r.id => staging[t] # inode
    BY <1>2, <1>4 DEF OneName
<1>7. \A n \in Names : final[n] # inode
    BY <1>2, <1>4 DEF OneName
<1>8. \A g \in Handlers : Active(g) => req[g].id # r.id /\ req[g].id \in Ids
    BY AtWork DEF Unattended, Active
<1>9. \A g \in Handlers : (Active(g) /\ pc[g] # "commit") => fd[g] # inode
    BY <1>2, <1>4, <1>8 DEF SoleWriter
<1>10. \A g \in Handlers : (pc[g] = "idle" /\ g # h) => g # inode
    BY <1>2 DEF Untouched
<1>11. found = <<>> \/ r.offset > 0
    BY <1>2
<1> HIDE DEF inode, found
<1>12. /\ pc'[h] = "opened" /\ req'[h] = r /\ fd'[h] = inode /\ written'[h] = r.offset
       /\ \A g \in Handlers : g # h =>
             pc'[g] = pc[g] /\ req'[g] = req[g] /\ fd'[g] = fd[g] /\ written'[g] = written[g]
       /\ staging'[r.id] = inode
       /\ \A t \in Ids : t # r.id => staging'[t] = staging[t]
       /\ content'[inode] = found
       /\ \A i \in Handlers : i # inode => content'[i] = content[i]
    BY <1>1, <1>2, <1>3 DEF TypeOK, HandlerTypes, DiskTypes
<1>13. \A g \in Handlers : g # h => (Live(g)' <=> Live(g)) /\ (Active(g)' <=> Active(g))
    BY <1>1, <1>12 DEF Live, Active
<1>14. Untouched'
  <2> SUFFICES ASSUME NEW g \in Handlers, pc'[g] = "idle"
               PROVE  /\ hashed[g] = <<>> /\ content'[g] = <<>> /\ g \notin inflight
                      /\ \A k \in Handlers : fd'[k] # g
                      /\ \A t \in Ids : staging'[t] # g
                      /\ \A n \in Names : final[n] # g /\ committer[n] # g
      BY <1>1 DEF Untouched
  <2>1. g # h /\ pc[g] = "idle" /\ g # inode
      BY <1>10, <1>12
  <2>2. QED
      BY <1>12, <2>1 DEF Untouched
<1>15. OneName'
    BY <1>1, <1>2, <1>3, <1>6, <1>7, <1>12 DEF OneName
<1>16. SoleWriter'
  <2>1. \A g, k \in Handlers : (Active(g)' /\ Active(k)' /\ req'[g].id = req'[k].id) => g = k
      BY <1>8, <1>12, <1>13 DEF SoleWriter
  <2>2. \A g \in Handlers : g \in inflight' => pc'[g] \in MayHoldWrite
      BY <1>1, <1>4, <1>12 DEF SoleWriter, MayHoldWrite
  <2>3. ASSUME NEW g \in Handlers, g # h, Active(g)', pc'[g] # "commit"
        PROVE  /\ Live(g)' => staging'[req'[g].id] = fd'[g]
               /\ \A n \in Names : final[n] # fd'[g]
               /\ \A t \in Ids : t # req'[g].id => staging'[t] # fd'[g]
    <3>1. Active(g) /\ pc[g] # "commit" /\ req'[g] = req[g] /\ fd'[g] = fd[g]
        BY <1>12, <1>13, <2>3
    <3>2. QED
        BY <1>8, <1>9, <1>12, <1>13, <2>3, <3>1 DEF SoleWriter
  <2>4. /\ staging'[req'[h].id] = fd'[h]
        /\ \A n \in Names : final[n] # fd'[h]
        /\ \A t \in Ids : t # req'[h].id => staging'[t] # fd'[h]
      BY <1>6, <1>7, <1>12
  <2>5. QED
      BY <1>1, <2>1, <2>2, <2>3, <2>4 DEF SoleWriter, MayHoldWrite
<1>17. \A g \in Handlers : (Live(g)' /\ g # h /\ pc[g] # "commit") => content'[fd'[g]] = content[fd[g]]
    BY <1>9, <1>12, <1>13, AtWork DEF Active
<1>18. HashFollowsDisk'
  <2> SUFFICES ASSUME NEW g \in Handlers, pc'[g] \in Streaming, req'[g].offset = 0
               PROVE  IF g \in inflight
                      THEN /\ hashed[g] = Append(content'[fd'[g]], req'[g].body)
                           /\ written'[g] = Len(content'[fd'[g]]) + 1
                      ELSE /\ hashed[g] = content'[fd'[g]]
                           /\ written'[g] = Len(content'[fd'[g]])
      BY <1>1 DEF HashFollowsDisk, Streaming
  <2>1. CASE g = h
      BY <1>2, <1>4, <1>11, <1>12, <2>1
  <2>2. CASE g # h
      BY <1>12, <1>17, <2>2 DEF HashFollowsDisk, Streaming, Live, Working
  <2>3. QED
      BY <2>1, <2>2
<1>19. CheckedStaysChecked'
    BY <1>12, <1>17 DEF CheckedStaysChecked, Live, Working
<1>20. ReceivedVerified'
  <2>1. \A n \in Names : final[n] # None => content'[final[n]] = content[final[n]]
      BY <1>7, <1>12 DEF TypeOK, DiskTypes
  <2>2. \A n \in Names : final[n] # None => req'[committer[n]] = req[committer[n]]
      BY <1>4, <1>12 DEF TypeOK, ObserverTypes, Anchored
  <2>3. QED
      BY <1>1, <2>1, <2>2 DEF ReceivedVerified
<1>21. QED
    BY <1>14, <1>15, <1>16, <1>18, <1>19, <1>20

LEMMA SerialStep ==
    ASSUME TypeOK, IInv, ReceivedVerified, [SerialNext]_vars
    PROVE  IInv' /\ ReceivedVerified'
<1>1. CASE \E h \in Handlers, r \in Requests : Unattended(r.id) /\ Open(h, r)
    BY <1>1, OpenKeeps
<1>2. CASE \E h \in Handlers : Touches(h)
    BY <1>2, WriteChunkKeeps, LandKeeps, UnlinkKeeps, RenameKeeps DEF Touches
<1>3. CASE (Background \/ UNCHANGED vars) /\ \A h \in Handlers : ~Touches(h)
    BY <1>3, TameStep, TameKeeps DEF IInv
<1>4. QED
    BY <1>1, <1>2, <1>3 DEF SerialNext

LEMMA SerialInvariant == SerialSpec => [](TypeOK /\ IInv /\ ReceivedVerified)
<1>1. Init => TypeOK /\ IInv /\ ReceivedVerified
  <2>1. Init => TypeOK
      BY ReceiverAssumption
         DEF Init, TypeOK, HandlerTypes, SessionTypes, DiskTypes, ObserverTypes, Anchored, Live, Working
  <2>2. Init => IInv
      BY ReceiverAssumption DEF Init, IInv, Untouched, OneName, SoleWriter, HashFollowsDisk,
         CheckedStaysChecked, Active, Live, Working
  <2>3. Init => ReceivedVerified
      BY DEF Init, ReceivedVerified
  <2>4. QED
      BY <2>1, <2>2, <2>3
<1>2. [SerialNext]_vars => [Next]_vars
    BY DEF SerialNext, Next
<1>3. TypeOK /\ IInv /\ ReceivedVerified /\ [SerialNext]_vars => (TypeOK /\ IInv /\ ReceivedVerified)'
    BY <1>2, TypeStep, SerialStep
<1>4. QED
    BY <1>1, <1>3, PTL DEF SerialSpec

\* A received file with an announced checksum has exactly the announced
\* content, for every number of requests, transfers, interruptions and
\* crashes, as long as no two requests of one transfer overlap
\* (server.rs:136-250).
THEOREM ReceivedAreVerified == SerialSpec => []ReceivedVerified
BY SerialInvariant, PTL

-----------------------------------------------------------------------------
(* Control reaches the handler at work.                                    *)

\* A step of one handler, which leaves its own session registered if it goes
\* on and touches no other transfer's.
LEMMA ReachByPc ==
    ASSUME TypeOK, SoleWriter, ControlReachesHandler,
           NEW h \in Handlers, NEW l,
           UNCHANGED req, pc' = [pc EXCEPT ![h] = l],
           \/ l \notin InService /\ UNCHANGED sessions
           \/ l \notin InService /\ Live(h) /\ sessions' = [sessions EXCEPT ![req[h].id] = None]
           \/ pc[h] \in InService /\ UNCHANGED sessions
           \/ Live(h) /\ sessions' = [sessions EXCEPT ![req[h].id] = h]
    PROVE  ControlReachesHandler'
<1>1. pc \in [Handlers -> Working \cup {"idle", "done", "dropped"}] /\ sessions \in [Ids -> Handlers \cup {None}]
    BY DEF TypeOK, HandlerTypes, SessionTypes
<1>2. ASSUME NEW g \in Handlers, g # h, pc'[g] \in InService PROVE sessions'[req[g].id] = g
  <2>1. pc[g] \in InService /\ Live(g)
      BY <1>1, <1>2 DEF InService, Live, Working
  <2>2. sessions[req[g].id] = g
      BY <2>1 DEF ControlReachesHandler
  <2>3. Live(h) => req[g].id # req[h].id
      BY <2>1, <1>2 DEF SoleWriter, Active
  <2>4. req[g].id \in Ids
      BY <2>1, AtWork
  <2>5. QED
      BY <1>1, <2>2, <2>3, <2>4
<1>3. pc'[h] \in InService => sessions'[req[h].id] = h
    BY <1>1, AtWork DEF ControlReachesHandler, InService, Live, Working
<1>4. QED
    BY <1>2, <1>3 DEF ControlReachesHandler

LEMMA ReachStep ==
    ASSUME TypeOK, IInv, ControlReachesHandler, [SerialNext]_vars
    PROVE  ControlReachesHandler'
<1> USE DEF IInv, GoTo, InService
<1>1. ASSUME NEW h \in Handlers, NEW r \in Requests, Open(h, r) PROVE ControlReachesHandler'
    BY <1>1 DEF Open, ControlReachesHandler, sessionVars, TypeOK, HandlerTypes
<1>2. ASSUME NEW h \in Handlers, RefuseRequest(h) \/ Drop(h) PROVE ControlReachesHandler'
    BY <1>2, ReachByPc DEF RefuseRequest, Drop, sessionVars
<1>3. ASSUME NEW h \in Handlers, Register(h) \/ SeekFails(h) PROVE ControlReachesHandler'
    BY <1>3, ReachByPc DEF Register, SeekFails, sessionVars, Live, Working
<1>4. ASSUME NEW h \in Handlers, Loop(h) PROVE ControlReachesHandler'
    BY <1>4, ReachByPc DEF Loop, AbortCancelled, TakeChunk, WriteChunk, WriteFails, BodyError,
       BodyEnd, FlushFails, Unregister, sessionVars, Live, Working
<1>5. ASSUME NEW h \in Handlers, Epilogue(h) PROVE ControlReachesHandler'
  <2>1. CASE Partial(h) \/ SizeMatches(h) \/ VerifyMatches(h) \/ VerifyMismatch(h) \/ VerifyFails(h)
      BY <2>1, ReachByPc DEF Partial, SizeMatches, VerifyMatches, VerifyMismatch, VerifyFails,
         Unregister, sessionVars, Live, Working
  <2>2. CASE Unlink(h) \/ Rename(h) \/ RenameFails(h) \/ Complete(h)
      BY <2>2, ReachByPc DEF Unlink, Rename, RenameFails, Complete, Unregister, sessionVars, Live, Working
  <2>3. QED
      BY <1>5, <2>1, <2>2 DEF Epilogue
<1>6. ASSUME NEW h \in Handlers, Land(h) PROVE ControlReachesHandler'
    BY <1>6 DEF Land, ControlReachesHandler, sessionVars
<1>7. ASSUME NEW t \in Ids, Control(t) PROVE ControlReachesHandler'
    BY <1>7 DEF Control, Pause, Resume, Cancel, ControlReachesHandler, handlerVars
<1>8. CASE Crash
    BY <1>8 DEF Crash, ControlReachesHandler, Live, Working, TypeOK, HandlerTypes
<1>9. CASE UNCHANGED vars
    BY <1>9 DEF vars, handlerVars, sessionVars, ControlReachesHandler
<1>10. QED
    BY <1>1, <1>2, <1>3, <1>4, <1>5, <1>6, <1>7, <1>8, <1>9 DEF SerialNext, Background, HandlerStep

\* Status, pause and cancel of a transfer find the session of the handler that
\* serves it, whatever earlier requests left in the map, as long as no two
\* requests of one transfer overlap (server.rs:171-175, 184, 206-208).
THEOREM ControlReaches == SerialSpec => []ControlReachesHandler
<1>1. Init => ControlReachesHandler
    BY DEF Init, ControlReachesHandler, InService
<1>2. TypeOK /\ IInv /\ ControlReachesHandler /\ [SerialNext]_vars => ControlReachesHandler'
    BY ReachStep
<1>3. QED
    BY <1>1, <1>2, SerialInvariant, PTL DEF SerialSpec

-----------------------------------------------------------------------------
(* Received files do not change, and fall into the inbox whole.            *)

\* No step writes to a received file.
LEMMA FinalContentKept ==
    ASSUME TypeOK, IInv, [SerialNext]_vars, NEW n \in Names, final[n] # None
    PROVE  content'[final[n]] = content[final[n]]
<1> final[n] \in Handlers
    BY DEF TypeOK, DiskTypes
<1>1. ASSUME NEW h \in Handlers, NEW r \in Requests, Open(h, r)
      PROVE  content'[final[n]] = content[final[n]]
  <2> DEFINE inode == IF staging[r.id] = None THEN h ELSE staging[r.id]
  <2>1. r.id \in Ids /\ pc[h] = "idle"
      BY <1>1, RequestFields DEF Open
  <2>2. final[n] # inode
      BY <2>1 DEF IInv, OneName, Untouched
  <2>3. \E c : content' = [content EXCEPT ![inode] = c]
      BY <1>1 DEF Open
  <2>4. QED
      BY <2>2, <2>3 DEF TypeOK, DiskTypes
<1>2. ASSUME NEW h \in Handlers, Land(h) PROVE content'[final[n]] = content[final[n]]
  <2>1. h \in inflight /\ content' = [content EXCEPT ![fd[h]] = WriteAt(@, written[h], req[h].body)]
      BY <1>2 DEF Land
  <2>2. final[n] # fd[h]
      BY <2>1 DEF IInv, SoleWriter, Active
  <2>3. QED
      BY <2>1, <2>2 DEF TypeOK, DiskTypes
<1>3. ASSUME NEW h \in Handlers, WriteChunk(h) \/ Unlink(h) \/ Rename(h) PROVE content' = content
    BY <1>3 DEF WriteChunk, Unlink, Rename, diskVars
<1>4. ASSUME \A h \in Handlers : ~Touches(h), Background \/ UNCHANGED vars PROVE content' = content
    BY <1>4, TameStep DEF Tame, IInv
<1>5. QED
    BY <1>1, <1>2, <1>3, <1>4 DEF SerialNext, Touches

\* A received file is never written to again; another of its name replaces it
\* as a whole (server.rs:198, 248).
THEOREM ReceivedNeverWritten == SerialSpec => ReceivedImmutable
<1>1. TypeOK /\ IInv /\ [SerialNext]_vars
        => [\A n \in Names : final[n] # None => content'[final[n]] = content[final[n]]]_vars
    BY FinalContentKept
<1>2. QED
    BY <1>1, SerialInvariant, PTL DEF SerialSpec, ReceivedImmutable

\* Every step is a step of the inbox or leaves it alone.
LEMMA InboxStep ==
    ASSUME TypeOK, TypeOK', IInv, ReceivedVerified, ReceivedVerified', [SerialNext]_vars
    PROVE  [Box!Next]_Received
<1>1. ASSUME NEW h \in Handlers, Rename(h) PROVE Box!Next
  <2> DEFINE name == FileName[req[h].id]
  <2>1. /\ staging[req[h].id] # None /\ pc[h] = "rename"
        /\ final' = [final EXCEPT ![name] = staging[req[h].id]]
        /\ committer' = [committer EXCEPT ![name] = h]
        /\ UNCHANGED <<req, content>>
      BY <1>1 DEF Rename
  <2>2. name \in Names /\ req[h].id \in Ids /\ req[h].sha \in Versions \cup {NoSha}
      BY <2>1, AtWork DEF Live, Working
  <2>3. staging[req[h].id] \in Handlers
      BY <2>1, <2>2 DEF TypeOK, DiskTypes
  <2> HIDE DEF name
  <2>4. /\ final'[name] = staging[req[h].id] /\ committer'[name] = h
        /\ \A n \in Names : n # name => final'[n] = final[n] /\ committer'[n] = committer[n]
      BY <2>1, <2>2 DEF TypeOK, DiskTypes, ObserverTypes
  <2>5. Received'[name] = [sha |-> req[h].sha, data |-> content[staging[req[h].id]]]
      BY <2>1, <2>2, <2>4 DEF Received
  <2>6. content[staging[req[h].id]] \in Seq(Cells)
      BY <2>3 DEF TypeOK, DiskTypes
  <2>7. Received'[name] \in Box!ReceivedFile
      BY <2>2, <2>5, <2>6 DEF Box!ReceivedFile
  <2>8. req[h].sha # NoSha => content[staging[req[h].id]] = Digest(req[h].sha)
      BY <2>1, <2>2, <2>4 DEF ReceivedVerified
  <2>9. Box!Intact(Received'[name])
      BY <2>5, <2>8 DEF Box!Intact, Digest
  <2>10. Received' = [Received EXCEPT ![name] = Received'[name]]
      BY <2>1, <2>2, <2>4 DEF Received
  <2>11. QED
      BY <2>2, <2>7, <2>9, <2>10 DEF Box!Next, Box!Deliver
<1>2. ASSUME \A h \in Handlers : ~Rename(h) PROVE UNCHANGED Received
  <2>1. \A n \in Names : final[n] # None => content'[final[n]] = content[final[n]]
      BY FinalContentKept
  <2>2. UNCHANGED <<final, committer>>
    <3>1. ASSUME NEW h \in Handlers, NEW r \in Requests, Open(h, r) PROVE UNCHANGED <<final, committer>>
        BY <3>1 DEF Open
    <3>2. CASE UNCHANGED vars
        BY <3>2 DEF vars, diskVars, observers
    <3>3. QED
        BY <1>2, <3>1, <3>2, FinalFrame DEF SerialNext
  <2>3. \A n \in Names : final[n] # None => req'[committer[n]] = req[committer[n]]
    <3>1. ASSUME NEW h \in Handlers, NEW r \in Requests, Open(h, r), NEW n \in Names, final[n] # None
          PROVE  req'[committer[n]] = req[committer[n]]
      <4>1. pc[h] = "idle" /\ req' = [req EXCEPT ![h] = r]
          BY <3>1 DEF Open
      <4>2. committer[n] # h /\ committer[n] \in Handlers
          BY <3>1, <4>1 DEF IInv, Untouched, TypeOK, ObserverTypes, Anchored
      <4>3. QED
          BY <4>1, <4>2 DEF TypeOK, HandlerTypes
    <3>2. CASE UNCHANGED vars
        BY <3>2 DEF vars, handlerVars
    <3>3. QED
        BY <3>1, <3>2, BackgroundFrame DEF SerialNext
  <2>4. QED
      BY <2>1, <2>2, <2>3 DEF Received
<1>3. QED
    BY <1>1, <1>2

\* The receiving half implements the inbox: whole, verified files that appear
\* in one step and never change (server.rs:97-254).
THEOREM ReceiverDelivers == SerialSpec => DeliversWhole
<1>1. Init => Box!Init
    BY DEF Init, Received, Box!Init
<1>2. TypeOK /\ IInv /\ ReceivedVerified /\ TypeOK' /\ ReceivedVerified' /\ [SerialNext]_vars
        => [Box!Next]_Received
    BY InboxStep
<1>3. QED
    BY <1>1, <1>2, SerialInvariant, PTL DEF SerialSpec, DeliversWhole, Box!Spec

-----------------------------------------------------------------------------
(* What the .part file holds.                                              *)

\* Between the open and the rename.
Holding == Streaming \cup {"rename"}

\* The handler's part reaches as far as it has written, but for the write in
\* flight, unless it resumed past the end; and an honest upload or resume has
\* put nothing there but cells of its version.
PartHolds(h) ==
    pc[h] \in Holding =>
        /\ req[h].offset <= Len(prior[h]) =>
               written[h] <= Len(content[fd[h]]) + (IF h \in inflight THEN 1 ELSE 0)
        /\ Honest(h) =>
               /\ written[h] <= FileSize[req[h].body]
               /\ Len(content[fd[h]]) <= FileSize[req[h].body]
               /\ \A i \in 1..Len(content[fd[h]]) : content[fd[h]][i] = req[h].body

\* A handler writes from its resume offset on, a chunk at hand is one of the
\* body's, and what is verified has its full size.
Sized(h) ==
    /\ pc[h] = "opened" => written[h] = req[h].offset
    /\ pc[h] = "hold" => HasChunk(h)
    /\ pc[h] = "verify" => written[h] = req[h].total

\* 422 was answered to a request that deserved it.
Deserved(h) == resp[h] = 422 => pc[h] # "idle" /\ ~Honest(h)

PartOf(h) == PartHolds(h) /\ Sized(h) /\ Deserved(h)

\* With TypeOK and IInv inductive for SerialNext.
PartInv == \A h \in Handlers : PartOf(h)

\* A handler the step is not about.
Same(g) ==
    /\ pc'[g] = pc[g] /\ req'[g] = req[g] /\ fd'[g] = fd[g] /\ written'[g] = written[g]
    /\ prior'[g] = prior[g] /\ resp'[g] = resp[g]
    /\ g \in inflight' <=> g \in inflight
    /\ pc[g] \in Holding => content'[fd[g]] = content[fd[g]]

LEMMA SameKeeps ==
    ASSUME NEW g \in Handlers, PartOf(g), Same(g)
    PROVE  PartOf(g)'
<1> USE DEF PartOf, Same
<1>1. Honest(g)' <=> Honest(g)
    BY DEF Honest
<1>2. PartHolds(g)'
    BY <1>1 DEF PartHolds
<1>3. Sized(g)' /\ Deserved(g)'
    BY <1>1 DEF Sized, Deserved, HasChunk
<1>4. QED
    BY <1>2, <1>3

\* A step that moves one handler on and touches no file.
LEMMA MoveKeeps ==
    ASSUME TypeOK, PartInv, NEW h \in Handlers, NEW l,
           UNCHANGED <<req, fd, written, content, prior>>,
           pc' = [pc EXCEPT ![h] = l], l # "idle",
           l \in Holding => pc[h] \in Holding /\ l # "opened",
           inflight' = inflight \/ (inflight' = inflight \ {h} /\ l = "done"),
           l = "hold" => HasChunk(h),
           l = "verify" => written[h] = req[h].total,
           resp' = resp \/ \E c \in Codes : resp' = [resp EXCEPT ![h] = c] /\ (c = 422 => ~Honest(h))
    PROVE  \A g \in Handlers : PartOf(g)'
<1>1. /\ pc'[h] = l
      /\ resp'[h] = resp[h] \/ (resp'[h] = 422 => ~Honest(h))
      /\ l \in Holding => (h \in inflight' <=> h \in inflight)
    BY DEF TypeOK, HandlerTypes, SessionTypes, PartInv, PartOf, Holding, Streaming
<1>2. \A g \in Handlers : g # h => Same(g)
    BY DEF Same, TypeOK, HandlerTypes, SessionTypes
<1>3. Honest(h)' <=> Honest(h)
    BY DEF Honest
<1>4. PartHolds(h)'
  <2>1. CASE l \notin Holding
      BY <1>1, <2>1 DEF PartHolds
  <2>2. CASE l \in Holding
    <3>1. PartHolds(h) /\ pc[h] \in Holding /\ (h \in inflight' <=> h \in inflight)
        BY <1>1, <2>2 DEF PartInv, PartOf
    <3>2. /\ req'[h] = req[h] /\ written'[h] = written[h] /\ prior'[h] = prior[h]
          /\ content'[fd'[h]] = content[fd[h]]
        OBVIOUS
    <3>3. QED
        BY <1>3, <3>1, <3>2 DEF PartHolds
  <2>3. QED
      BY <2>1, <2>2
<1>5. Sized(h)'
    BY <1>1 DEF Sized, HasChunk, Holding, Streaming
<1>6. Deserved(h)'
    BY <1>1, <1>3 DEF Deserved, PartInv, PartOf
<1>7. QED
    BY <1>2, <1>4, <1>5, <1>6, SameKeeps DEF PartOf, PartInv

\* An honest upload that is verified has the digest its sender announced.
LEMMA HonestMatches ==
    ASSUME TypeOK, IInv, PartInv, NEW h \in Handlers, pc[h] = "verify", Honest(h)
    PROVE  Actual(h) = Digest(req[h].sha)
<1> DEFINE c == content[fd[h]]
<1>1. /\ fd[h] \in Handlers /\ req[h].body \in Versions /\ req[h].offset \in Nat
      /\ req[h].sha = req[h].body /\ req[h].total = FileSize[req[h].body]
      /\ req[h].offset <= Len(prior[h])
    BY AtWork DEF Live, Working, Honest
<1>2. h \notin inflight
    BY DEF IInv, SoleWriter
<1>3. c \in Seq(Cells) /\ FileSize[req[h].body] \in Nat
    BY <1>1, ReceiverAssumption DEF TypeOK, DiskTypes
<1>4. PartHolds(h) /\ written[h] = FileSize[req[h].body]
    BY <1>1 DEF PartInv, PartOf, Sized
<1>5. /\ written[h] <= Len(c) /\ Len(c) <= FileSize[req[h].body]
      /\ \A i \in 1..Len(c) : c[i] = req[h].body
  <2>1. Len(c) \in Nat /\ written[h] \in Nat
      BY <1>3 DEF TypeOK, HandlerTypes
  <2>2. QED
      BY <1>1, <1>2, <1>4, <2>1 DEF PartHolds, Holding, Streaming
<1>6. Len(c) = FileSize[req[h].body]
    BY <1>3, <1>4, <1>5
<1>7. c = Digest(req[h].body)
    BY <1>3, <1>5, <1>6 DEF Digest
<1>8. req[h].offset = 0 => hashed[h] = c
    BY <1>2 DEF IInv, HashFollowsDisk
<1>9. staging[req[h].id] = fd[h]
    BY DEF IInv, SoleWriter, Active, Live, Working
<1>10. QED
    BY <1>1, <1>7, <1>8, <1>9 DEF Actual

\* The steps of a handler that write to no file.
LEMMA HandlerMoveKeeps ==
    ASSUME TypeOK, IInv, PartInv, NEW h \in Handlers,
           RefuseRequest(h) \/ Register(h) \/ SeekFails(h) \/ Loop(h) \/ Epilogue(h) \/ Drop(h),
           ~WriteChunk(h)
    PROVE  PartInv'
<1> USE DEF GoTo, Answer, Unregister, sessionVars, diskVars, observers, InService, Holding, Streaming,
            Codes, Live, Working
<1>1. CASE RefuseRequest(h) \/ SeekFails(h) \/ Drop(h)
    BY <1>1, MoveKeeps DEF RefuseRequest, SeekFails, Drop, PartInv
<1>2. CASE Register(h)
  <2>1. written[h] = req[h].offset
      BY <1>2 DEF Register, PartInv, PartOf, Sized
  <2>2. QED
      BY <1>2, <2>1, MoveKeeps DEF Register, PartInv
<1>3. CASE Loop(h)
  <2>1. CASE AbortCancelled(h) \/ TakeChunk(h) \/ BodyEnd(h)
      BY <2>1, MoveKeeps DEF AbortCancelled, TakeChunk, BodyEnd, PartInv
  <2>2. CASE WriteFails(h) \/ BodyError(h) \/ FlushFails(h)
      BY <2>2, MoveKeeps DEF WriteFails, BodyError, FlushFails, PartInv
  <2>3. QED
      BY <1>3, <2>1, <2>2 DEF Loop
<1>4. CASE Epilogue(h)
  <2>1. CASE Partial(h) \/ SizeMatches(h)
      BY <2>1, MoveKeeps DEF Partial, SizeMatches, PartInv
  <2>2. CASE VerifyMatches(h) \/ VerifyFails(h)
      BY <2>2, MoveKeeps DEF VerifyMatches, VerifyFails, PartInv
  <2>3. CASE VerifyMismatch(h)
    <3>1. ~Honest(h)
        BY <2>3, HonestMatches DEF VerifyMismatch
    <3>2. \E c \in Codes : resp' = [resp EXCEPT ![h] = c] /\ (c = 422 => ~Honest(h))
        BY <2>3, <3>1 DEF VerifyMismatch
    <3>3. /\ UNCHANGED <<req, fd, written, content, prior, inflight>>
          /\ pc' = [pc EXCEPT ![h] = "unlink"]
        BY <2>3 DEF VerifyMismatch
    <3>4. QED
        BY <3>2, <3>3, MoveKeeps DEF PartInv
  <2>4. CASE Unlink(h) \/ Rename(h)
      BY <2>4, MoveKeeps DEF Unlink, Rename, PartInv
  <2>5. CASE RenameFails(h) \/ Complete(h)
      BY <2>5, MoveKeeps DEF RenameFails, Complete, PartInv
  <2>6. QED
      BY <1>4, <2>1, <2>2, <2>3, <2>4, <2>5 DEF Epilogue
<1>5. QED
    BY <1>1, <1>2, <1>3, <1>4

LEMMA WriteChunkPart ==
    ASSUME TypeOK, PartInv, NEW h \in Handlers, WriteChunk(h)
    PROVE  PartInv'
<1>1. /\ pc[h] = "hold" /\ h \notin inflight
      /\ pc' = [pc EXCEPT ![h] = "stream"]
      /\ inflight' = inflight \cup {h}
      /\ written' = [written EXCEPT ![h] = @ + 1]
      /\ UNCHANGED <<req, fd, resp, content, prior>>
    BY DEF WriteChunk, GoTo, diskVars, observers
<1>2. /\ pc'[h] = "stream" /\ written'[h] = written[h] + 1
      /\ written[h] \in Nat /\ req[h].body \in Versions /\ fd[h] \in Handlers
    BY <1>1, AtWork DEF TypeOK, HandlerTypes, SessionTypes, Live, Working
<1>3. \A g \in Handlers : g # h => Same(g)
    BY <1>1 DEF Same, TypeOK, HandlerTypes, SessionTypes
<1>4. Honest(h)' <=> Honest(h)
    BY <1>1 DEF Honest
<1>5. PartOf(h) /\ written[h] < FileSize[req[h].body]
    BY <1>1 DEF PartInv, PartOf, Sized, HasChunk, InService
<1>6. PartHolds(h)'
  <2>1. Len(content[fd[h]]) \in Nat /\ FileSize[req[h].body] \in Nat
      BY <1>2, ReceiverAssumption DEF TypeOK, DiskTypes
  <2>2. PartHolds(h)
      BY <1>5 DEF PartOf
  <2>3. QED
      BY <1>1, <1>2, <1>4, <1>5, <2>1, <2>2 DEF PartHolds, Holding, Streaming
<1>7. Sized(h)' /\ Deserved(h)'
    BY <1>1, <1>2, <1>4, <1>5 DEF PartOf, Sized, Deserved
<1>8. QED
    BY <1>3, <1>6, <1>7, SameKeeps DEF PartInv, PartOf

\* Where the queued chunk lands it leaves no hole and nothing of another version.
LEMMA LandPart ==
    ASSUME TypeOK, IInv, PartInv, NEW h \in Handlers, Land(h)
    PROVE  PartInv'
<1>1. /\ h \in inflight /\ inflight' = inflight \ {h}
      /\ content' = [content EXCEPT ![fd[h]] = WriteAt(@, written[h], req[h].body)]
      /\ UNCHANGED <<pc, req, fd, written, resp, prior>>
    BY DEF Land, observers, sessionVars
<1> DEFINE c == content[fd[h]]
           p == written[h]
<1>2. /\ fd[h] \in Handlers /\ req[h].id \in Ids /\ req[h].body \in Versions
      /\ FileSize[req[h].body] \in Nat /\ c \in Seq(Cells) /\ p \in Nat /\ Len(c) \in Nat
    BY <1>1, AtWork, ReceiverAssumption DEF TypeOK, DiskTypes, HandlerTypes
<1>3. /\ content'[fd[h]] = WriteAt(c, p, req[h].body)
      /\ \A i \in Handlers : i # fd[h] => content'[i] = content[i]
    BY <1>1, <1>2 DEF TypeOK, DiskTypes
<1>4. \A t \in Ids : t # req[h].id => staging[t] # fd[h]
    BY <1>1 DEF IInv, SoleWriter, Active
<1>5. ASSUME NEW g \in Handlers, g # h, pc[g] \in Holding
      PROVE  content'[fd[g]] = content[fd[g]]
  <2>1. Live(g) /\ pc[g] # "commit"
      BY <1>5 DEF Holding, Streaming, Live, Working
  <2>2. req[g].id # req[h].id
      BY <1>1, <1>5, <2>1 DEF IInv, SoleWriter, Active
  <2>3. staging[req[g].id] = fd[g] /\ req[g].id \in Ids /\ fd[g] \in Handlers
      BY <2>1, AtWork DEF IInv, SoleWriter, Active
  <2>4. QED
      BY <1>3, <1>4, <2>2, <2>3
<1>6. \A g \in Handlers : g # h => Same(g)
    BY <1>1, <1>5 DEF Same
<1>7. Honest(h)' <=> Honest(h)
    BY <1>1 DEF Honest
<1>8. /\ Len(content'[fd[h]]) = IF Len(c) < p THEN p ELSE Len(c)
      /\ \A i \in 1..Len(content'[fd[h]]) : content'[fd[h]][i] =
            IF i = p THEN req[h].body ELSE IF i <= Len(c) THEN c[i] ELSE Hole
    BY <1>2, <1>3 DEF WriteAt
<1>9. PartOf(h)
    BY DEF PartInv
<1>10. PartHolds(h)'
  <2> SUFFICES ASSUME pc[h] \in Holding
               PROVE  /\ req[h].offset <= Len(prior[h]) => p <= Len(content'[fd[h]])
                      /\ Honest(h) =>
                            /\ p <= FileSize[req[h].body]
                            /\ Len(content'[fd[h]]) <= FileSize[req[h].body]
                            /\ \A i \in 1..Len(content'[fd[h]]) : content'[fd[h]][i] = req[h].body
    <3>1. Len(content'[fd[h]]) \in Nat
        BY <1>2, <1>8
    <3>2. QED
        BY <1>1, <1>2, <1>7, <3>1 DEF PartHolds
  <2>1. p <= Len(content'[fd[h]])
      BY <1>2, <1>8
  <2>2. ASSUME Honest(h)
        PROVE  /\ p <= FileSize[req[h].body]
               /\ Len(content'[fd[h]]) <= FileSize[req[h].body]
               /\ \A i \in 1..Len(content'[fd[h]]) : content'[fd[h]][i] = req[h].body
    <3>1. /\ p <= Len(c) + 1 /\ p <= FileSize[req[h].body] /\ Len(c) <= FileSize[req[h].body]
          /\ \A i \in 1..Len(c) : c[i] = req[h].body
        BY <1>1, <1>9, <2>2 DEF PartOf, PartHolds, Honest
    <3>2. QED
        BY <1>2, <1>8, <3>1
  <2>3. QED
      BY <2>1, <2>2
<1>11. Sized(h)' /\ Deserved(h)'
    BY <1>1, <1>7, <1>9 DEF PartOf, Sized, Deserved, HasChunk
<1>12. QED
    BY <1>6, <1>10, <1>11, SameKeeps DEF PartInv, PartOf

\* A new request starts from what is there, and nobody else works on it.
LEMMA OpenPart ==
    ASSUME TypeOK, IInv, PartInv, NEW h \in Handlers, NEW r \in Requests,
           Unattended(r.id), Open(h, r)
    PROVE  PartInv'
<1> DEFINE inode == IF staging[r.id] = None THEN h ELSE staging[r.id]
           found == IF r.offset = 0 THEN <<>> ELSE content[inode]
<1>1. /\ pc[h] = "idle" /\ pc' = [pc EXCEPT ![h] = "opened"]
      /\ req' = [req EXCEPT ![h] = r]
      /\ content' = [content EXCEPT ![inode] = found]
      /\ fd' = [fd EXCEPT ![h] = inode]
      /\ written' = [written EXCEPT ![h] = r.offset]
      /\ prior' = [prior EXCEPT ![h] = found]
      /\ UNCHANGED <<resp, inflight>>
    BY DEF Open, GoTo, sessionVars
<1>2. r.id \in Ids /\ r.offset \in Nat /\ r.body \in Versions /\ FileSize[r.body] \in Nat
    BY RequestFields, ReceiverAssumption
<1>3. inode \in Handlers
    BY <1>2 DEF TypeOK, DiskTypes
<1>4. h \notin inflight /\ \A g \in Handlers : fd[g] # h
    BY <1>1 DEF IInv, Untouched
<1>5. found \in Seq(Cells)
    BY <1>3 DEF TypeOK, DiskTypes
<1>6. ASSUME NEW g \in Handlers, pc[g] \in Holding PROVE fd[g] # inode
  <2>1. Live(g) /\ pc[g] # "commit" /\ Active(g)
      BY <1>6 DEF Holding, Streaming, Live, Working, Active
  <2>2. req[g].id # r.id /\ fd[g] \in Handlers
      BY <2>1, AtWork DEF Unattended
  <2>3. staging[r.id] # fd[g]
      BY <1>2, <2>1, <2>2 DEF IInv, SoleWriter
  <2>4. QED
      BY <1>4, <2>3
<1> HIDE DEF inode, found
<1>7. /\ pc'[h] = "opened" /\ req'[h] = r /\ fd'[h] = inode /\ written'[h] = r.offset
      /\ prior'[h] = found /\ content'[inode] = found
      /\ \A i \in Handlers : i # inode => content'[i] = content[i]
    BY <1>1, <1>3 DEF TypeOK, HandlerTypes, DiskTypes, ObserverTypes
<1>8. \A g \in Handlers : pc[g] \in Holding => fd[g] \in Handlers
    BY AtWork DEF Holding, Streaming, Live, Working
<1>9. \A g \in Handlers : g # h => Same(g)
    BY <1>1, <1>6, <1>7, <1>8 DEF Same, TypeOK, HandlerTypes, ObserverTypes
<1>10. PartHolds(h)'
  <2>1. Len(found) \in Nat
      BY <1>5
  <2>2. QED
      BY <1>1, <1>2, <1>4, <1>7, <2>1 DEF PartHolds, Honest
<1>11. Sized(h)' /\ Deserved(h)'
    BY <1>1, <1>7 DEF PartInv, PartOf, Sized, Deserved, InService
<1>12. QED
    BY <1>9, <1>10, <1>11, SameKeeps DEF PartInv, PartOf

LEMMA PartStep ==
    ASSUME TypeOK, IInv, PartInv, [SerialNext]_vars
    PROVE  PartInv'
<1>1. ASSUME NEW h \in Handlers, NEW r \in Requests, Unattended(r.id), Open(h, r) PROVE PartInv'
    BY <1>1, OpenPart
<1>2. ASSUME NEW h \in Handlers, WriteChunk(h) PROVE PartInv'
    BY <1>2, WriteChunkPart
<1>3. ASSUME NEW h \in Handlers, Land(h) PROVE PartInv'
    BY <1>3, LandPart
<1>4. ASSUME NEW h \in Handlers, RefuseRequest(h) \/ HandlerStep(h) \/ Drop(h), ~WriteChunk(h) PROVE PartInv'
    BY <1>4, HandlerMoveKeeps DEF HandlerStep
<1>5. ASSUME Crash PROVE PartInv'
  <2>1. /\ \A h \in Handlers : (pc'[h] = pc[h] /\ ~Live(h)) \/ pc'[h] = "dropped"
        /\ UNCHANGED <<req, fd, written, resp, content, prior>>
      BY <1>5 DEF Crash, diskVars, observers
  <2>2. \A h \in Handlers : PartHolds(h)' /\ Sized(h)'
      BY <2>1 DEF PartHolds, Sized, Holding, Streaming, InService, Live, Working
  <2>3. \A h \in Handlers : Deserved(h)'
    <3>1. \A h \in Handlers : Honest(h)' <=> Honest(h)
        BY <2>1 DEF Honest
    <3>2. QED
        BY <2>1, <3>1 DEF PartInv, PartOf, Deserved
  <2>4. QED
      BY <2>1, <2>2, <2>3 DEF PartInv, PartOf
<1>6. ASSUME UNCHANGED <<handlerVars, diskVars, observers>> PROVE PartInv'
  <2>1. \A h \in Handlers : Same(h)
      BY <1>6 DEF Same, handlerVars, diskVars, observers
  <2>2. QED
      BY <2>1, SameKeeps DEF PartInv
<1>7. ASSUME NEW t \in Ids, Control(t) PROVE PartInv'
    BY <1>6, <1>7 DEF Control, Pause, Resume, Cancel
<1>8. CASE UNCHANGED vars
    BY <1>6, <1>8 DEF vars, sessionVars
<1>9. QED
    BY <1>1, <1>2, <1>3, <1>4, <1>5, <1>7, <1>8 DEF SerialNext, Background

LEMMA PartInvariant == SerialSpec => []PartInv
<1>1. Init => PartInv
  <2>1. SUFFICES ASSUME Init PROVE PartInv
      OBVIOUS
  <2>2. \A h \in Handlers : pc[h] = "idle" /\ resp[h] = None
      BY <2>1 DEF Init
  <2>3. None # 422
      BY ReceiverAssumption
  <2>4. QED
      BY <2>1, <2>2, <2>3 DEF Init, PartInv, PartOf, PartHolds, Sized, Deserved,
                              Holding, Streaming, InService
<1>2. TypeOK /\ IInv /\ PartInv /\ [SerialNext]_vars => PartInv'
    BY PartStep
<1>3. QED
    BY <1>1, <1>2, SerialInvariant, PTL DEF SerialSpec

\* No faithful upload or resume is answered 422 and thrown away, for any
\* number of interrupted requests before it and of other transfers beside it,
\* as long as no two requests of one transfer overlap (server.rs:229-246).
THEOREM HonestAreAccepted == SerialSpec => []HonestNeverRejected
<1>1. PartInv => HonestNeverRejected
    BY DEF PartInv, PartOf, Deserved, HonestNeverRejected
<1>2. QED
    BY <1>1, PartInvariant, PTL
=============================================================================
