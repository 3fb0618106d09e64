----------------------- MODULE ServerLifecycleProofs ------------------------
(***************************************************************************)
(* Proofs about the life of the engine and of the transfer server, for any *)
(* calls of init, start and stop and any range of ports.                   *)
(***************************************************************************)
EXTENDS ServerLifecycle, TLAPS

\* A call is of one kind.
LEMMA Kinds ==
    /\ Inits \subseteq Calls /\ Starts \subseteq Calls /\ Stops \subseteq Calls
    /\ \A i \in Inits, s \in Starts : i # s
    /\ \A i \in Inits, k \in Stops : i # k
    /\ \A s \in Starts, k \in Stops : s # k
    /\ None \notin Starts /\ None \notin Inits /\ Other \notin Starts /\ Other # None
BY LifecycleAssumption DEF Calls

LEMMA TypeStep == TypeOK /\ [Next]_vars => TypeOK'
<1> SUFFICES ASSUME TypeOK, [Next]_vars PROVE TypeOK'
    OBVIOUS
<1> USE Kinds DEF TypeOK, GoTo, Begin, dartVars
<1>1. ASSUME NEW i \in Inits, BeginInit(i) PROVE TypeOK'
    BY <1>1 DEF BeginInit
<1>2. ASSUME NEW i \in Inits, InitFails(i) \/ SetEngine(i) PROVE TypeOK'
    BY <1>2 DEF InitFails, SetEngine
<1>3. ASSUME NEW i \in Inits, InitReturns(i) PROVE TypeOK'
    BY <1>3 DEF InitReturns
<1>4. ASSUME NEW s \in Starts, BeginStart(s) \/ BeginEnsure(s) PROVE TypeOK'
  <2>1. PICK l \in {"scan", "done"} : pc' = [pc EXCEPT ![s] = l]
      BY <1>4 DEF BeginStart, BeginEnsure
  <2>2. overlapped' \in BOOLEAN /\ UNCHANGED <<engine, holder, at, slot, signal, serving, running, selfPort>>
      BY <1>4 DEF BeginStart, BeginEnsure
  <2>3. QED
      BY <2>1, <2>2
<1>5. ASSUME NEW s \in Starts, StartStep(s) PROVE TypeOK'
  <2>1. CASE Probe(s)
    <3>1. /\ UNCHANGED <<engine, slot, signal, serving, running, selfPort, overlapped>>
          /\ \E l \in {"scan", "probed", "done"} : pc' = [pc EXCEPT ![s] = l]
          /\ holder' = holder \/ holder' = [holder EXCEPT ![at[s]] = s]
        BY <2>1 DEF Probe
    <3>2. at' \in [Starts -> Ports]
        BY <2>1, LifecycleAssumption DEF Probe, Ports
    <3>3. pc' \in [Calls -> {"idle", "creating", "scan", "probed", "picked", "bound", "stored",
                            "stopping", "returned", "done"}]
        BY <3>1
    <3>4. holder' \in [Ports -> Starts \cup {Other, None}]
        BY <3>1
    <3>5. QED
        BY <3>1, <3>2, <3>3, <3>4
  <2>2. CASE LetGo(s)
      BY <2>2 DEF LetGo
  <2>3. CASE Bind(s)
      BY <2>3 DEF Bind
  <2>4. CASE Store(s)
      BY <2>4 DEF Store
  <2>5. CASE Spawn(s)
      BY <2>5 DEF Spawn
  <2>6. CASE StartReturns(s)
      BY <2>6, LifecycleAssumption DEF StartReturns, Ports
  <2>7. QED
      BY <1>5, <2>1, <2>2, <2>3, <2>4, <2>5, <2>6 DEF StartStep
<1>6. ASSUME NEW s \in Starts, Shutdown(s) PROVE TypeOK'
    BY <1>6 DEF Shutdown
<1>7. ASSUME NEW k \in Stops, BeginStop(k) \/ StopReturns(k) PROVE TypeOK'
    BY <1>7 DEF BeginStop, StopReturns
<1>8. ASSUME NEW k \in Stops, Take(k) PROVE TypeOK'
    BY <1>8 DEF Take
<1>9. ASSUME NEW p \in Ports, OtherBinds(p) \/ OtherCloses(p) PROVE TypeOK'
    BY <1>9 DEF OtherBinds, OtherCloses
<1>10. CASE UNCHANGED vars
    BY <1>10 DEF vars
<1>11. QED
    BY <1>1, <1>2, <1>3, <1>4, <1>5, <1>6, <1>7, <1>8, <1>9, <1>10 DEF Next, InitStep, StopStep

\* A step moves one call.
Moves(c) == \E l : pc' = [pc EXCEPT ![c] = l]

LEMMA OneMoves ==
    ASSUME TypeOK, NEW c \in Calls, Moves(c)
    PROVE  \A d \in Calls : d # c => pc'[d] = pc[d]
BY DEF TypeOK, Moves

\* Whose call a step moves.
LEMMA WhoMoves ==
    /\ \A i \in Inits : BeginInit(i) \/ InitStep(i) => Moves(i)
    /\ \A k \in Stops : BeginStop(k) \/ StopStep(k) => Moves(k)
    /\ \A s \in Starts : StartStep(s) => Moves(s)
<1> USE DEF GoTo, Begin, Moves
<1>1. ASSUME NEW i \in Inits PROVE BeginInit(i) \/ InitStep(i) => Moves(i)
  <2>1. BeginInit(i) => Moves(i)
      BY Zenon DEF BeginInit
  <2>2. InitStep(i) => Moves(i)
      BY Zenon DEF InitStep, InitFails, SetEngine, InitReturns
  <2>3. QED
      BY <2>1, <2>2
<1>2. ASSUME NEW k \in Stops PROVE BeginStop(k) \/ StopStep(k) => Moves(k)
  <2>1. BeginStop(k) => Moves(k)
      BY Zenon DEF BeginStop
  <2>2. StopStep(k) => Moves(k)
      BY Zenon DEF StopStep, Take, StopReturns
  <2>3. QED
      BY <2>1, <2>2
<1>3. ASSUME NEW s \in Starts PROVE StartStep(s) => Moves(s)
  <2>1. Probe(s) => Moves(s)
      BY Zenon DEF Probe
  <2>2. Bind(s) => Moves(s)
      BY Zenon DEF Bind
  <2>3. LetGo(s) \/ Store(s) \/ Spawn(s) \/ StartReturns(s) => Moves(s)
      BY Zenon DEF LetGo, Store, Spawn, StartReturns
  <2>4. QED
      BY <2>1, <2>2, <2>3 DEF StartStep
<1> HIDE DEF Moves
<1>4. QED
    BY <1>1, <1>2, <1>3

\* So the calls of the other kinds stay where they are.
LEMMA OthersMove ==
    ASSUME TypeOK
    PROVE  /\ \A i \in Inits : BeginInit(i) \/ InitStep(i) => \A s \in Starts : pc'[s] = pc[s]
           /\ \A k \in Stops : BeginStop(k) \/ StopStep(k) => \A d \in Inits \cup Starts : pc'[d] = pc[d]
           /\ \A s \in Starts : StartStep(s) => \A i \in Inits : pc'[i] = pc[i]
<1>1. ASSUME NEW i \in Inits, BeginInit(i) \/ InitStep(i), NEW s \in Starts PROVE pc'[s] = pc[s]
  <2>1. Moves(i)
      BY <1>1, WhoMoves
  <2>2. i \in Calls /\ s \in Calls /\ s # i
      BY Kinds
  <2>3. QED
      BY <2>1, <2>2, OneMoves
<1>2. ASSUME NEW k \in Stops, BeginStop(k) \/ StopStep(k), NEW d \in Inits \cup Starts PROVE pc'[d] = pc[d]
  <2>1. Moves(k)
      BY <1>2, WhoMoves
  <2>2. k \in Calls /\ d \in Calls /\ d # k
      BY Kinds
  <2>3. QED
      BY <2>1, <2>2, OneMoves
<1>3. ASSUME NEW s \in Starts, StartStep(s), NEW i \in Inits PROVE pc'[i] = pc[i]
  <2>1. Moves(s)
      BY <1>3, WhoMoves
  <2>2. s \in Calls /\ i \in Calls /\ i # s
      BY Kinds
  <2>3. QED
      BY <2>1, <2>2, OneMoves
<1>4. QED
    BY <1>1, <1>2, <1>3

-----------------------------------------------------------------------------
(* The server and its port.                                                *)

Labels == {"idle", "creating", "scan", "probed", "picked", "bound", "stored",
           "stopping", "returned", "done"}

\* A server's task runs only once its start has spawned it.
ServingIsSpawned == \A s \in serving : pc[s] \in {"returned", "done"}

\* Whoever has a listener open holds its port, told to stop or not.
ListenerHolds ==
    \A s \in Starts : (s \in serving \/ pc[s] \in {"probed", "bound", "stored"}) => holder[at[s]] = s

ServerInv == TypeOK /\ ServingIsSpawned /\ ListenerHolds /\ NoOrphanServer

\* A step that moves no start, and no listener or sender, of ours.
LEMMA ServerStays ==
    ASSUME ServerInv, UNCHANGED <<at, slot, signal, serving>>,
           \A s \in Starts : pc'[s] = pc[s] \/ (pc'[s] \in {"scan", "done", "picked"} /\ s \notin serving),
           \A s \in Starts : holder[at[s]] = s => holder'[at[s]] = s \/ pc'[s] = "picked"
    PROVE  ServingIsSpawned' /\ ListenerHolds' /\ NoOrphanServer'
<1>1. ServingIsSpawned'
    BY DEF ServerInv, TypeOK, ServingIsSpawned
<1>2. ListenerHolds'
    BY DEF ServerInv, ListenerHolds, ServingIsSpawned
<1>3. NoOrphanServer'
    BY DEF ServerInv, NoOrphanServer, Standing
<1>4. QED
    BY <1>1, <1>2, <1>3

LEMMA ServerStep == ServerInv /\ [Next]_vars => ServerInv'
<1> SUFFICES ASSUME ServerInv, [Next]_vars PROVE ServingIsSpawned' /\ ListenerHolds' /\ NoOrphanServer'
    BY TypeStep DEF ServerInv
<1> USE Kinds DEF GoTo, Begin, dartVars
<1>t. TypeOK /\ TypeOK'
    BY TypeStep DEF ServerInv
<1>p. pc \in [Calls -> Labels] /\ holder \in [Ports -> Starts \cup {Other, None}] /\ at \in [Starts -> Ports]
      /\ signal \in [Starts -> {"none", "sent", "dropped"}] /\ serving \subseteq Starts
    BY <1>t DEF TypeOK, Labels
<1>i. ServingIsSpawned /\ ListenerHolds /\ NoOrphanServer
    BY DEF ServerInv
<1>1. ASSUME NEW i \in Inits, BeginInit(i) \/ InitStep(i)
      PROVE  ServingIsSpawned' /\ ListenerHolds' /\ NoOrphanServer'
  <2>1. UNCHANGED <<holder, at, slot, signal, serving>>
      BY <1>1 DEF BeginInit, InitStep, InitFails, SetEngine, InitReturns
  <2>2. \A s \in Starts : pc'[s] = pc[s]
      BY <1>1, <1>t, OthersMove
  <2>3. QED
      BY <2>1, <2>2, ServerStays
<1>2. ASSUME NEW k \in Stops, BeginStop(k) \/ StopReturns(k)
      PROVE  ServingIsSpawned' /\ ListenerHolds' /\ NoOrphanServer'
  <2>1. UNCHANGED <<holder, at, slot, signal, serving>>
      BY <1>2 DEF BeginStop, StopReturns
  <2>2. \A s \in Starts : pc'[s] = pc[s]
      BY <1>2, <1>t, OthersMove DEF StopStep
  <2>3. QED
      BY <2>1, <2>2, ServerStays
<1>3. ASSUME NEW k \in Stops, Take(k)
      PROVE  ServingIsSpawned' /\ ListenerHolds' /\ NoOrphanServer'
  <2>1. ServingIsSpawned' /\ ListenerHolds'
      BY <1>3, <1>p, <1>i DEF Take, ServingIsSpawned, ListenerHolds
  <2>2. NoOrphanServer'
      BY <1>3, <1>p, <1>i DEF Take, NoOrphanServer, Standing
  <2>3. QED
      BY <2>1, <2>2
<1>4. ASSUME NEW s \in Starts, BeginStart(s) \/ BeginEnsure(s)
      PROVE  ServingIsSpawned' /\ ListenerHolds' /\ NoOrphanServer'
    BY <1>4, <1>p, <1>i, ServerStays DEF BeginStart, BeginEnsure, ServingIsSpawned
<1>5. ASSUME NEW s \in Starts, StartStep(s)
      PROVE  ServingIsSpawned' /\ ListenerHolds' /\ NoOrphanServer'
  <2>1. CASE Probe(s)
    <3>1. pc[s] = "scan" /\ s \notin serving /\ UNCHANGED <<slot, signal, serving>>
        BY <2>1, <1>i DEF Probe, ServingIsSpawned
    <3>2. pc'[s] \in {"scan", "probed", "done"} /\ \A r \in Starts : r # s => pc'[r] = pc[r] /\ at'[r] = at[r]
        BY <2>1, <1>p DEF Probe
    <3>3. pc'[s] = "probed" => holder'[at'[s]] = s
        BY <2>1, <1>p DEF Probe
    <3>4. \A r \in Starts : r # s /\ holder[at[r]] = r => holder'[at'[r]] = r
        BY <2>1, <1>p, <3>2 DEF Probe
    <3>5. ServingIsSpawned' /\ NoOrphanServer'
        BY <3>1, <3>2, <1>p, <1>i DEF ServingIsSpawned, NoOrphanServer, Standing
    <3>6. ListenerHolds'
        BY <3>1, <3>2, <3>3, <3>4, <1>i DEF ListenerHolds
    <3>7. QED
        BY <3>5, <3>6
  <2>2. CASE LetGo(s)
    <3>1. s \notin serving /\ pc'[s] = "picked" /\ holder[at[s]] = s
        BY <2>2, <1>p, <1>i DEF LetGo, ServingIsSpawned, ListenerHolds
    <3>2. \A r \in Starts : r # s => pc'[r] = pc[r] /\ (holder[at[r]] = r => holder'[at[r]] = r)
        BY <2>2, <1>p, <3>1 DEF LetGo
    <3>3. QED
        BY <2>2, <3>1, <3>2, ServerStays DEF LetGo
  <2>3. CASE Bind(s)
    <3>1. pc[s] = "picked" /\ s \notin serving /\ UNCHANGED <<at, slot, signal, serving>>
        BY <2>3, <1>i DEF Bind, ServingIsSpawned
    <3>2. pc'[s] \in {"bound", "done"} /\ \A r \in Starts : r # s => pc'[r] = pc[r]
        BY <2>3, <1>p DEF Bind
    <3>3. pc'[s] = "bound" => holder'[at[s]] = s
        BY <2>3, <1>p DEF Bind
    <3>4. \A r \in Starts : r # s /\ holder[at[r]] = r => holder'[at[r]] = r
        BY <2>3, <1>p DEF Bind
    <3>5. ServingIsSpawned' /\ NoOrphanServer'
        BY <3>1, <3>2, <1>p, <1>i DEF ServingIsSpawned, NoOrphanServer, Standing
    <3>6. ListenerHolds'
        BY <3>1, <3>2, <3>3, <3>4, <1>i DEF ListenerHolds
    <3>7. QED
        BY <3>5, <3>6
  <2>4. CASE Store(s)
    <3>1. ServingIsSpawned' /\ ListenerHolds'
        BY <2>4, <1>p, <1>i DEF Store, ServingIsSpawned, ListenerHolds
    <3>2. NoOrphanServer'
        BY <2>4, <1>p, <1>i DEF Store, NoOrphanServer, Standing
    <3>3. QED
        BY <3>1, <3>2
  <2>5. CASE Spawn(s)
    <3>1. ServingIsSpawned' /\ ListenerHolds'
        BY <2>5, <1>p, <1>i DEF Spawn, ServingIsSpawned, ListenerHolds
    <3>2. NoOrphanServer'
        BY <2>5, <1>p, <1>i DEF Spawn, NoOrphanServer, Standing
    <3>3. QED
        BY <3>1, <3>2
  <2>6. CASE StartReturns(s)
    <3>1. ServingIsSpawned' /\ ListenerHolds'
        BY <2>6, <1>p, <1>i DEF StartReturns, ServingIsSpawned, ListenerHolds
    <3>2. NoOrphanServer'
        BY <2>6, <1>p, <1>i DEF StartReturns, NoOrphanServer, Standing
    <3>3. QED
        BY <3>1, <3>2
  <2>7. QED
      BY <1>5, <2>1, <2>2, <2>3, <2>4, <2>5, <2>6 DEF StartStep
<1>6. ASSUME NEW s \in Starts, Shutdown(s)
      PROVE  ServingIsSpawned' /\ ListenerHolds' /\ NoOrphanServer'
  <2>1. pc[s] \in {"returned", "done"} /\ holder[at[s]] = s
      BY <1>6, <1>i DEF Shutdown, ServingIsSpawned, ListenerHolds
  <2>2. ServingIsSpawned' /\ NoOrphanServer'
      BY <1>6, <1>p, <1>i DEF Shutdown, ServingIsSpawned, NoOrphanServer, Standing
  <2>3. ListenerHolds'
      BY <1>6, <1>p, <1>i, <2>1 DEF Shutdown, ListenerHolds
  <2>4. QED
      BY <2>2, <2>3
<1>7. ASSUME NEW p \in Ports, OtherBinds(p) \/ OtherCloses(p)
      PROVE  ServingIsSpawned' /\ ListenerHolds' /\ NoOrphanServer'
  <2>1. UNCHANGED <<pc, at, slot, signal, serving>>
      BY <1>7 DEF OtherBinds, OtherCloses
  <2>2. \A s \in Starts : holder[at[s]] = s => holder'[at[s]] = s
      BY <1>7, <1>p DEF OtherBinds, OtherCloses
  <2>3. QED
      BY <2>1, <2>2, ServerStays
<1>8. CASE UNCHANGED vars
    BY <1>8, ServerStays DEF vars
<1>9. QED
    BY <1>1, <1>2, <1>3, <1>4, <1>5, <1>6, <1>7, <1>8 DEF Next, StopStep

LEMMA ServerInvariant == Spec => []ServerInv
<1>1. Init => ServerInv
  <2>1. SUFFICES ASSUME Init PROVE ServerInv
      OBVIOUS
  <2>2. 1 \in Ports
      BY LifecycleAssumption DEF Ports
  <2>3. \A s \in Starts : pc[s] = "idle"
      BY <2>1, Kinds DEF Init
  <2>4. TypeOK
      BY <2>1, <2>2 DEF Init, TypeOK
  <2>5. ServingIsSpawned /\ ListenerHolds /\ NoOrphanServer
      BY <2>1, <2>3 DEF Init, ServingIsSpawned, ListenerHolds, NoOrphanServer, Standing
  <2>6. QED
      BY <2>4, <2>5 DEF ServerInv
<1>2. QED
    BY <1>1, ServerStep, PTL DEF Spec

\* The variables of the engine, the server and Dart keep their types, whatever
\* calls overlap.
THEOREM TypeCorrect == Spec => []TypeOK
<1>1. ServerInv => TypeOK
    BY DEF ServerInv
<1>2. QED
    BY <1>1, ServerInvariant, PTL

\* However many starts and stops overlap, stop_server reaches every server that
\* was not told to stop (api/mod.rs:105-106, 129-135).
THEOREM NoServerIsOrphaned == Spec => []NoOrphanServer
<1>1. ServerInv => NoOrphanServer
    BY DEF ServerInv
<1>2. QED
    BY <1>1, ServerInvariant, PTL

\* A server that was not told to stop has the port its start returned, whoever
\* else binds and closes ports (resolve.rs:29-34, api/mod.rs:97-103).
THEOREM EndpointsAreLive == Spec => []EndpointIsLive
<1>1. ServerInv => EndpointIsLive
    BY DEF ServerInv, EndpointIsLive, ListenerHolds, Standing
<1>2. QED
    BY <1>1, ServerInvariant, PTL

-----------------------------------------------------------------------------
(* The engine.                                                             *)

LEMMA EngineStep == TypeOK /\ EngineIsTheirs /\ [Next]_vars => EngineIsTheirs'
<1> SUFFICES ASSUME TypeOK, EngineIsTheirs, [Next]_vars PROVE EngineIsTheirs'
    OBVIOUS
<1> USE Kinds DEF EngineIsTheirs, GoTo, Begin, dartVars
<1>p. pc \in [Calls -> Labels] /\ engine \in Inits \cup {None}
    BY DEF TypeOK, Labels
<1>1. ASSUME NEW i \in Inits, BeginInit(i) \/ InitStep(i) PROVE EngineIsTheirs'
    BY <1>1, <1>p DEF BeginInit, InitStep, InitFails, SetEngine, InitReturns
<1>2. ASSUME NEW s \in Starts, BeginStart(s) \/ BeginEnsure(s) \/ Shutdown(s) PROVE EngineIsTheirs'
    BY <1>2, <1>p DEF BeginStart, BeginEnsure, Shutdown
<1>3. ASSUME NEW s \in Starts, StartStep(s) PROVE EngineIsTheirs'
  <2>1. UNCHANGED engine /\ (selfPort' # None => selfPort # None)
      BY <1>3 DEF StartStep, Probe, LetGo, Bind, Store, Spawn, StartReturns
  <2>2. \A i \in Inits : pc'[i] = pc[i]
      BY <1>3, OthersMove
  <2>3. QED
      BY <2>1, <2>2
<1>4. ASSUME NEW k \in Stops, BeginStop(k) \/ StopStep(k) PROVE EngineIsTheirs'
  <2>1. UNCHANGED <<engine, selfPort>>
      BY <1>4 DEF BeginStop, StopStep, Take, StopReturns
  <2>2. \A i \in Inits : pc'[i] = pc[i]
      BY <1>4, OthersMove
  <2>3. QED
      BY <2>1, <2>2
<1>5. ASSUME NEW p \in Ports, OtherBinds(p) \/ OtherCloses(p) PROVE EngineIsTheirs'
    BY <1>5 DEF OtherBinds, OtherCloses
<1>6. CASE UNCHANGED vars
    BY <1>6 DEF vars
<1>7. QED
    BY <1>1, <1>2, <1>3, <1>4, <1>5, <1>6 DEF Next

\* Whoever init_engine tells Ok got the one engine, however calls of it overlap
\* (api/mod.rs:69-91).
THEOREM EnginesAreTheirs == Spec => []EngineIsTheirs
<1>1. Init => EngineIsTheirs
    BY DEF Init, EngineIsTheirs, Calls
<1>2. QED
    BY <1>1, EngineStep, TypeCorrect, PTL DEF Spec

-----------------------------------------------------------------------------
(* What Dart knows.                                                        *)

Busy(c) == pc[c] \notin {"idle", "done"}

\* The slot has the sender of a server that stands.
SlotStands == slot # None => Standing(slot)

\* A server is told to stop only after its sender was stored, and a start gets
\* as far as its scan only with an engine.
StartsInOrder ==
    \A s \in Starts :
        /\ pc[s] \in {"idle", "scan", "probed", "picked", "bound"} => signal[s] = "none"
        /\ Busy(s) => engine # None

\* Calls that do not overlap come one at a time.
OneAtATime == ~overlapped => \A c, d \in Calls : Busy(c) /\ Busy(d) => c = d

\* Without overlap, Dart knows itself unless a call of init is about to tell it.
DartKnowsItself ==
    ~overlapped =>
        /\ engine # None => selfPort # None \/ \E i \in Inits : pc[i] = "returned"
        /\ \A i \in Inits : Busy(i) => selfPort = None

\* Without overlap, the flag follows the slot but for the call that has just
\* changed it, and the announced port is that of the slot's server.
DartFollows ==
    ~overlapped =>
        /\ \A s \in Starts : pc[s] \in {"stored", "returned"} => slot = s
        /\ \A k \in Stops : pc[k] = "returned" => slot = None
        /\ \/ \E s \in Starts : pc[s] \in {"stored", "returned"}
           \/ \E k \in Stops : pc[k] = "returned"
           \/ (running <=> slot # None) /\ (running => selfPort = at[slot])

\* DartKnows with what makes it inductive, beside ServerInv.
DartInv == SlotStands /\ StartsInOrder /\ OneAtATime /\ DartKnowsItself /\ DartFollows

\* A step that moves no start and touches no sender.
LEMMA OrderStays ==
    ASSUME SlotStands, StartsInOrder, UNCHANGED <<slot, signal, serving>>,
           \A s \in Starts : pc'[s] = pc[s],
           engine # None => engine' # None,
           slot \in Starts \cup {None}
    PROVE  SlotStands' /\ StartsInOrder'
<1>1. SlotStands'
    BY DEF SlotStands, Standing
<1>2. StartsInOrder'
    BY DEF StartsInOrder, Busy
<1>3. QED
    BY <1>1, <1>2

LEMMA OrderStep ==
    ASSUME ServerInv, SlotStands, StartsInOrder, [Next]_vars
    PROVE  SlotStands' /\ StartsInOrder'
<1> USE Kinds DEF GoTo, Begin, dartVars
<1>t. TypeOK
    BY DEF ServerInv
<1>p. /\ pc \in [Calls -> Labels] /\ signal \in [Starts -> {"none", "sent", "dropped"}]
      /\ slot \in Starts \cup {None} /\ serving \subseteq Starts
    BY <1>t DEF TypeOK, Labels
<1>i. ServingIsSpawned
    BY DEF ServerInv
<1>s. slot # None => pc[slot] \in {"stored", "returned", "done"} /\ slot \in Starts
    BY <1>p, <1>i DEF SlotStands, Standing, ServingIsSpawned
<1>1. ASSUME NEW i \in Inits, BeginInit(i) \/ InitStep(i) PROVE SlotStands' /\ StartsInOrder'
  <2>1. UNCHANGED <<slot, signal, serving>> /\ (engine # None => engine' # None)
      BY <1>1 DEF BeginInit, InitStep, InitFails, SetEngine, InitReturns
  <2>2. \A s \in Starts : pc'[s] = pc[s]
      BY <1>1, <1>t, OthersMove
  <2>3. QED
      BY <2>1, <2>2, <1>p, OrderStays
<1>2. ASSUME NEW k \in Stops, BeginStop(k) \/ StopReturns(k) PROVE SlotStands' /\ StartsInOrder'
  <2>1. UNCHANGED <<engine, slot, signal, serving>>
      BY <1>2 DEF BeginStop, StopReturns
  <2>2. \A s \in Starts : pc'[s] = pc[s]
      BY <1>2, <1>t, OthersMove DEF StopStep
  <2>3. QED
      BY <2>1, <2>2, <1>p, OrderStays
<1>3. ASSUME NEW k \in Stops, Take(k) PROVE SlotStands' /\ StartsInOrder'
  <2>1. slot' = None /\ UNCHANGED engine /\ \A s \in Starts : s # slot => signal'[s] = signal[s]
      BY <1>3, <1>p DEF Take
  <2>2. \A s \in Starts : pc'[s] = pc[s]
      BY <1>3, <1>t, OthersMove DEF StopStep
  <2>3. QED
      BY <2>1, <2>2, <1>s DEF SlotStands, StartsInOrder, Busy
<1>4. ASSUME NEW s \in Starts, BeginStart(s) \/ BeginEnsure(s) PROVE SlotStands' /\ StartsInOrder'
  <2>1. /\ pc[s] = "idle" /\ (pc'[s] = "done" \/ (pc'[s] = "scan" /\ engine # None))
        /\ \A r \in Starts : r # s => pc'[r] = pc[r]
        /\ UNCHANGED <<engine, slot, signal, serving>>
      BY <1>4, <1>p DEF BeginStart, BeginEnsure
  <2>2. QED
      BY <2>1, <1>s DEF SlotStands, Standing, StartsInOrder, Busy
<1>5. ASSUME NEW s \in Starts, Probe(s) \/ LetGo(s) \/ Bind(s) PROVE SlotStands' /\ StartsInOrder'
  <2>1. /\ pc[s] \in {"scan", "probed", "picked"} /\ UNCHANGED <<engine, slot, signal, serving>>
        /\ \E l \in {"scan", "probed", "picked", "bound", "done"} : pc' = [pc EXCEPT ![s] = l]
      BY <1>5 DEF Probe, LetGo, Bind
  <2>2. /\ pc'[s] \in {"scan", "probed", "picked", "bound", "done"}
        /\ \A r \in Starts : r # s => pc'[r] = pc[r]
      BY <2>1, <1>p
  <2>3. QED
      BY <2>1, <2>2, <1>s DEF SlotStands, Standing, StartsInOrder, Busy
<1>6. ASSUME NEW s \in Starts, Store(s) PROVE SlotStands' /\ StartsInOrder'
  <2>1. /\ pc[s] = "bound" /\ pc'[s] = "stored" /\ slot' = s
        /\ UNCHANGED <<engine, serving>>
        /\ \A r \in Starts : r # s => pc'[r] = pc[r]
        /\ \A r \in Starts : r # slot => signal'[r] = signal[r]
      BY <1>6, <1>p DEF Store
  <2>2. s # slot /\ signal[s] = "none"
      BY <2>1, <1>s DEF StartsInOrder
  <2>3. SlotStands'
      BY <2>1, <2>2 DEF SlotStands, Standing
  <2>4. StartsInOrder'
      BY <2>1, <1>s DEF StartsInOrder, Busy
  <2>5. QED
      BY <2>3, <2>4
<1>7. ASSUME NEW s \in Starts, Spawn(s) \/ StartReturns(s) PROVE SlotStands' /\ StartsInOrder'
  <2>1. /\ pc[s] \in {"stored", "returned"} /\ pc'[s] \in {"returned", "done"}
        /\ pc[s] = "stored" => s \in serving'
        /\ serving \subseteq serving' /\ UNCHANGED <<engine, slot, signal>>
        /\ \A r \in Starts : r # s => pc'[r] = pc[r]
      BY <1>7, <1>p DEF Spawn, StartReturns
  <2>2. QED
      BY <2>1, <1>s DEF SlotStands, Standing, StartsInOrder, Busy
<1>8. ASSUME NEW s \in Starts, Shutdown(s) PROVE SlotStands' /\ StartsInOrder'
    BY <1>8, <1>p DEF Shutdown, SlotStands, Standing, StartsInOrder, Busy
<1>9. ASSUME NEW p \in Ports, OtherBinds(p) \/ OtherCloses(p) PROVE SlotStands' /\ StartsInOrder'
    BY <1>9, <1>p, OrderStays DEF OtherBinds, OtherCloses
<1>10. CASE UNCHANGED vars
    BY <1>10, <1>p, OrderStays DEF vars
<1>11. QED
    BY <1>1, <1>2, <1>3, <1>4, <1>5, <1>6, <1>7, <1>8, <1>9, <1>10 DEF Next, StartStep, StopStep

\* Without overlap, the call that moves is alone.
Alone(c) == \A d \in Calls : d # c => ~Busy(d) /\ pc'[d] = pc[d]

LEMMA MoverIsAlone ==
    ASSUME TypeOK, OneAtATime, ~overlapped', NEW c \in Calls, Moves(c),
           (\E l : Begin(c, l)) \/ (Busy(c) /\ UNCHANGED overlapped)
    PROVE  ~overlapped /\ (Quiet \/ Busy(c)) /\ Alone(c) /\ OneAtATime'
<1>1. ~overlapped /\ (Quiet \/ Busy(c))
  <2>1. CASE \E l : Begin(c, l)
      BY <2>1, Zenon DEF Begin
  <2>2. CASE Busy(c) /\ UNCHANGED overlapped
      BY <2>2
  <2>3. QED
      BY <2>1, <2>2
<1>2. \A d \in Calls : d # c => ~Busy(d)
    BY <1>1 DEF Quiet, Busy, OneAtATime
<1>3. Alone(c)
    BY <1>2, OneMoves DEF Alone
<1>4. OneAtATime'
    BY <1>3 DEF Alone, OneAtATime, Busy
<1>5. QED
    BY <1>1, <1>3, <1>4

\* The flag and the port agree with the slot.
FollowsNow == (running <=> slot # None) /\ (running => selfPort = at[slot])

LEMMA DartStep ==
    ASSUME ServerInv, DartInv, [Next]_vars, SlotStands', StartsInOrder'
    PROVE  OneAtATime' /\ DartKnowsItself' /\ DartFollows'
<1> SUFFICES ASSUME ~overlapped'
             PROVE  OneAtATime' /\ DartKnowsItself' /\ DartFollows'
    BY DEF OneAtATime, DartKnowsItself, DartFollows
<1> USE Kinds, LifecycleAssumption
<1>t. TypeOK /\ ServingIsSpawned /\ SlotStands /\ StartsInOrder /\ OneAtATime /\ DartKnowsItself /\ DartFollows
    BY DEF ServerInv, DartInv
<1>p. /\ pc \in [Calls -> Labels] /\ at \in [Starts -> Ports] /\ slot \in Starts \cup {None}
      /\ Ports \subseteq Nat /\ serving \subseteq Starts
    BY <1>t DEF TypeOK, Labels, Ports
<1>s. slot # None => pc[slot] \in {"stored", "returned", "done"} /\ slot \in Starts
    BY <1>p, <1>t DEF SlotStands, Standing, ServingIsSpawned
<1>1. ASSUME NEW i \in Inits, BeginInit(i) \/ InitStep(i)
      PROVE  OneAtATime' /\ DartKnowsItself' /\ DartFollows'
  <2>1. /\ UNCHANGED <<at, slot, running>>
        /\ (\E l : Begin(i, l)) \/ (Busy(i) /\ UNCHANGED overlapped)
      BY <1>1 DEF BeginInit, InitStep, InitFails, SetEngine, InitReturns, Busy, dartVars
  <2>2. ~overlapped /\ (Quiet \/ Busy(i)) /\ Alone(i) /\ OneAtATime'
      BY <1>1, <1>t, <2>1, WhoMoves, MoverIsAlone
  <2>3. /\ \A s \in Starts : ~Busy(s) /\ pc'[s] = pc[s]
        /\ \A k \in Stops : ~Busy(k) /\ pc'[k] = pc[k]
        /\ \A j \in Inits : j # i => ~Busy(j) /\ pc'[j] = pc[j]
      BY <2>2 DEF Alone
  <2>4. FollowsNow
      BY <1>t, <2>2, <2>3 DEF DartFollows, FollowsNow, Busy
  <2>5. DartKnowsItself'
    <3>1. CASE BeginInit(i)
        BY <3>1, <1>t, <1>p, <2>2, <2>3 DEF BeginInit, Begin, GoTo, dartVars, DartKnowsItself, Busy, Quiet
    <3>2. CASE InitFails(i)
        BY <3>2, <1>t, <1>p, <2>2, <2>3 DEF InitFails, GoTo, dartVars, DartKnowsItself, Busy
    <3>3. CASE SetEngine(i)
        BY <3>3, <1>t, <1>p, <2>2, <2>3 DEF SetEngine, GoTo, dartVars, DartKnowsItself, Busy
    <3>4. CASE InitReturns(i)
        BY <3>4, <1>t, <1>p, <2>2, <2>3 DEF InitReturns, GoTo, DartKnowsItself, Busy
    <3>5. QED
        BY <1>1, <3>1, <3>2, <3>3, <3>4 DEF InitStep
  <2>6. FollowsNow'
    <3>1. CASE InitReturns(i)
      <4>1. selfPort = None
          BY <3>1, <1>t, <2>2 DEF InitReturns, DartKnowsItself, Busy
      <4>2. ~running
          BY <4>1, <2>4, <1>p, <1>s DEF FollowsNow
      <4>3. QED
          BY <4>2, <2>1, <2>4 DEF FollowsNow
    <3>2. CASE ~InitReturns(i)
      <4>1. UNCHANGED selfPort
          BY <3>2, <1>1 DEF BeginInit, InitStep, InitFails, SetEngine, dartVars
      <4>2. QED
          BY <4>1, <2>1, <2>4 DEF FollowsNow
    <3>3. QED
        BY <3>1, <3>2
  <2>7. DartFollows'
      BY <2>3, <2>6 DEF DartFollows, FollowsNow, Busy
  <2>8. QED
      BY <2>2, <2>5, <2>7
<1>2. ASSUME NEW k \in Stops, BeginStop(k) \/ StopStep(k)
      PROVE  OneAtATime' /\ DartKnowsItself' /\ DartFollows'
  <2>1. /\ UNCHANGED <<at, engine, selfPort>>
        /\ (\E l : Begin(k, l)) \/ (Busy(k) /\ UNCHANGED overlapped)
      BY <1>2 DEF BeginStop, StopStep, Take, StopReturns, Busy, dartVars
  <2>2. ~overlapped /\ (Quiet \/ Busy(k)) /\ Alone(k) /\ OneAtATime'
      BY <1>2, <1>t, <2>1, WhoMoves, MoverIsAlone
  <2>3. /\ \A s \in Starts : ~Busy(s) /\ pc'[s] = pc[s]
        /\ \A j \in Stops : j # k => ~Busy(j) /\ pc'[j] = pc[j]
        /\ \A i \in Inits : ~Busy(i) /\ pc'[i] = pc[i]
      BY <2>2 DEF Alone
  <2>4. DartKnowsItself'
      BY <2>1, <2>2, <2>3, <1>t DEF DartKnowsItself, Busy
  <2>5. DartFollows'
    <3>1. CASE BeginStop(k)
        BY <3>1, <1>t, <1>p, <2>2, <2>3 DEF BeginStop, Begin, GoTo, dartVars, DartFollows, Busy, Quiet
    <3>2. CASE Take(k)
        BY <3>2, <1>p, <2>3 DEF Take, GoTo, DartFollows, Busy
    <3>3. CASE StopReturns(k)
        BY <3>3, <1>t, <1>p, <2>2, <2>3 DEF StopReturns, GoTo, DartFollows, Busy
    <3>4. QED
        BY <1>2, <3>1, <3>2, <3>3 DEF StopStep
  <2>6. QED
      BY <2>2, <2>4, <2>5
<1>3. ASSUME NEW s \in Starts, BeginStart(s) \/ BeginEnsure(s) \/ StartStep(s)
      PROVE  OneAtATime' /\ DartKnowsItself' /\ DartFollows'
  <2>1. /\ UNCHANGED engine
        /\ (\E l : Begin(s, l)) \/ (Busy(s) /\ UNCHANGED overlapped)
    <3>1. CASE BeginStart(s) \/ BeginEnsure(s)
        BY <3>1, Zenon DEF BeginStart, BeginEnsure
    <3>2. CASE StartStep(s)
        BY <3>2 DEF StartStep, Probe, LetGo, Bind, Store, Spawn, StartReturns, Busy
    <3>3. QED
        BY <1>3, <3>1, <3>2
  <2>2. Moves(s)
    <3>1. CASE BeginStart(s) \/ BeginEnsure(s)
        BY <3>1, Zenon DEF BeginStart, BeginEnsure, Begin, GoTo, Moves
    <3>2. CASE StartStep(s)
        BY <3>2, WhoMoves
    <3>3. QED
        BY <1>3, <3>1, <3>2
  <2>3. ~overlapped /\ (Quiet \/ Busy(s)) /\ Alone(s) /\ OneAtATime'
      BY <1>t, <2>1, <2>2, MoverIsAlone
  <2>4. /\ \A r \in Starts : r # s => ~Busy(r) /\ pc'[r] = pc[r]
        /\ \A k \in Stops : ~Busy(k) /\ pc'[k] = pc[k]
        /\ \A i \in Inits : ~Busy(i) /\ pc'[i] = pc[i]
      BY <2>3 DEF Alone
  <2>5. selfPort' # None <=> selfPort # None
    <3>1. CASE BeginStart(s) \/ BeginEnsure(s)
        BY <3>1 DEF BeginStart, BeginEnsure, dartVars
    <3>2. CASE StartStep(s)
        BY <3>2, <1>p DEF StartStep, Probe, LetGo, Bind, Store, Spawn, StartReturns, dartVars
    <3>3. QED
        BY <1>3, <3>1, <3>2
  <2>6. DartKnowsItself'
      BY <2>1, <2>3, <2>4, <2>5, <1>t DEF DartKnowsItself, Busy
  <2>7. DartFollows'
    <3>1. CASE BeginStart(s) \/ BeginEnsure(s)
      <4>1. pc[s] = "idle" /\ pc'[s] \in {"scan", "done"} /\ UNCHANGED <<at, slot, running, selfPort>>
          BY <3>1, <1>p DEF BeginStart, BeginEnsure, Begin, GoTo, dartVars
      <4>2. QED
          BY <4>1, <1>t, <2>3, <2>4 DEF DartFollows, Busy
    <3>2. CASE Probe(s) \/ LetGo(s) \/ Bind(s)
      <4>1. /\ pc[s] \in {"scan", "probed", "picked"} /\ UNCHANGED <<slot, running, selfPort>>
            /\ \E l \in {"scan", "probed", "picked", "bound", "done"} : pc' = [pc EXCEPT ![s] = l]
            /\ \A r \in Starts : r # s => at'[r] = at[r]
          BY <3>2, <1>p DEF Probe, LetGo, Bind, GoTo, dartVars
      <4>2. pc'[s] \in {"scan", "probed", "picked", "bound", "done"} /\ slot # s
          BY <4>1, <1>p, <1>s
      <4>3. FollowsNow
          BY <4>1, <1>t, <2>3, <2>4 DEF DartFollows, FollowsNow, Busy
      <4>4. FollowsNow'
          BY <4>1, <4>2, <4>3, <1>s DEF FollowsNow
      <4>5. QED
          BY <4>1, <4>2, <4>4, <2>4 DEF DartFollows, FollowsNow, Busy
    <3>3. CASE Store(s)
        BY <3>3, <1>p, <2>4 DEF Store, GoTo, DartFollows, Busy
    <3>4. CASE Spawn(s)
        BY <3>4, <1>t, <1>p, <2>3, <2>4 DEF Spawn, GoTo, dartVars, DartFollows, Busy
    <3>5. CASE StartReturns(s)
      <4>1. slot = s /\ Busy(s) /\ slot' = s /\ UNCHANGED at /\ running' = TRUE
          BY <3>5, <1>t, <2>3 DEF StartReturns, DartFollows, Busy
      <4>2. engine # None
          BY <4>1, <1>t DEF StartsInOrder
      <4>3. selfPort # None
          BY <4>2, <1>t, <2>3, <2>4 DEF DartKnowsItself, Busy
      <4>4. selfPort' = at'[slot'] /\ pc'[s] = "done"
          BY <3>5, <1>p, <4>1, <4>3 DEF StartReturns, GoTo
      <4>5. QED
          BY <4>1, <4>4, <2>4 DEF DartFollows, Busy
    <3>6. QED
        BY <1>3, <3>1, <3>2, <3>3, <3>4, <3>5 DEF StartStep
  <2>8. QED
      BY <2>3, <2>6, <2>7
<1>4. ASSUME UNCHANGED <<pc, engine, at, slot, running, selfPort, overlapped>>
      PROVE  OneAtATime' /\ DartKnowsItself' /\ DartFollows'
    BY <1>4, <1>t DEF OneAtATime, DartKnowsItself, DartFollows, Busy
<1>5. ASSUME NEW s \in Starts, Shutdown(s)
      PROVE  OneAtATime' /\ DartKnowsItself' /\ DartFollows'
    BY <1>5, <1>4 DEF Shutdown, dartVars
<1>6. ASSUME NEW p \in Ports, OtherBinds(p) \/ OtherCloses(p)
      PROVE  OneAtATime' /\ DartKnowsItself' /\ DartFollows'
    BY <1>6, <1>4 DEF OtherBinds, OtherCloses, dartVars
<1>7. CASE UNCHANGED vars
    BY <1>7, <1>4 DEF vars, dartVars
<1>8. QED
    BY <1>1, <1>2, <1>3, <1>5, <1>6, <1>7 DEF Next

\* Between calls that never overlapped, Dart's flag says whether there is a
\* server to stop, and the port this device announces is the one that server
\* listens on, whoever else binds ports (filedrop_ffi_service.dart:87-120).
THEOREM DartKnowsServer == Spec => []DartKnows
<1>1. Init => DartInv
  <2>1. SUFFICES ASSUME Init PROVE DartInv
      OBVIOUS
  <2>2. \A c \in Calls : pc[c] = "idle"
      BY <2>1 DEF Init
  <2>3. QED
      BY <2>1, <2>2, Kinds DEF Init, DartInv, SlotStands, StartsInOrder, OneAtATime,
                              DartKnowsItself, DartFollows, Busy
<1>2. ServerInv /\ DartInv /\ [Next]_vars => DartInv'
  <2>1. SUFFICES ASSUME ServerInv, DartInv, [Next]_vars PROVE DartInv'
      OBVIOUS
  <2>2. SlotStands' /\ StartsInOrder'
      BY <2>1, OrderStep DEF DartInv
  <2>3. QED
      BY <2>1, <2>2, DartStep DEF DartInv
<1>3. ServerInv /\ DartInv => DartKnows
  <2>1. SUFFICES ASSUME ServerInv, DartInv, Quiet, ~overlapped
                 PROVE  /\ running <=> slot # None
                        /\ running => selfPort \in Ports /\ holder[selfPort] = slot
      BY DEF DartKnows
  <2>2. (running <=> slot # None) /\ (running => selfPort = at[slot])
      BY <2>1, Kinds DEF DartInv, DartFollows, Quiet
  <2>3. slot # None => slot \in Starts /\ at[slot] \in Ports /\ Standing(slot)
      BY <2>1 DEF ServerInv, TypeOK, DartInv, SlotStands
  <2>4. slot # None => holder[at[slot]] = slot
      BY <2>1, <2>3 DEF ServerInv, ListenerHolds, Standing
  <2>5. QED
      BY <2>2, <2>3, <2>4
<1>4. QED
    BY <1>1, <1>2, <1>3, ServerInvariant, PTL DEF Spec
=============================================================================
