--------------------------- MODULE HistoryProofs ----------------------------
(***************************************************************************)
(* Proofs about the history store, for any number of mutations, records    *)
(* and crashes, the mutations coming one after the other.                  *)
(***************************************************************************)
EXTENDS HistoryStore, TLAPS

LEMMA TypeStep == TypeOK /\ [Next]_vars => TypeOK'
<1> SUFFICES ASSUME TypeOK, [Next]_vars PROVE TypeOK'
    OBVIOUS
<1> USE DEF memVars, opVars, diskVars, GoTo, Busy
<1>1. ASSUME NEW o \in Ops, Insert(o) PROVE TypeOK'
    BY <1>1, HistoryAssumption DEF Insert, TypeOK
<1>2. ASSUME NEW o \in Ops, Snapshot(o) PROVE TypeOK'
    BY <1>2 DEF Snapshot, TypeOK
<1>3. ASSUME NEW o \in Ops, OpenTmp(o) PROVE TypeOK'
    BY <1>3, HistoryAssumption DEF OpenTmp, TypeOK
<1>4. ASSUME NEW o \in Ops, OpenFails(o) \/ RenameFails(o) PROVE TypeOK'
    BY <1>4 DEF OpenFails, RenameFails, TypeOK
<1>5. ASSUME NEW o \in Ops, Fill(o) \/ FillFails(o) PROVE TypeOK'
  <2>1. fd[o] \in Ops
      BY <1>5 DEF Fill, FillFails, TypeOK
  <2>2. \E new \in SUBSET (Records \cup {Torn}) : content' = [content EXCEPT ![fd[o]] = new]
      BY <1>5, <2>1 DEF Fill, FillFails, TypeOK
  <2>3. content' \in [Ops -> SUBSET (Records \cup {Torn})]
      BY <2>1, <2>2 DEF TypeOK
  <2>4. QED
      BY <1>5, <2>3 DEF Fill, FillFails, TypeOK
<1>6. ASSUME NEW o \in Ops, Rename(o) PROVE TypeOK'
    BY <1>6, HistoryAssumption DEF Rename, TypeOK
<1>7. ASSUME Crash PROVE TypeOK'
  <2>1. content' \in [Ops -> SUBSET (Records \cup {Torn})]
      BY <1>7 DEF Crash, TypeOK
  <2>2. pc' \in [Ops -> Busy \cup {"idle", "ok", "err", "dead"}] /\ \A o \in Ops : pc'[o] # "fill"
      BY <1>7 DEF Crash, TypeOK
  <2>3. UNCHANGED <<records, snap, fd, tmp, path, acked>> /\ up' = "down"
      BY <1>7 DEF Crash
  <2>4. QED
      BY <2>1, <2>2, <2>3 DEF TypeOK
<1>8. ASSUME Load PROVE TypeOK'
    BY <1>8 DEF Load, TypeOK
<1>9. ASSUME UNCHANGED vars PROVE TypeOK'
    BY <1>9 DEF vars, TypeOK
<1>10. QED
    BY <1>1, <1>2, <1>3, <1>4, <1>5, <1>6, <1>7, <1>8, <1>9 DEF Next, Background, Persist

\* The history file keeps its inode and content while the temporary one is written.
LEMMA SerialStep ==
    ASSUME TypeOK, IInv, [SerialNext]_vars
    PROVE  IInv'
<1> USE DEF memVars, opVars, diskVars, GoTo, IInv
<1>1. ASSUME NEW o \in Ops, Quiet, Insert(o) PROVE IInv'
  <2>1. /\ up = "up" /\ pc[o] = "idle" /\ pc' = [pc EXCEPT ![o] = "inserted"]
        /\ records' = IF Work[o] = Clear THEN {} ELSE records \cup {Work[o]}
        /\ acked' = IF Work[o] = Clear THEN {} ELSE acked
        /\ UNCHANGED <<up, snap, fd, content, tmp, path>>
      BY <1>1 DEF Insert
  <2>2. pc'[o] = "inserted" /\ \A p \in Ops : p # o => pc'[p] = pc[p] /\ pc[p] \notin Busy
      BY <1>1, <2>1 DEF TypeOK, Quiet
  <2>3. SoleWriter'
      BY <2>1, <2>2 DEF SoleWriter, Busy
  <2>4. StoreLoadable' /\ AckedDurable' /\ AckedInMemory'
      BY <2>1 DEF StoreLoadable, AckedDurable, AckedInMemory
  <2>5. QED
      BY <2>3, <2>4
<1>2. ASSUME NEW o \in Ops, Snapshot(o) PROVE IInv'
  <2>1. /\ pc[o] = "inserted" /\ pc' = [pc EXCEPT ![o] = "write"]
        /\ snap' = [snap EXCEPT ![o] = records]
        /\ UNCHANGED <<up, records, fd, content, tmp, path, acked>>
      BY <1>2 DEF Snapshot
  <2>2. /\ pc'[o] = "write" /\ snap'[o] = records
        /\ \A p \in Ops : p # o => pc'[p] = pc[p] /\ snap'[p] = snap[p]
      BY <2>1 DEF TypeOK
  <2>3. \A p \in Ops : p # o => pc[p] \notin Busy
      BY <2>1 DEF SoleWriter, Busy
  <2>4. SoleWriter'
      BY <2>1, <2>2, <2>3 DEF SoleWriter, Busy
  <2>5. QED
      BY <2>1, <2>4 DEF StoreLoadable, AckedDurable, AckedInMemory
<1>3. ASSUME NEW o \in Ops, OpenTmp(o) PROVE IInv'
  <2>1. PICK inode \in Ops :
          /\ inode = IF tmp = None THEN o ELSE tmp
          /\ content' = [content EXCEPT ![inode] = {}]
          /\ tmp' = inode /\ fd' = [fd EXCEPT ![o] = inode]
      BY <1>3 DEF OpenTmp, TypeOK
  <2>2. /\ pc[o] = "write" /\ pc' = [pc EXCEPT ![o] = "fill"]
        /\ UNCHANGED <<up, records, snap, path, acked>>
      BY <1>3 DEF OpenTmp
  <2>3. /\ pc'[o] = "fill" /\ fd'[o] = inode /\ content'[inode] = {}
        /\ \A p \in Ops : p # o => pc'[p] = pc[p]
        /\ \A p \in Ops : p # inode => content'[p] = content[p]
      BY <2>1, <2>2 DEF TypeOK
  <2>4. inode # path /\ inode # None
      BY <2>1, <2>2, HistoryAssumption DEF SoleWriter, Busy
  <2>5. \A p \in Ops : p # o => pc[p] \notin Busy
      BY <2>2 DEF SoleWriter, Busy
  <2>6. \A p \in Ops : pc[p] = "idle" => p # inode
      BY <2>1, <2>2 DEF SoleWriter
  <2>7. SoleWriter'
      BY <2>1, <2>2, <2>3, <2>4, <2>5, <2>6 DEF SoleWriter, Busy
  <2>8. path # None => content'[path] = content[path]
      BY <2>3, <2>4 DEF TypeOK
  <2>9. QED
      BY <2>2, <2>7, <2>8 DEF StoreLoadable, AckedDurable, AckedInMemory
<1>4. ASSUME NEW o \in Ops, OpenFails(o) \/ RenameFails(o) PROVE IInv'
  <2>1. /\ pc[o] \in Busy /\ pc' = [pc EXCEPT ![o] = "err"]
        /\ UNCHANGED <<up, records, snap, fd, content, tmp, path, acked>>
      BY <1>4 DEF OpenFails, RenameFails, Busy
  <2>2. pc'[o] = "err" /\ \A p \in Ops : p # o => pc'[p] = pc[p] /\ pc[p] \notin Busy
      BY <2>1 DEF TypeOK, SoleWriter
  <2>3. SoleWriter'
      BY <2>1, <2>2 DEF SoleWriter, Busy
  <2>4. QED
      BY <2>1, <2>3 DEF StoreLoadable, AckedDurable, AckedInMemory
<1>5. ASSUME NEW o \in Ops, Fill(o) \/ FillFails(o) PROVE IInv'
  <2>1. pc[o] = "fill" /\ fd[o] = tmp /\ tmp # None /\ tmp \in Ops /\ tmp # path
      BY <1>5 DEF Fill, FillFails, SoleWriter, TypeOK
  <2>2. content[tmp] = {} /\ snap[o] = records
      BY <2>1 DEF SoleWriter
  <2>3. UNCHANGED <<up, records, snap, fd, tmp, path, acked>>
      BY <1>5 DEF Fill, FillFails
  <2>4. \/ pc' = [pc EXCEPT ![o] = "rename"] /\ content' = [content EXCEPT ![tmp] = records]
        \/ pc' = [pc EXCEPT ![o] = "err"] /\ \E new : content' = [content EXCEPT ![tmp] = new]
      BY <1>5, <2>1, <2>2 DEF Fill, FillFails
  <2>5. /\ (pc'[o] = "rename" /\ content'[tmp] = records) \/ pc'[o] = "err"
        /\ \A p \in Ops : p # o => pc'[p] = pc[p] /\ pc[p] \notin Busy
      BY <2>1, <2>4 DEF TypeOK, SoleWriter, Busy
  <2>6. \A p \in Ops : p # tmp => content'[p] = content[p]
      BY <2>4 DEF TypeOK
  <2>7. SoleWriter'
      BY <2>1, <2>2, <2>3, <2>5 DEF SoleWriter, Busy
  <2>8. path # None => content'[path] = content[path]
      BY <2>1, <2>6 DEF TypeOK
  <2>9. QED
      BY <2>3, <2>7, <2>8 DEF StoreLoadable, AckedDurable, AckedInMemory
<1>6. ASSUME NEW o \in Ops, Rename(o) PROVE IInv'
  <2>1. /\ pc[o] = "rename" /\ tmp # None /\ pc' = [pc EXCEPT ![o] = "ok"]
        /\ path' = tmp /\ tmp' = None
        /\ acked' = IF Work[o] = Clear THEN acked ELSE acked \cup {Work[o]}
        /\ UNCHANGED <<up, records, snap, fd, content>>
      BY <1>6 DEF Rename
  <2>2. pc'[o] = "ok" /\ \A p \in Ops : p # o => pc'[p] = pc[p] /\ pc[p] \notin Busy
      BY <2>1 DEF TypeOK, SoleWriter, Busy
  <2>3. /\ content[tmp] = records /\ up = "up"
        /\ Work[o] # Clear => Work[o] \in records
      BY <2>1 DEF SoleWriter, Busy
  <2>4. SoleWriter'
      BY <2>1, <2>2, HistoryAssumption DEF SoleWriter, Busy
  <2>5. AckedInMemory'
      BY <2>1, <2>3 DEF AckedInMemory
  <2>6. StoreLoadable' /\ AckedDurable'
      BY <2>1, <2>3, <2>5, HistoryAssumption DEF StoreLoadable, AckedDurable, AckedInMemory, TypeOK
  <2>7. QED
      BY <2>4, <2>5, <2>6
<1>7. ASSUME Crash PROVE IInv'
  <2>1. /\ up' = "down"
        /\ pc' = [o \in Ops |-> IF pc[o] \in Busy THEN "dead" ELSE pc[o]]
        /\ UNCHANGED <<records, snap, fd, tmp, path, acked>>
      BY <1>7 DEF Crash
  <2>2. \A o \in Ops : pc'[o] \notin Busy /\ (pc'[o] = "idle" => pc[o] = "idle")
      BY <2>1 DEF Busy
  <2>3. \A o \in Ops : pc[o] = "fill" => fd[o] # path
      BY DEF SoleWriter
  <2>4. path # None => content'[path] = content[path]
      BY <1>7, <2>3 DEF Crash, TypeOK
  <2>5. SoleWriter'
      BY <2>1, <2>2 DEF SoleWriter, Busy
  <2>6. QED
      BY <2>1, <2>4, <2>5 DEF StoreLoadable, AckedDurable, AckedInMemory
<1>8. ASSUME Load PROVE IInv'
  <2>1. /\ up = "down" /\ UNCHANGED <<pc, snap, fd, content, tmp, path, acked>>
        /\ up' = "up" => records' = IF path = None THEN {} ELSE content[path]
      BY <1>8 DEF Load
  <2>2. \A o \in Ops : pc[o] \notin Busy
      BY <2>1 DEF SoleWriter
  <2>3. SoleWriter'
      BY <2>1, <2>2 DEF SoleWriter, Busy
  <2>4. QED
      BY <2>1, <2>3 DEF StoreLoadable, AckedDurable, AckedInMemory
<1>9. ASSUME UNCHANGED vars PROVE IInv'
    BY <1>9 DEF vars, SoleWriter, StoreLoadable, AckedDurable, AckedInMemory
<1>10. QED
    BY <1>1, <1>2, <1>3, <1>4, <1>5, <1>6, <1>7, <1>8, <1>9 DEF SerialNext, Background, Persist

LEMMA SerialInvariant == SerialSpec => [](TypeOK /\ IInv)
<1>1. Init => TypeOK /\ IInv
    BY HistoryAssumption
       DEF Init, TypeOK, IInv, SoleWriter, StoreLoadable, AckedDurable, AckedInMemory, Busy
<1>2. [SerialNext]_vars => [Next]_vars
    BY DEF SerialNext, Next
<1>3. TypeOK /\ IInv /\ [SerialNext]_vars => TypeOK' /\ IInv'
    BY <1>2, TypeStep, SerialStep
<1>4. QED
    BY <1>1, <1>3, PTL DEF SerialSpec

\* A crash mid-write never corrupts the store, when mutations come one after
\* the other (history.rs:36-39).
THEOREM StoreStaysLoadable == SerialSpec => []StoreLoadable
BY SerialInvariant, PTL DEF IInv

\* A record whose add returned Ok survives every crash (history.rs:67-101).
THEOREM AckedRecordsSurvive == SerialSpec => []AckedDurable
BY SerialInvariant, PTL DEF IInv

\* The store's variables keep their types, however mutations fail and crash.
THEOREM TypeCorrect == SerialSpec => []TypeOK
BY SerialInvariant, PTL
=============================================================================
