--------------------------- MODULE HomeFlowProofs ---------------------------
(***************************************************************************)
(* Proofs about HomeFlow: for any number of visits, creations and sends,   *)
(* the app never takes down a Wi-Fi Direct group that receive mode has     *)
(* recorded.                                                               *)
(***************************************************************************)
EXTENDS HomeFlow, TLAPS

\* What Append and Tail do to the removals in a queue of calls.
LEMMA Appending ==
    ASSUME NEW S, NEW q \in Seq(S), NEW x \in S
    PROVE  /\ Append(q, x) \in Seq(S)
           /\ Len(Append(q, x)) = Len(q) + 1
           /\ \A i \in 1..Len(q) : Append(q, x)[i] = q[i]
           /\ Append(q, x)[Len(q) + 1] = x
  OBVIOUS

LEMMA Taking ==
    ASSUME NEW S, NEW q \in Seq(S), q # <<>>
    PROVE  /\ Tail(q) \in Seq(S)
           /\ Len(q) \in Nat /\ Len(q) >= 1
           /\ Len(Tail(q)) = Len(q) - 1
           /\ \A i \in 1..Len(Tail(q)) : i + 1 \in 1..Len(q) /\ Tail(q)[i] = q[i + 1]
           /\ Head(q) = q[1]
  OBVIOUS

LEMMA InitIInv == Init => IInv
  <1> SUFFICES ASSUME Init PROVE IInv
    OBVIOUS
  <1>1. TypeOK
    <2>1. calls \in Seq(Creates \cup {"remove"})
      BY DEF Init
    <2>2. /\ receive \in [stage : ReceiveStages, address : {"lan", "group", None}, groupCreated : BOOLEAN]
          /\ receive.stage = "checkingLan"
      BY DEF Init, NewReceive, ReceiveStages
    <2> QED
      BY <2>1, <2>2 DEF Init, TypeOK, Stages
  <1>2. OwnedIsSafe /\ OneOwner /\ RecordedInReceive
    BY DEF Init, NewReceive, OwnedIsSafe, OneOwner, RecordedInReceive, Forming
  <1>3. RemovalOfOwn
    <2>1. Len(calls) = 0
      BY DEF Init
    <2> QED
      BY <2>1 DEF RemovalOfOwn
  <1> QED
    BY <1>1, <1>2, <1>3 DEF IInv

LEMMA TypeStep == TypeOK /\ [Next]_vars => TypeOK'
  <1> SUFFICES ASSUME TypeOK, [Next]_vars PROVE TypeOK'
    OBVIOUS
  <1> USE HomeFlowAssumption
          DEF TypeOK, Stages, ReceiveStages, NewReceive, Shows, uiVars, platformVars
  <1>1. RemoveGroup => calls' \in Seq(Creates \cup {"remove"})
    BY Appending DEF RemoveGroup
  <1>2. ASSUME NEW c, NextCall(c) PROVE Tail(calls) \in Seq(Creates \cup {"remove"})
    BY <1>2, Taking DEF NextCall
  <1>3. CASE StartSend \/ FilesPicked \/ DeviceSelected
    BY <1>3 DEF StartSend, FilesPicked, DeviceSelected
  <1>4. CASE TransferStarted
    BY <1>4 DEF TransferStarted, Unmounted
  <1>5. ASSUME NEW s \in Sends, Send(s) \/ SendReturns(s) \/ SendFails(s) PROVE TypeOK'
    <2>1. CASE Send(s) \/ SendFails(s)
      BY <2>1 DEF Send, SendFails
    <2>2. CASE SendReturns(s) /\ Reset
      BY <1>1, <2>2 DEF SendReturns, Reset, StopDiscovery
    <2>3. CASE SendReturns(s) /\ UNCHANGED <<stage, receive, asked, calls>>
      BY <2>3 DEF SendReturns
    <2> QED
      BY <1>5, <2>1, <2>2, <2>3 DEF SendReturns
  <1>6. CASE Back
    <2>1. CASE BackFromPicker
      BY <2>1 DEF BackFromPicker
    <2>2. CASE BackFromDevices
      BY <2>2 DEF BackFromDevices, StopDiscovery
    <2>3. CASE BackFromConfirm
      BY <2>3 DEF BackFromConfirm, Unmounted
    <2>4. CASE BackFromReceive
      BY <1>1, <2>4 DEF BackFromReceive
    <2> QED
      BY <1>6, <2>1, <2>2, <2>3, <2>4 DEF Back
  <1>7. ASSUME NEW v \in Visits, StartReceive(v) \/ LanAnswer(v) PROVE TypeOK'
    <2>1. CASE StartReceive(v)
      BY <2>1 DEF StartReceive
    <2>2. CASE LanProbed(v)
      BY <2>2 DEF LanProbed
    <2>3. CASE LanChecked(v)
      <3>1. visit' \in [Visits -> {"idle", "asked", "lan", "group", "nothing", "done"}]
        BY <2>3 DEF LanChecked
      <3>2. visit[v] \in {"lan", "group", "nothing"}
        BY <2>3 DEF LanChecked
      <3>3. /\ receive' \in [stage : ReceiveStages, address : {"lan", "group", None}, groupCreated : BOOLEAN]
            /\ receive'.stage = "waiting" => receive'.address # None
        BY <2>3, <3>2 DEF LanChecked
      <3> QED
        BY <2>3, <3>1, <3>3 DEF LanChecked
    <2> QED
      BY <1>7, <2>1, <2>2, <2>3 DEF LanAnswer
  <1>8. ASSUME NEW c \in Creates, CreateNetwork(c) \/ PermissionAnswer(c) PROVE TypeOK'
    BY <1>8, Appending DEF CreateNetwork, PermissionAnswer, PermissionDenied, PermissionThrows, PermissionGranted
  <1>9. ASSUME NEW c \in Creates, GroupAnswer(c) PROVE TypeOK'
    <2>1. CASE FormGroup(c)
      BY <1>2, <2>1 DEF FormGroup
    <2>2. CASE RefuseGroup(c)
      BY <1>2, <2>2 DEF RefuseGroup
    <2>3. CASE ConnectionInfo(c)
      BY <2>3 DEF ConnectionInfo
    <2>4. CASE GroupCreated(c)
      BY <2>4 DEF GroupCreated
    <2>5. CASE GroupNotCreated(c)
      BY <2>5 DEF GroupNotCreated
    <2> QED
      BY <1>9, <2>1, <2>2, <2>3, <2>4, <2>5 DEF GroupAnswer
  <1>10. CASE RetryWifiDirect
    BY <1>10 DEF RetryWifiDirect
  <1>11. CASE DropGroup \/ LoseGroup
    BY <1>2, <1>11 DEF DropGroup, LoseGroup
  <1>12. CASE UNCHANGED vars
    BY <1>12 DEF vars
  <1> QED
    BY <1>3, <1>4, <1>5, <1>6, <1>7, <1>8, <1>9, <1>10, <1>11, <1>12 DEF Next, SendFlow

-----------------------------------------------------------------------------
(* The owner of the group, and the removals on their way to it.            *)

\* A step that gives and takes nothing.
LEMMA Untouched ==
    ASSUME IInv, TypeOK', UNCHANGED <<group, calls, lost>>,
           RecordedInReceive',
           receive'.groupCreated = receive.groupCreated,
           \A c \in Creates : Forming(c)' => Forming(c)
    PROVE  IInv'
  BY DEF IInv, OwnedIsSafe, OneOwner, RemovalOfOwn, Removal

\* Once the platform has lost a group, only the last conjunct says anything.
LEMMA Losing ==
    ASSUME TypeOK', lost', RecordedInReceive'
    PROVE  IInv'
  BY DEF IInv, OwnedIsSafe, OneOwner, RemovalOfOwn

\* Receive mode is left, or the flow reset: the visit's group gets its removal.
LEMMA Leaving ==
    ASSUME IInv, TypeOK', RemoveGroup, receive' = NewReceive, UNCHANGED <<group, create, lost>>
    PROVE  IInv'
  <1> USE DEF IInv, NewReceive, RemoveGroup
  <1>1. RecordedInReceive' /\ OneOwner'
    BY DEF RecordedInReceive, OneOwner, Forming
  <1>l. CASE lost
    BY <1>1, <1>l, Losing
  <1>2. CASE ~receive.groupCreated
    BY <1>1, <1>2 DEF OwnedIsSafe, RemovalOfOwn, Removal, Forming
  <1>3. CASE receive.groupCreated /\ ~lost
    <2>1. group /\ \A i \in 1..Len(calls) : ~Removal(i)
      BY <1>3 DEF OwnedIsSafe
    <2>2. \A c \in Creates : ~Forming(c)
      BY <1>3 DEF OneOwner
    <2>3. /\ calls \in Seq(Creates \cup {"remove"}) /\ calls' = Append(calls, "remove")
          /\ Len(calls) \in Nat
      BY <1>3 DEF TypeOK
    <2>4. /\ Len(calls') = Len(calls) + 1
          /\ \A i \in 1..Len(calls) : calls'[i] = calls[i]
      BY <2>3, Appending
    <2>5. \A i \in 1..Len(calls') : Removal(i)' => i = Len(calls) + 1
      BY <2>1, <2>3, <2>4 DEF Removal
    <2>6. OwnedIsSafe'
      BY <2>2 DEF OwnedIsSafe, Forming
    <2>7. RemovalOfOwn'
      BY <2>1, <2>5 DEF RemovalOfOwn
    <2> QED
      BY <1>1, <2>6, <2>7
  <1> QED
    BY <1>l, <1>2, <1>3

\* A call of createGroup joins the queue.
LEMMA Calling ==
    ASSUME IInv, TypeOK', NEW c \in Creates, PermissionGranted(c)
    PROVE  IInv'
  <1> USE DEF IInv
  <1>1. /\ UNCHANGED <<stage, receive, group, lost>>
        /\ calls' = Append(calls, c)
        /\ \A d \in Creates : Forming(d)' => Forming(d)
    BY DEF PermissionGranted, uiVars, Forming, TypeOK
  <1>2. /\ calls \in Seq(Creates \cup {"remove"}) /\ Len(calls) \in Nat
        /\ c \in Creates \cup {"remove"} /\ c # "remove"
    BY HomeFlowAssumption DEF TypeOK
  <1>3. /\ Len(calls') = Len(calls) + 1
        /\ \A i \in 1..Len(calls) : calls'[i] = calls[i]
        /\ calls'[Len(calls) + 1] = c
    BY <1>1, <1>2, Appending
  <1>4. \A i \in 1..Len(calls') : Removal(i)' => i \in 1..Len(calls) /\ Removal(i)
    BY <1>2, <1>3 DEF Removal
  <1>5. OwnedIsSafe' /\ RemovalOfOwn'
    BY <1>1, <1>4 DEF OwnedIsSafe, RemovalOfOwn
  <1>6. OneOwner' /\ RecordedInReceive'
    BY <1>1 DEF OneOwner, RecordedInReceive
  <1> QED
    BY <1>5, <1>6

\* The platform serves the head of the queue.
LEMMA Serving ==
    ASSUME IInv, TypeOK', calls # <<>>, calls' = Tail(calls),
           UNCHANGED <<stage, receive, lost>>,
           \/ /\ UNCHANGED group
              /\ \A c \in Creates : Forming(c)' => Forming(c)
           \/ /\ ~group /\ group'
              /\ \A c, d \in Creates : Forming(c)' /\ Forming(d)' => c = d \/ Forming(c) \/ Forming(d)
           \/ /\ Removal(1)
              /\ \A c \in Creates : Forming(c)' => Forming(c)
    PROVE  IInv'
  <1> USE DEF IInv
  <1>1. /\ Len(calls) \in Nat /\ Len(calls) >= 1
        /\ \A i \in 1..Len(calls') : /\ i + 1 \in 1..Len(calls)
                                     /\ Removal(i)' => Removal(i + 1)
    BY Taking DEF TypeOK, Removal
  <1>2. RecordedInReceive'
    BY DEF RecordedInReceive
  <1>l. CASE lost
    BY <1>2, <1>l, Losing
  <1>3. CASE ~lost /\ UNCHANGED group /\ \A c \in Creates : Forming(c)' => Forming(c)
    <2>1. OwnedIsSafe' /\ OneOwner'
      BY <1>1, <1>3 DEF OwnedIsSafe, OneOwner
    <2>2. RemovalOfOwn'
      <3>1. \A i \in 1..Len(calls') : Removal(i)' => group'
        BY <1>1, <1>3 DEF RemovalOfOwn
      <3>2. ASSUME NEW i \in 1..Len(calls'), NEW j \in 1..Len(calls'), Removal(i)', Removal(j)'
            PROVE  i = j
        <4>1. i + 1 = j + 1
          BY <1>1, <1>3, <3>2 DEF RemovalOfOwn
        <4> QED
          BY <4>1
      <3> QED
        BY <3>1, <3>2 DEF RemovalOfOwn
    <2> QED
      BY <1>2, <2>1, <2>2
  <1>4. CASE /\ ~lost /\ ~group /\ group'
             /\ \A c, d \in Creates : Forming(c)' /\ Forming(d)' => c = d \/ Forming(c) \/ Forming(d)
    <2>1. /\ ~receive.groupCreated
          /\ \A c \in Creates : ~Forming(c)
          /\ \A i \in 1..Len(calls) : ~Removal(i)
      BY <1>4 DEF OwnedIsSafe, RemovalOfOwn
    <2>2. \A i \in 1..Len(calls') : ~Removal(i)'
      BY <1>1, <2>1
    <2> QED
      BY <1>2, <1>4, <2>1, <2>2 DEF OwnedIsSafe, OneOwner, RemovalOfOwn
  <1>5. CASE ~lost /\ Removal(1) /\ \A c \in Creates : Forming(c)' => Forming(c)
    <2>1. 1 \in 1..Len(calls)
      BY <1>1
    <2>2. ~receive.groupCreated /\ \A c \in Creates : ~Forming(c)
      BY <1>5, <2>1 DEF OwnedIsSafe
    <2>3. \A i \in 1..Len(calls') : ~Removal(i)'
      <3> SUFFICES ASSUME NEW i \in 1..Len(calls'), Removal(i)' PROVE FALSE
        OBVIOUS
      <3>1. i + 1 = 1
        BY <1>1, <1>5, <2>1 DEF RemovalOfOwn
      <3> QED
        BY <1>1, <3>1
    <2> QED
      BY <1>2, <1>5, <2>2, <2>3 DEF OwnedIsSafe, OneOwner, RemovalOfOwn
  <1> QED
    BY <1>l, <1>3, <1>4, <1>5

LEMMA IInvStep == IInv /\ [Next]_vars => IInv'
  <1> SUFFICES ASSUME IInv, [Next]_vars PROVE IInv'
    OBVIOUS
  <1> USE DEF uiVars, platformVars, Shows
  <1>0. TypeOK /\ TypeOK' /\ OwnedIsSafe /\ OneOwner /\ RecordedInReceive
    BY TypeStep DEF IInv
  <1>1. CASE StartSend \/ FilesPicked \/ DeviceSelected \/ TransferStarted
    <2>1. RecordedInReceive'
      BY <1>0, <1>1 DEF StartSend, FilesPicked, DeviceSelected, TransferStarted, RecordedInReceive
    <2> QED
      BY <1>0, <1>1, <2>1, Untouched
         DEF StartSend, FilesPicked, DeviceSelected, TransferStarted, Forming
  <1>2. ASSUME NEW s \in Sends, Send(s) \/ SendReturns(s) \/ SendFails(s) PROVE IInv'
    <2>1. CASE SendReturns(s) /\ Reset
      BY <1>0, <2>1, Leaving DEF SendReturns, Reset
    <2>2. CASE Send(s) \/ SendFails(s) \/ (SendReturns(s) /\ UNCHANGED <<stage, receive, asked, calls>>)
      BY <1>0, <2>2, Untouched DEF Send, SendFails, SendReturns, Forming, RecordedInReceive
    <2> QED
      BY <1>2, <2>1, <2>2 DEF SendReturns
  <1>3. CASE Back
    <2>1. CASE BackFromPicker \/ BackFromDevices \/ BackFromConfirm
      <3>1. RecordedInReceive' /\ receive'.groupCreated = receive.groupCreated
        BY <1>0, <2>1
           DEF BackFromPicker, BackFromDevices, BackFromConfirm, RecordedInReceive, NewReceive, TypeOK
      <3> QED
        BY <1>0, <2>1, <3>1, Untouched DEF BackFromPicker, BackFromDevices, BackFromConfirm, Forming
    <2>2. CASE BackFromReceive
      BY <1>0, <2>2, Leaving DEF BackFromReceive
    <2> QED
      BY <1>3, <2>1, <2>2 DEF Back
  <1>4. ASSUME NEW v \in Visits, StartReceive(v) \/ LanAnswer(v) PROVE IInv'
    <2>1. CASE StartReceive(v)
      <3>1. ~receive.groupCreated
        BY <1>0, <2>1 DEF StartReceive, RecordedInReceive
      <3>2. RecordedInReceive' /\ receive'.groupCreated = receive.groupCreated
        BY <1>0, <2>1, <3>1 DEF StartReceive, RecordedInReceive, NewReceive, TypeOK
      <3> QED
        BY <1>0, <2>1, <3>2, Untouched DEF StartReceive, Forming
    <2>2. CASE LanProbed(v)
      BY <1>0, <2>2, Untouched DEF LanProbed, Forming, RecordedInReceive
    <2>3. CASE LanChecked(v)
      <3>1. receive'.groupCreated = receive.groupCreated
        <4>1. CASE stage # "receiveMode"
          BY <2>3, <4>1 DEF LanChecked
        <4>2. CASE stage = "receiveMode" /\ visit[v] = "nothing"
          BY <1>0, <2>3, <4>2 DEF LanChecked, TypeOK
        <4>3. CASE stage = "receiveMode" /\ visit[v] # "nothing"
          BY <1>0, <2>3, <4>3 DEF LanChecked, TypeOK
        <4> QED
          BY <4>1, <4>2, <4>3
      <3>2. RecordedInReceive'
        BY <1>0, <2>3, <3>1 DEF LanChecked, RecordedInReceive
      <3> QED
        BY <1>0, <2>3, <3>1, <3>2, Untouched DEF LanChecked, Forming
    <2> QED
      BY <1>4, <2>1, <2>2, <2>3 DEF LanAnswer
  <1>5. ASSUME NEW c \in Creates, CreateNetwork(c) \/ PermissionAnswer(c) PROVE IInv'
    <2>1. CASE PermissionGranted(c)
      BY <1>0, <2>1, Calling
    <2>2. CASE CreateNetwork(c) \/ PermissionDenied(c) \/ PermissionThrows(c)
      <3>1. RecordedInReceive' /\ receive'.groupCreated = receive.groupCreated
        BY <1>0, <2>2 DEF CreateNetwork, PermissionDenied, PermissionThrows, RecordedInReceive, TypeOK
      <3>2. \A d \in Creates : Forming(d)' => Forming(d)
        BY <1>0, <2>2 DEF CreateNetwork, PermissionDenied, PermissionThrows, Forming, TypeOK
      <3> QED
        BY <1>0, <2>2, <3>1, <3>2, Untouched DEF CreateNetwork, PermissionDenied, PermissionThrows
    <2> QED
      BY <1>5, <2>1, <2>2 DEF PermissionAnswer
  <1>6. ASSUME NEW c \in Creates, GroupAnswer(c) PROVE IInv'
    <2>1. CASE FormGroup(c)
      <3>1. \A d, e \in Creates : Forming(d)' /\ Forming(e)' => d = e \/ Forming(d) \/ Forming(e)
        BY <1>0, <2>1 DEF FormGroup, Forming, TypeOK
      <3> QED
        BY <1>0, <2>1, <3>1, Serving DEF FormGroup, NextCall
    <2>2. CASE RefuseGroup(c)
      <3>1. \A d \in Creates : Forming(d)' => Forming(d)
        BY <1>0, <2>2 DEF RefuseGroup, Forming, TypeOK
      <3> QED
        BY <1>0, <2>2, <3>1, Serving DEF RefuseGroup, NextCall
    <2>3. CASE ConnectionInfo(c) \/ GroupNotCreated(c)
      <3>1. RecordedInReceive' /\ receive'.groupCreated = receive.groupCreated
        BY <1>0, <2>3 DEF ConnectionInfo, GroupNotCreated, RecordedInReceive, TypeOK
      <3>2. \A d \in Creates : Forming(d)' => Forming(d)
        BY <1>0, <2>3 DEF ConnectionInfo, GroupNotCreated, Forming, TypeOK
      <3> QED
        BY <1>0, <2>3, <3>1, <3>2, Untouched DEF ConnectionInfo, GroupNotCreated
    <2>4. CASE GroupCreated(c)
      \* The visit becomes the owner in the creation's place.
      <3>1. /\ UNCHANGED <<stage, group, calls, lost>>
            /\ Forming(c)
            /\ \A d \in Creates : Forming(d)' => Forming(d) /\ d # c
            /\ receive' = receive \/ stage = "receiveMode"
        BY <1>0, <2>4 DEF GroupCreated, Forming, TypeOK
      <3>l. RecordedInReceive'
        BY <1>0, <3>1 DEF RecordedInReceive
      <3> SUFFICES ASSUME ~lost PROVE IInv'
        BY <1>0, <3>1, <3>l, Losing
      <3>2. group /\ \A i \in 1..Len(calls) : ~Removal(i)
        BY <1>0, <3>1 DEF OwnedIsSafe
      <3>3. \A d \in Creates : ~Forming(d)'
        BY <1>0, <3>1 DEF OneOwner
      <3>4. OwnedIsSafe' /\ OneOwner' /\ RecordedInReceive'
        BY <1>0, <3>1, <3>2, <3>3 DEF OwnedIsSafe, OneOwner, RecordedInReceive, Removal
      <3>5. RemovalOfOwn'
        BY <3>1, <3>2 DEF RemovalOfOwn, Removal
      <3> QED
        BY <1>0, <3>4, <3>5 DEF IInv
    <2> QED
      BY <1>6, <2>1, <2>2, <2>3, <2>4 DEF GroupAnswer
  <1>7. CASE RetryWifiDirect
    <2>1. RecordedInReceive' /\ receive'.groupCreated = receive.groupCreated
      BY <1>0, <1>7 DEF RetryWifiDirect, RecordedInReceive, TypeOK
    <2> QED
      BY <1>0, <1>7, <2>1, Untouched DEF RetryWifiDirect, Forming
  <1>8. CASE DropGroup
    <2>1. Head(calls) = calls[1]
      BY <1>0, <1>8, Taking DEF DropGroup, NextCall, TypeOK
    <2>2. Removal(1) /\ \A c \in Creates : Forming(c)' => Forming(c)
      BY <1>8, <2>1 DEF DropGroup, NextCall, Removal, Forming
    <2> QED
      BY <1>0, <1>8, <2>2, Serving DEF DropGroup, NextCall
  <1>9. CASE LoseGroup
    BY <1>0, <1>9, Losing DEF LoseGroup, RecordedInReceive
  <1>10. CASE UNCHANGED vars
    BY <1>0, <1>10, Untouched DEF vars, RecordedInReceive, Forming
  <1> QED
    BY <1>1, <1>2, <1>3, <1>4, <1>5, <1>6, <1>7, <1>8, <1>9, <1>10 DEF Next, SendFlow

\* However answers to calls of one visit arrive in another, and however
\* creations and removals queue up, no call of the app takes down a recorded
\* group: it is up unless the platform has lost one by itself
\* (providers.dart:158-195, 287-293).
THEOREM RecordedGroupStands == Spec => []RecordedGroupIsUp
  <1>1. IInv => RecordedGroupIsUp
    BY DEF IInv, OwnedIsSafe, RecordedGroupIsUp
  <1> QED
    BY <1>1, InitIInv, IInvStep, PTL DEF Spec

\* The flow's variables keep their types, and while it waits an address is
\* shown (providers.dart:102-154).
THEOREM TypeCorrect == Spec => []TypeOK
  <1>1. IInv => TypeOK
    BY DEF IInv
  <1> QED
    BY <1>1, InitIInv, IInvStep, PTL DEF Spec

\* Discovery was last asked to start while a destination is being chosen, and
\* not in the stages that show no devices, on every way through the flow;
\* confirmSend is left open (providers.dart:221-235, 249-280).
THEOREM DiscoveryFollows == Spec => []DiscoveryFollowsStage
  <1>1. Init => DiscoveryFollowsStage
    BY DEF Init, DiscoveryFollowsStage
  <1>2. TypeOK /\ DiscoveryFollowsStage /\ [Next]_vars => DiscoveryFollowsStage'
    <2> SUFFICES ASSUME TypeOK, DiscoveryFollowsStage, [Next]_vars PROVE DiscoveryFollowsStage'
      OBVIOUS
    <2> USE DEF DiscoveryFollowsStage, Shows, uiVars
    <2>1. CASE SendFlow
      BY <2>1 DEF SendFlow, StartSend, FilesPicked, DeviceSelected, TransferStarted, Send,
         SendReturns, SendFails, Reset, StopDiscovery, TypeOK, Stages
    <2>2. CASE Back
      BY <2>2 DEF Back, BackFromPicker, BackFromDevices, BackFromConfirm, BackFromReceive, StopDiscovery
    <2>3. ASSUME NEW v \in Visits, StartReceive(v) \/ LanAnswer(v) PROVE DiscoveryFollowsStage'
      BY <2>3 DEF StartReceive, LanAnswer, LanProbed, LanChecked
    <2>4. ASSUME NEW c \in Creates, CreateNetwork(c) \/ PermissionAnswer(c) \/ GroupAnswer(c)
          PROVE  DiscoveryFollowsStage'
      BY <2>4 DEF CreateNetwork, PermissionAnswer, PermissionDenied, PermissionThrows, PermissionGranted, GroupAnswer,
         FormGroup, RefuseGroup, ConnectionInfo, GroupCreated, GroupNotCreated
    <2>5. CASE RetryWifiDirect \/ DropGroup \/ LoseGroup \/ UNCHANGED vars
      BY <2>5 DEF RetryWifiDirect, DropGroup, LoseGroup, vars
    <2> QED
      BY <2>1, <2>2, <2>3, <2>4, <2>5 DEF Next
  <1> QED
    BY <1>1, <1>2, TypeCorrect, PTL DEF Spec
=============================================================================
