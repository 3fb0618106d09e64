------------------------------ MODULE HomeFlow ------------------------------
(***************************************************************************)
(* The Home tab: HomeFlowNotifier of                                       *)
(* flutter/lib/providers/filedrop_providers.dart, the views that call it   *)
(* (screens/home_screen.dart, widgets/send_confirmation_body.dart), and    *)
(* the Wi-Fi Direct group it creates through WifiDirectHandler.kt.         *)
(*                                                                         *)
(* Dart runs one callback at a time; what follows an await runs later, in  *)
(* whatever stage the user has gone to, and is a step of its own.  The     *)
(* server is started before the first view and never stopped               *)
(* (main.dart:52-57), so ensureServerRunning returns at once.  The         *)
(* platform channel and WifiP2pManager serve calls in the order they are   *)
(* made.  The platform may also lose a group by itself: neither            *)
(* WifiDirectHandler.kt nor Dart listens for that.                         *)
(* Visits, Creates and Sends name the calls of startReceive,               *)
(* createWifiDirectGroup and sendFiles.                                    *)
(***************************************************************************)
EXTENDS Naturals, Sequences

CONSTANTS
    Visits,     \* visits of receive mode
    Creates,    \* presses of "Create Network"
    Sends,      \* presses of "Send"
    None

ASSUME HomeFlowAssumption ==
    /\ None \notin {"lan", "group"}
    /\ "remove" \notin Creates

VARIABLES
    stage,      \* HomeFlowState.stage
    receive,    \* HomeFlowState.receive
    asked,      \* the last call made of startDiscovery and stopDiscovery
    active,     \* whether activeTransfersProvider has an entry
    visit,      \* where each startReceive is, and what checkUsableLan found
    create,     \* where each createWifiDirectGroup is
    send,       \* where each sendFiles is
    calls,      \* createGroup and removeGroup calls the platform has to serve
    group,      \* whether this device owns a Wi-Fi Direct group
    lost        \* observer: whether the platform has ever lost one by itself

uiVars == <<stage, receive, asked, active>>
platformVars == <<calls, group, lost>>
vars == <<uiVars, visit, create, send, platformVars>>

Stages == {"idle", "filePicker", "deviceSelectSend", "confirmSend", "receiveMode"}
ReceiveStages == {"checkingLan", "noLanFound", "creatingGroup", "wifiDirectError", "waiting"}

\* const ReceiveState()
NewReceive == [stage |-> "checkingLan", address |-> None, groupCreated |-> FALSE]

Init ==
    /\ stage = "idle"
    /\ receive = NewReceive
    /\ asked = "none"
    /\ active = FALSE
    /\ visit = [v \in Visits |-> "idle"]
    /\ create = [c \in Creates |-> "idle"]
    /\ send = [s \in Sends |-> "idle"]
    /\ calls = <<>>
    /\ group = FALSE
    /\ lost = FALSE

\* What the user sees: the flow's view, unless there are active transfers.
Shows(st) == ~active /\ stage = st

\* A confirmation body that leaves the screen is no longer mounted.
Unmounted == [s \in Sends |-> IF send[s] = "mounted" THEN "unmounted" ELSE send[s]]

\* _maybeRemoveWifiDirectGroup: not awaited.
RemoveGroup == calls' = IF receive.groupCreated THEN Append(calls, "remove") ELSE calls

\* _maybeStopDiscovery.
StopDiscovery ==
    asked' = IF stage \in {"deviceSelectSend", "confirmSend"} THEN "stop" ELSE asked

-----------------------------------------------------------------------------
(* The send flow.                                                          *)

StartSend ==
    /\ Shows("idle")
    /\ stage' = "filePicker"
    /\ UNCHANGED <<receive, asked, active, visit, create, send, platformVars>>

FilesPicked ==
    /\ Shows("filePicker")
    /\ stage' = "deviceSelectSend"
    /\ asked' = "start"
    /\ UNCHANGED <<receive, active, visit, create, send, platformVars>>

DeviceSelected ==
    /\ Shows("deviceSelectSend")
    /\ stage' = "confirmSend"
    /\ asked' = "stop"
    /\ UNCHANGED <<receive, active, visit, create, send, platformVars>>

\* The button is off while a call of the same body is out.
Send(s) ==
    /\ Shows("confirmSend")
    /\ send[s] = "idle"
    /\ \A t \in Sends : send[t] # "mounted"
    /\ send' = [send EXCEPT ![s] = "mounted"]
    /\ UNCHANGED <<uiVars, visit, create, platformVars>>

\* reset(), called by onSent while the body is mounted.
Reset ==
    /\ RemoveGroup
    /\ StopDiscovery
    /\ stage' = "idle"
    /\ receive' = NewReceive

SendReturns(s) ==
    /\ \/ /\ send[s] = "mounted"
          /\ Reset
       \/ /\ send[s] = "unmounted"
          /\ UNCHANGED <<stage, receive, asked, calls>>
    /\ send' = [send EXCEPT ![s] = "returned"]
    /\ UNCHANGED <<active, visit, create, group, lost>>

\* The error is shown by the body itself.
SendFails(s) ==
    /\ send[s] \in {"mounted", "unmounted"}
    /\ send' = [send EXCEPT ![s] = "failed"]
    /\ UNCHANGED <<uiVars, visit, create, platformVars>>

\* TransferStarted: the first entry of activeTransfersProvider, which nothing
\* removes.  The call that queued the file may be out still, or have failed at
\* a later file.
TransferStarted ==
    /\ ~active
    /\ \E s \in Sends : send[s] # "idle"
    /\ active' = TRUE
    /\ send' = Unmounted
    /\ UNCHANGED <<stage, receive, asked, visit, create, platformVars>>

-----------------------------------------------------------------------------
(* back().                                                                 *)

BackFromPicker ==
    /\ Shows("filePicker")
    /\ stage' = "idle"
    /\ receive' = NewReceive
    /\ UNCHANGED <<asked, active, visit, create, send, platformVars>>

\* Mutant of BackFromDevices: discovery goes on under the file picker.
BackFromDevicesKeepsOn ==
    /\ Shows("deviceSelectSend")
    /\ stage' = "filePicker"
    /\ UNCHANGED <<receive, asked, active, visit, create, send, platformVars>>

BackFromDevices ==
    /\ Shows("deviceSelectSend")
    /\ StopDiscovery
    /\ stage' = "filePicker"
    /\ UNCHANGED <<receive, active, visit, create, send, platformVars>>

BackFromConfirm ==
    /\ Shows("confirmSend")
    /\ stage' = "deviceSelectSend"
    /\ asked' = "start"
    /\ send' = Unmounted
    /\ UNCHANGED <<receive, active, visit, create, platformVars>>

BackFromReceive ==
    /\ Shows("receiveMode")
    /\ RemoveGroup
    /\ stage' = "idle"
    /\ receive' = NewReceive
    /\ UNCHANGED <<asked, active, visit, create, send, group, lost>>

-----------------------------------------------------------------------------
(* Receive mode.                                                           *)

StartReceive(v) ==
    /\ Shows("idle")
    /\ visit[v] = "idle"
    /\ visit' = [visit EXCEPT ![v] = "asked"]
    /\ stage' = "receiveMode"
    /\ receive' = NewReceive
    /\ UNCHANGED <<asked, active, create, send, platformVars>>

\* check_usable_lan: the first private address of any interface, the group's
\* own included; or none, or an error.
LanProbed(v) ==
    /\ visit[v] = "asked"
    /\ \E found \in {"lan", "nothing"} \cup (IF group THEN {"group"} ELSE {}) :
            visit' = [visit EXCEPT ![v] = found]
    /\ UNCHANGED <<uiVars, create, send, platformVars>>

\* _checkLanAndMaybeWait after its await.
LanChecked(v) ==
    /\ visit[v] \in {"lan", "group", "nothing"}
    /\ visit' = [visit EXCEPT ![v] = "done"]
    /\ receive' =
        IF stage # "receiveMode" THEN receive
        ELSE IF visit[v] = "nothing" THEN [receive EXCEPT !.stage = "noLanFound"]
        ELSE [receive EXCEPT !.stage = "waiting", !.address = visit[v]]
    /\ UNCHANGED <<stage, asked, active, create, send, platformVars>>

\* "Create Network": the permission is requested first.
CreateNetwork(c) ==
    /\ Shows("receiveMode")
    /\ receive.stage = "noLanFound"
    /\ create[c] = "idle"
    /\ create' = [create EXCEPT ![c] = "permission"]
    /\ receive' = [receive EXCEPT !.stage = "creatingGroup"]
    /\ UNCHANGED <<stage, asked, active, visit, send, platformVars>>

\* A refusal is written without a look at the stage.
PermissionDenied(c) ==
    /\ create[c] = "permission"
    /\ create' = [create EXCEPT ![c] = "done"]
    /\ receive' = [receive EXCEPT !.stage = "wifiDirectError"]
    /\ UNCHANGED <<stage, asked, active, visit, send, platformVars>>

\* The request itself fails: the last catch clause, which does look.
PermissionThrows(c) ==
    /\ create[c] = "permission"
    /\ create' = [create EXCEPT ![c] = "done"]
    /\ receive' =
        IF stage # "receiveMode" THEN receive
        ELSE [receive EXCEPT !.stage = "wifiDirectError"]
    /\ UNCHANGED <<stage, asked, active, visit, send, platformVars>>

\* Mutant of PermissionGranted: the group is recorded before it is there.
PermissionGrantedMarks(c) ==
    /\ create[c] = "permission"
    /\ create' = [create EXCEPT ![c] = "called"]
    /\ calls' = Append(calls, c)
    /\ receive' = [receive EXCEPT !.groupCreated = TRUE]
    /\ UNCHANGED <<stage, asked, active, visit, send, group, lost>>

PermissionGranted(c) ==
    /\ create[c] = "permission"
    /\ create' = [create EXCEPT ![c] = "called"]
    /\ calls' = Append(calls, c)
    /\ UNCHANGED <<uiVars, visit, send, group, lost>>

\* createGroup returned an address: the continuation is for whatever visit of
\* receive mode is on.
GroupCreated(c) ==
    /\ create[c] = "address"
    /\ create' = [create EXCEPT ![c] = "done"]
    /\ receive' =
        IF stage # "receiveMode" THEN receive
        ELSE [stage |-> "waiting", address |-> "group", groupCreated |-> TRUE]
    /\ UNCHANGED <<stage, asked, active, visit, send, platformVars>>

\* Mutant of GroupNotCreated: the exception is not caught.
GroupNotCreatedThrows(c) ==
    /\ create[c] = "error"
    /\ create' = [create EXCEPT ![c] = "done"]
    /\ UNCHANGED <<uiVars, visit, send, platformVars>>

\* WifiDirectException.
GroupNotCreated(c) ==
    /\ create[c] = "error"
    /\ create' = [create EXCEPT ![c] = "done"]
    /\ receive' =
        IF stage # "receiveMode" THEN receive
        ELSE [receive EXCEPT !.stage = "wifiDirectError"]
    /\ UNCHANGED <<stage, asked, active, visit, send, platformVars>>

RetryWifiDirect ==
    /\ Shows("receiveMode")
    /\ receive.stage = "wifiDirectError"
    /\ receive' = [receive EXCEPT !.stage = "noLanFound"]
    /\ UNCHANGED <<stage, asked, active, visit, create, send, platformVars>>

-----------------------------------------------------------------------------
(* The platform: WifiDirectHandler.kt and WifiP2pManager.                  *)

NextCall(c) == calls # <<>> /\ Head(calls) = c

\* onSuccess, when there is no group yet.
FormGroup(c) ==
    /\ NextCall(c)
    /\ ~group
    /\ group' = TRUE
    /\ calls' = Tail(calls)
    /\ create' = [create EXCEPT ![c] = "formed"]
    /\ UNCHANGED <<uiVars, visit, send, lost>>

\* Wi-Fi is off, not permitted, not supported, busy: a group is up already.
RefuseGroup(c) ==
    /\ NextCall(c)
    /\ calls' = Tail(calls)
    /\ create' = [create EXCEPT ![c] = "error"]
    /\ UNCHANGED <<uiVars, visit, send, group, lost>>

\* requestConnectionInfo: the address, or NO_GROUP_INFO when the group has not
\* formed so far or is gone.
ConnectionInfo(c) ==
    /\ create[c] = "formed"
    /\ \E answer \in {"error"} \cup (IF group THEN {"address"} ELSE {}) :
            create' = [create EXCEPT ![c] = answer]
    /\ UNCHANGED <<uiVars, visit, send, platformVars>>

\* removeGroup: a failure, for want of a group or another, is no error.
DropGroup ==
    /\ NextCall("remove")
    /\ group' \in {FALSE, group}
    /\ calls' = Tail(calls)
    /\ UNCHANGED <<uiVars, visit, create, send, lost>>

\* Wi-Fi is switched off, or the framework takes the group down.  Nobody is told.
LoseGroup ==
    /\ group
    /\ group' = FALSE
    /\ lost' = TRUE
    /\ UNCHANGED <<uiVars, visit, create, send, calls>>

-----------------------------------------------------------------------------

SendFlow ==
    \/ StartSend \/ FilesPicked \/ DeviceSelected \/ TransferStarted
    \/ \E s \in Sends : Send(s) \/ SendReturns(s) \/ SendFails(s)

Back == BackFromPicker \/ BackFromDevices \/ BackFromConfirm \/ BackFromReceive

LanAnswer(v) == LanProbed(v) \/ LanChecked(v)

PermissionAnswer(c) == PermissionDenied(c) \/ PermissionThrows(c) \/ PermissionGranted(c)

GroupAnswer(c) ==
    FormGroup(c) \/ RefuseGroup(c) \/ ConnectionInfo(c) \/ GroupCreated(c) \/ GroupNotCreated(c)

Next ==
    \/ SendFlow
    \/ Back
    \/ \E v \in Visits : StartReceive(v) \/ LanAnswer(v)
    \/ \E c \in Creates : CreateNetwork(c) \/ PermissionAnswer(c) \/ GroupAnswer(c)
    \/ RetryWifiDirect
    \/ DropGroup
    \/ LoseGroup

Spec == Init /\ [][Next]_vars

\* Calls into Rust and the platform are answered, and so is the permission
\* dialog.  The user may stop pressing buttons at any time.
FairSpec ==
    /\ Spec
    /\ \A v \in Visits : WF_vars(LanAnswer(v))
    /\ \A c \in Creates : WF_vars(PermissionAnswer(c)) /\ WF_vars(GroupAnswer(c))
    /\ WF_vars(DropGroup)

-----------------------------------------------------------------------------
(* Properties.                                                             *)

\* The types; and an address is shown while waiting (providers.dart:140-154).
TypeOK ==
    /\ stage \in Stages
    /\ receive \in [stage : ReceiveStages, address : {"lan", "group", None}, groupCreated : BOOLEAN]
    /\ asked \in {"none", "start", "stop"}
    /\ active \in BOOLEAN
    /\ visit \in [Visits -> {"idle", "asked", "lan", "group", "nothing", "done"}]
    /\ create \in [Creates -> {"idle", "permission", "called", "formed", "address", "error", "done"}]
    /\ send \in [Sends -> {"idle", "mounted", "unmounted", "returned", "failed"}]
    /\ calls \in Seq(Creates \cup {"remove"})
    /\ group \in BOOLEAN
    /\ lost \in BOOLEAN
    /\ receive.stage = "waiting" => receive.address # None

\* The app never takes down a group that receive mode has recorded, although
\* continuations of one visit run in the next, creations overlap, and the
\* removal of a group an earlier visit left is still on its way: the group is
\* up as long as the platform has not lost one by itself, which nothing tells
\* the app (providers.dart:158-195, 287-293, WifiDirectHandler.kt).
RecordedGroupIsUp ==
    stage = "receiveMode" /\ receive.groupCreated /\ ~lost => group

Removal(i) == calls[i] = "remove"

\* Whose the group is: a creation that is to be answered, or the visit.
Forming(c) == create[c] \in {"formed", "address"}

\* A group that somebody has is up, and no removal is on its way to it.
OwnedIsSafe ==
    ~lost /\ (receive.groupCreated \/ \E c \in Creates : Forming(c)) =>
        group /\ \A i \in 1..Len(calls) : ~Removal(i)

\* It has one owner.
OneOwner ==
    ~lost =>
        /\ \A c, d \in Creates : Forming(c) /\ Forming(d) => c = d
        /\ receive.groupCreated => \A c \in Creates : ~Forming(c)

\* A removal finds the group it was called for, and there is no other.
RemovalOfOwn ==
    ~lost =>
        /\ \A i \in 1..Len(calls) : Removal(i) => group
        /\ \A i, j \in 1..Len(calls) : Removal(i) /\ Removal(j) => i = j

\* Leaving receive mode forgets the group.
RecordedInReceive == receive.groupCreated => stage = "receiveMode"

\* RecordedGroupIsUp, which follows from the second conjunct, with what makes
\* it inductive.
IInv == TypeOK /\ OwnedIsSafe /\ OneOwner /\ RemovalOfOwn /\ RecordedInReceive

\* The last call made is a start while a destination is being chosen, and is
\* none in the stages that show no devices, however the flow got there.  It is
\* silent about confirmSend: the code has asked for a stop by then, a comment
\* says that it has not (providers.dart:221-235, 249-280).
DiscoveryFollowsStage ==
    /\ stage = "deviceSelectSend" => asked = "start"
    /\ stage \in {"idle", "filePicker", "receiveMode"} => asked # "start"

Spinning(st) == stage = "receiveMode" /\ receive.stage = st

\* Neither spinner of receive mode turns for ever (providers.dart:121-195).
SpinnersEnd ==
    \A st \in {"checkingLan", "creatingGroup"} : Spinning(st) ~> ~Spinning(st)

-----------------------------------------------------------------------------
(* What the documentation says and the code does not do.                   *)

\* "Tears down any Wi-Fi Direct group created this session [..] when leaving
\* receive mode" (providers.dart:282-286): with every call answered, there is
\* no group once the user has left.
GroupTornDown ==
    (/\ stage # "receiveMode"
     /\ calls = <<>>
     /\ \A c \in Creates : create[c] \in {"idle", "done"}) => ~group
=============================================================================
