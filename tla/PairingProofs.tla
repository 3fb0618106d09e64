--------------------------- MODULE PairingProofs ----------------------------
(***************************************************************************)
(* Proofs about the pairing handshake, by itself and driven by its user,   *)
(* for any peers, calls, times and taps, and any feed of events.           *)
(***************************************************************************)
EXTENDS PairingSheet, FiniteSetTheorems, TLAPS

LEMMA InitIInv == Init => IInv
  BY PairingAssumption DEF Init, IInv, TypeOK, States, OpenedByOwnToken, TokenOfItsOwn, PresentedInTime

\* The steps of pair_device keep the invariant: the only request they touch is
\* the one they replace as a whole.
LEMMA CallKeepsIInv ==
    ASSUME IInv, NEW c \in Calls, (\E p \in Peers : Generate(c, p)) \/ Store(c) \/ Payload(c)
    PROVE  IInv'
  <1> USE PairingAssumption DEF IInv
  <1>1. ASSUME NEW p \in Peers, Generate(c, p)
        PROVE  IInv'
    <2> USE <1>1 DEF Generate, requestVars
    <2>1. TypeOK'
      BY DEF TypeOK, States
    <2>2. \A d \in Calls : pc[d] # "idle" => pc'[d] = pc[d] /\ peer'[d] = peer[d] /\ until'[d] = until[d]
      BY DEF TypeOK
    <2>3. TokenOfItsOwn' /\ OpenedByOwnToken'
      BY <2>2 DEF TypeOK, TokenOfItsOwn, OpenedByOwnToken
    <2>4. PresentedInTime'
      BY <2>2 DEF TypeOK, PresentedInTime
    <2> QED
      BY <2>1, <2>3, <2>4
  <1>2. CASE Store(c)
    <2> USE <1>2 DEF Store, SetState
    <2>1. TypeOK'
      BY DEF TypeOK, States
    <2>2. OpenedByOwnToken' /\ TokenOfItsOwn' /\ PresentedInTime'
      BY DEF TypeOK, States, OpenedByOwnToken, TokenOfItsOwn, PresentedInTime
    <2> QED
      BY <2>1, <2>2
  <1>3. CASE Payload(c)
    <2> USE <1>3 DEF Payload, requestVars
    <2>1. TypeOK'
      BY DEF TypeOK, States
    <2>2. OpenedByOwnToken' /\ TokenOfItsOwn' /\ PresentedInTime'
      BY DEF TypeOK, States, OpenedByOwnToken, TokenOfItsOwn, PresentedInTime
    <2> QED
      BY <2>1, <2>2
  <1> QED
    BY <1>1, <1>2, <1>3

\* A token that is accepted is the current request's, and is accepted in time.
LEMMA PresentKeepsIInv ==
    ASSUME IInv, NEW p \in Peers, NEW k \in Calls, PresentToken(p, k)
    PROVE  IInv'
  <1> USE PairingAssumption DEF IInv, PresentToken, SetState, IsExpired, callVars
  <1>1. TypeOK'
    BY DEF TypeOK, States
  <1>2. PresentedInTime'
    BY DEF TypeOK, TokenOfItsOwn, PresentedInTime
  <1>3. TokenOfItsOwn'
    BY DEF TypeOK, TokenOfItsOwn
  <1>4. OpenedByOwnToken'
    BY DEF TypeOK, TokenOfItsOwn, PresentedInTime, OpenedByOwnToken
  <1> QED
    BY <1>1, <1>2, <1>3, <1>4

\* A decision, on whatever peer, a sweep and the clock only lead out of
\* AwaitingConfirmation.
LEMMA OthersKeepIInv ==
    ASSUME IInv,
           \/ \E p, accept : Confirm(p, accept)
           \/ SweepExpired
           \/ \E t \in 0..MaxTime : SetClock(t)
    PROVE  IInv'
  <1> USE PairingAssumption DEF IInv
  <1>1. ASSUME NEW p, NEW accept, Confirm(p, accept)
        PROVE  IInv'
    <2>1. PICK s \in {"Paired", "Rejected"} : state' = [state EXCEPT ![p] = s]
      BY <1>1 DEF Confirm, SetState
    <2>2. UNCHANGED <<token, expires, now, pc, peer, until, qr, presented>>
      BY <1>1 DEF Confirm, callVars
    <2>3. /\ state' \in [Peers -> States]
          /\ \A q \in Peers : state'[q] = state[q] \/ (state[q] # "Absent" /\ state'[q] \in {"Paired", "Rejected"})
      <3>1. CASE p \in Peers
        BY <1>1, <2>1, <3>1 DEF Confirm, TypeOK, States
      <3>2. CASE p \notin Peers
        <4>1. state' = state
          BY <2>1, <3>2 DEF TypeOK
        <4> QED
          BY <4>1 DEF TypeOK
      <3> QED
        BY <3>1, <3>2
    <2>4. TypeOK'
      BY <2>2, <2>3 DEF TypeOK
    <2>5. OpenedByOwnToken' /\ PresentedInTime'
      BY <2>2, <2>3 DEF OpenedByOwnToken, PresentedInTime
    <2>6. TokenOfItsOwn'
      BY <2>2, <2>3 DEF TokenOfItsOwn
    <2> QED
      BY <2>4, <2>5, <2>6
  <1>2. CASE SweepExpired
    BY <1>2 DEF SweepExpired, TypeOK, States, OpenedByOwnToken, TokenOfItsOwn, PresentedInTime, callVars
  <1>3. ASSUME NEW t \in 0..MaxTime, SetClock(t)
        PROVE  IInv'
    BY <1>3 DEF SetClock, TypeOK, States, OpenedByOwnToken, TokenOfItsOwn, PresentedInTime, requestVars, callVars
  <1> QED
    BY <1>1, <1>2, <1>3

LEMMA IInvInductive == IInv /\ [Next]_vars => IInv'
  <1> SUFFICES ASSUME IInv, [Next]_vars PROVE IInv'
    OBVIOUS
  <1>1. CASE UNCHANGED vars
    BY <1>1 DEF IInv, TypeOK, OpenedByOwnToken, TokenOfItsOwn, PresentedInTime, vars, requestVars, callVars
  <1>2. CASE Next
    BY <1>2, CallKeepsIInv, PresentKeepsIInv, OthersKeepIInv DEF Next
  <1> QED
    BY <1>1, <1>2

\* The state machine by itself: only the token of the current request, presented
\* before it expires, takes a request to AwaitingConfirmation, however many calls
\* of pair_device overlap, whatever tokens are presented and however the clock is
\* set (state.rs:57-100).
THEOREM OpenedByItsToken == Spec => []OpenedByOwnToken
  <1>1. IInv => OpenedByOwnToken
    BY DEF IInv
  <1> QED
    BY InitIInv, IInvInductive, <1>1, PTL DEF Spec

-----------------------------------------------------------------------------
(* The handshake with its user.                                            *)

\* A step of the handshake that is not a decision.
Undecided ==
    \/ \E c \in Calls, p \in Peers : Generate(c, p)
    \/ \E c \in Calls : Store(c) \/ Payload(c)
    \/ \E p \in Peers, k \in Calls : PresentToken(p, k)
    \/ SweepExpired
    \/ \E t \in 0..MaxTime : SetClock(t)

\* A step of the app, of its user or of the feed decides on some peer's
\* request, or is a step of pair_device, a peer or the clock, or leaves the
\* handshake alone.
LEMMA SheetStep ==
    ASSUME [SheetNext]_allVars
    PROVE  \/ (Undecided \/ UNCHANGED vars) /\ UNCHANGED approved
           \/ \E p, accept :
                 Confirm(p, accept)
                   /\ approved' = IF accept THEN approved \cup {token[p]} ELSE approved
  <1>1. ASSUME NEW c \in Calls, Requested(c)
        PROVE  Undecided /\ UNCHANGED approved
    BY <1>1 DEF Requested, Undecided, sheetVars
  <1>2. CASE Forwards \/ HandleRequested
    BY <1>2 DEF Forwards, HandleRequested, sheetVars
  <1>3. CASE Elsewhere
    BY <1>3 DEF Elsewhere, Undecided, sheetVars
  <1>4. ASSUME NEW b \in Taps, NEW accept \in BOOLEAN, Tap(b, accept)
        PROVE  UNCHANGED vars /\ UNCHANGED approved
    BY <1>4 DEF Tap
  <1>5. ASSUME NEW b \in Taps, Decide(b)
        PROVE  \E p, accept :
                 Confirm(p, accept)
                   /\ approved' = IF accept THEN approved \cup {token[p]} ELSE approved
    BY <1>5 DEF Decide
  <1>6. ASSUME NEW b \in Taps, PopAfterDecision(b)
        PROVE  UNCHANGED vars /\ UNCHANGED approved
    BY <1>6 DEF PopAfterDecision
  <1>7. CASE Swipe \/ \E r \in closing : WhenComplete(r)
    BY <1>7 DEF Swipe, WhenComplete
  <1>8. CASE UNCHANGED allVars
    BY <1>8 DEF allVars, sheetVars
  <1> QED
    BY <1>1, <1>2, <1>3, <1>4, <1>5, <1>6, <1>7, <1>8 DEF SheetNext, UserStep

\* A request that is stored is undecided, and only an accept makes it paired.
LEMMA SheetKeeps ==
    ASSUME IInv, PairedByDecision, [SheetNext]_allVars
    PROVE  IInv' /\ PairedByDecision'
  <1>1. ASSUME NEW p, NEW accept, Confirm(p, accept),
               approved' = IF accept THEN approved \cup {token[p]} ELSE approved
        PROVE  IInv' /\ PairedByDecision'
    <2>1. IInv'
      BY <1>1, OthersKeepIInv
    <2>2. PairedByDecision'
      BY <1>1 DEF Confirm, SetState, PairedByDecision, IInv, TypeOK
    <2> QED
      BY <2>1, <2>2
  <1>2. CASE Undecided /\ UNCHANGED approved
    <2>1. IInv'
      BY <1>2, IInvInductive DEF Undecided, Next
    <2>2. ASSUME NEW c \in Calls, (\E p \in Peers : Generate(c, p)) \/ Store(c) \/ Payload(c)
          PROVE  PairedByDecision'
      BY <1>2, <2>2 DEF Generate, Store, Payload, SetState, requestVars, PairedByDecision, IInv, TypeOK
    <2>3. ASSUME NEW p \in Peers, NEW k \in Calls, PresentToken(p, k)
          PROVE  PairedByDecision'
      BY <1>2, <2>3 DEF PresentToken, SetState, PairedByDecision, IInv, TypeOK
    <2>4. CASE SweepExpired \/ \E t \in 0..MaxTime : SetClock(t)
      BY <1>2, <2>1, <2>4 DEF SweepExpired, SetClock, requestVars, PairedByDecision, IInv, TypeOK
    <2> QED
      BY <1>2, <2>1, <2>2, <2>3, <2>4 DEF Undecided
  <1>3. CASE UNCHANGED vars /\ UNCHANGED approved
    BY <1>3, IInvInductive DEF vars, requestVars, PairedByDecision
  <1> QED
    BY <1>1, <1>2, <1>3, SheetStep

LEMMA SheetInvariant == SheetSpec => [](IInv /\ PairedByDecision)
  <1>1. SheetInit => IInv /\ PairedByDecision
    BY InitIInv DEF SheetInit, Init, PairedByDecision
  <1>2. IInv /\ PairedByDecision /\ [SheetNext]_allVars => (IInv /\ PairedByDecision)'
    BY SheetKeeps
  <1> QED
    BY <1>1, <1>2, PTL DEF SheetSpec

\* A peer is paired only by an accept that came after its present request was
\* stored, for any calls, taps, and sheets, however late the app is
\* (state.rs:75-78, 104-116, api/mod.rs:310-320).
THEOREM PairingIsDecided == SheetSpec => []PairedByDecision
  BY SheetInvariant, PTL

-----------------------------------------------------------------------------
(* The list and its sheet.                                                 *)

\* One sheet, shown or closing, or none.
OneSheet ==
    \/ sheets = <<>> /\ closing = {}
    \/ \E r : sheets = <<r>> /\ closing = {}
    \/ \E r : sheets = <<>> /\ closing = {r}

\* FlagIsTrue and NothingWaitsUnseen with what makes them inductive.
SheetInv ==
    /\ sheetOpen \in BOOLEAN /\ shell \in BOOLEAN
    /\ OneSheet
    /\ shell => (sheetOpen <=> sheets # <<>> \/ closing # {})
    /\ NothingWaitsUnseen

LEMMA FirstSheet == ASSUME NEW x PROVE Append(<<>>, x) = <<x>> /\ <<x>> # <<>>
  OBVIOUS

\* Setting the list opens a sheet if none is open, so what is in the list is
\* not left without one.
LEMMA SetRequestsShows ==
    ASSUME NEW list, NEW open \in BOOLEAN, shell \in BOOLEAN, SetRequests(list, open),
           shell /\ ~open => sheets = <<>>
    PROVE  /\ sheetOpen' \in BOOLEAN
           /\ shell /\ list # <<>> => sheetOpen'
           /\ requests' = list
           /\ \/ sheets' = sheets /\ sheetOpen' = open
              \/ ~open /\ shell /\ sheetOpen' /\ \E r : sheets' = <<r>>
  <1>1. CASE open \/ ~shell \/ list = <<>>
    <2>1. sheetOpen' = open /\ sheets' = sheets
      BY <1>1 DEF SetRequests
    <2> QED
      BY <1>1, <2>1 DEF SetRequests
  <1>2. CASE ~open /\ shell /\ list # <<>>
    <2>1. sheets' = Append(<<>>, Head(list)) /\ sheetOpen' = TRUE /\ requests' = list
      BY <1>2 DEF SetRequests
    <2>2. \E r : sheets' = <<r>>
      BY <2>1, FirstSheet
    <2> QED
      BY <1>2, <2>1, <2>2
  <1> QED
    BY <1>1, <1>2

\* A list set while the shell knows of every sheet.
LEMMA SetRequestsKeeps ==
    ASSUME SheetInv, NEW list, SetRequests(list, sheetOpen), UNCHANGED <<closing, shell>>
    PROVE  SheetInv'
  <1>1. shell /\ ~sheetOpen => sheets = <<>> /\ closing = {}
    BY DEF SheetInv
  <1>2. /\ sheetOpen' \in BOOLEAN
        /\ shell /\ list # <<>> => sheetOpen'
        /\ requests' = list
        /\ \/ sheets' = sheets /\ sheetOpen' = sheetOpen
           \/ ~sheetOpen /\ shell /\ sheetOpen' /\ \E r : sheets' = <<r>>
    BY <1>1, SetRequestsShows DEF SheetInv
  <1>3. CASE sheets' = sheets /\ sheetOpen' = sheetOpen
    BY <1>2, <1>3 DEF SheetInv, OneSheet, NothingWaitsUnseen
  <1>4. ASSUME ~sheetOpen, shell, sheetOpen', NEW r, sheets' = <<r>>
        PROVE  SheetInv'
    <2>1. closing' = {} /\ sheets' # <<>>
      BY <1>1, <1>4, FirstSheet
    <2> QED
      BY <1>2, <1>4, <2>1 DEF SheetInv, OneSheet, NothingWaitsUnseen
  <1> QED
    BY <1>2, <1>3, <1>4

\* The sheet on top goes into closing, or the shell with no sheet left.
LEMMA PopKeeps ==
    ASSUME SheetInv, PopRoute, UNCHANGED <<requests, sheetOpen>>
    PROVE  SheetInv'
  <1>1. CASE sheets = <<>>
    BY <1>1 DEF PopRoute, SheetInv, OneSheet, NothingWaitsUnseen
  <1>2. CASE sheets # <<>>
    <2>1. PICK r : sheets = <<r>> /\ closing = {}
      BY <1>2 DEF SheetInv, OneSheet
    <2>2. sheets' = Front(sheets) /\ closing' = closing \cup {Last(sheets)} /\ UNCHANGED shell
      BY <1>2 DEF PopRoute
    <2>3. Front(<<r>>) = <<>>
      BY DEF Front
    <2>4. sheets' = <<>> /\ \E x : closing' = {x}
      BY <2>1, <2>2, <2>3
    <2>5. shell => sheetOpen
      BY <1>2 DEF SheetInv
    <2> QED
      BY <2>2, <2>4, <2>5 DEF SheetInv, OneSheet, NothingWaitsUnseen
  <1> QED
    BY <1>1, <1>2

\* A sheet that has closed is gone before the next one opens.
LEMMA CompleteKeeps ==
    ASSUME SheetInv, NEW r \in closing, WhenComplete(r)
    PROVE  SheetInv'
  <1>1. /\ shell /\ UNCHANGED shell
        /\ closing' = closing \ {r}
        /\ SetRequests(Dismissed(r.peer), FALSE)
    BY DEF WhenComplete
  <1>2. sheets = <<>> /\ closing' = {}
    BY <1>1 DEF SheetInv, OneSheet
  <1>3. /\ sheetOpen' \in BOOLEAN
        /\ shell /\ Dismissed(r.peer) # <<>> => sheetOpen'
        /\ requests' = Dismissed(r.peer)
        /\ \/ sheets' = sheets /\ sheetOpen' = FALSE
           \/ shell /\ sheetOpen' /\ \E x : sheets' = <<x>>
    BY <1>1, <1>2, SetRequestsShows DEF SheetInv
  <1>4. (sheets' = <<>> /\ ~sheetOpen') \/ (sheetOpen' /\ \E x : sheets' = <<x>> /\ sheets' # <<>>)
    BY <1>2, <1>3, FirstSheet
  <1> QED
    BY <1>1, <1>2, <1>3, <1>4 DEF SheetInv, OneSheet, NothingWaitsUnseen

LEMMA SheetInvStep == SheetInv /\ [SheetNext]_allVars => SheetInv'
  <1> SUFFICES ASSUME SheetInv, [SheetNext]_allVars PROVE SheetInv'
    OBVIOUS
  <1>1. ASSUME UNCHANGED <<requests, sheets, sheetOpen, closing, shell>> PROVE SheetInv'
    BY <1>1 DEF SheetInv, OneSheet, NothingWaitsUnseen
  <1>2. CASE Forwards \/ Elsewhere \/ (\E c \in Calls : Requested(c)) \/ UNCHANGED allVars
    BY <1>1, <1>2 DEF Forwards, Elsewhere, Requested, allVars, sheetVars, uiVars
  <1>3. CASE HandleRequested
    BY <1>3, SetRequestsKeeps DEF HandleRequested
  <1>4. ASSUME NEW b \in Taps, NEW accept \in BOOLEAN, Tap(b, accept) PROVE SheetInv'
    BY <1>4, SetRequestsKeeps DEF Tap
  <1>5. ASSUME NEW b \in Taps, Decide(b) PROVE SheetInv'
    BY <1>1, <1>5 DEF Decide
  <1>6. CASE Swipe \/ \E b \in Taps : PopAfterDecision(b)
    BY <1>6, PopKeeps DEF Swipe, PopAfterDecision
  <1>7. ASSUME NEW r \in closing, WhenComplete(r) PROVE SheetInv'
    BY <1>7, CompleteKeeps
  <1> QED
    BY <1>2, <1>3, <1>4, <1>5, <1>6, <1>7 DEF SheetNext, UserStep

LEMMA SheetShown == SheetSpec => []SheetInv
  <1>1. SheetInit => SheetInv
    BY DEF SheetInit, SheetInv, OneSheet, NothingWaitsUnseen
  <1> QED
    BY <1>1, SheetInvStep, PTL DEF SheetSpec

\* A request in the list has a sheet on the screen or coming, for any calls,
\* taps and swipes, and however late the app is, as long as the shell is up
\* (main.dart:132-149).
THEOREM NoRequestWaitsUnseen == SheetSpec => []NothingWaitsUnseen
  <1>1. SheetInv => NothingWaitsUnseen
    BY DEF SheetInv
  <1> QED
    BY SheetShown, <1>1, PTL

\* There is one sheet at most, and the shell's flag tells whether there is one,
\* however swipes, taps and decisions interleave (main.dart:112, 133-141).
THEOREM SheetFlagIsTrue == SheetSpec => []FlagIsTrue
  <1>1. SheetInv => FlagIsTrue
    <2> SUFFICES ASSUME SheetInv PROVE FlagIsTrue
      OBVIOUS
    <2>1. Cardinality({}) = 0 /\ \A r : Cardinality({r}) = 1
      BY FS_EmptySet, FS_Singleton
    <2>2. Len(<<>>) = 0 /\ \A r : Len(<<r>>) = 1
      OBVIOUS
    <2>3. CASE sheets = <<>> /\ closing = {}
      BY <2>1, <2>2, <2>3 DEF SheetInv, FlagIsTrue
    <2>4. ASSUME NEW r, sheets = <<r>>, closing = {} PROVE FlagIsTrue
      <3>1. Len(sheets) = 1 /\ Cardinality(closing) = 0
        BY <2>1, <2>2, <2>4
      <3> QED
        BY <3>1 DEF SheetInv, FlagIsTrue
    <2>5. ASSUME NEW r, sheets = <<>>, closing = {r} PROVE FlagIsTrue
      <3>1. Len(sheets) = 0 /\ Cardinality(closing) = 1
        BY <2>1, <2>2, <2>5
      <3> QED
        BY <3>1 DEF SheetInv, FlagIsTrue
    <2> QED
      BY <2>3, <2>4, <2>5 DEF SheetInv, OneSheet
  <1> QED
    BY SheetShown, <1>1, PTL
=============================================================================
