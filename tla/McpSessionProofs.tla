-------------------------- MODULE McpSessionProofs ---------------------------
(* The inductive invariants of McpSession, for any number of calls, any       *)
(* number of attempts and servers that change at any time.                    *)
EXTENDS McpSession, TLAPS

StateType ==
  /\ kind \in Kind
  /\ card \in Compat \cup {"none"}
  /\ setting \in Targets
  /\ running \in [Endpoint -> Compat]
  /\ found \in Compat
  /\ testing \in {"no", "installing", "discovering", "listing"}

MessageType ==
  /\ phase \in [Request -> {"idle", "waiting", "asking", "backoff"}]
  /\ discovery \in {"idle", "asking", "backoff", "storing"}
  /\ target \in [Message -> Targets]
  /\ attempt \in [Message -> 0 .. MaxAttempts]

FlagType == connected \in BOOLEAN /\ shaken \in BOOLEAN

\* A pause is followed by one more attempt, so there is one left; a discovery
\* under way has an endpoint.
RoomToRetry ==
  /\ \A m \in Request : phase[m] = "backoff" => attempt[m] < MaxAttempts
  /\ discovery = "backoff" => attempt[Discovery] < MaxAttempts
  /\ discovery # "idle" => target[Discovery] # Unset

TypeInv == StateType /\ MessageType /\ FlagType /\ RoomToRetry

LEMMA MessageKinds ==
  /\ Discovery \in Message /\ Discovery \notin Request
  /\ ToolsList \in Request /\ Request \subseteq Message
  /\ \A m \in Message : m # Discovery => m \in Request
  /\ \A c \in Call : c \in Request /\ c # Discovery
BY SessionAssumption DEF Message, Request

LEMMA TypeInit == SessionInit => TypeInv
<1> SUFFICES ASSUME SessionInit PROVE TypeInv
  OBVIOUS
<1> USE DEF SessionInit
<1>1. StateType
  BY DEF StateType, Targets, Kind, Compat
<1>2. MessageType
  BY SessionAssumption DEF MessageType, Targets
<1>3. FlagType
  BY DEF FlagType
<1>4. RoomToRetry
  BY DEF RoomToRetry
<1> QED BY <1>1, <1>2, <1>3, <1>4 DEF TypeInv

\* The parts of a step that several actions make.
LEMMA JoinType ==
  ASSUME TypeInv, setting # Unset, JoinDiscovery
  PROVE  /\ kind' \in Kind
         /\ discovery' \in {"idle", "asking", "backoff", "storing"}
         /\ target' \in [Message -> Targets]
         /\ attempt' \in [Message -> 0 .. MaxAttempts]
         /\ \A m \in Request : attempt'[m] = attempt[m] /\ target'[m] = target[m]
         /\ discovery' = "backoff" => attempt'[Discovery] < MaxAttempts
         /\ target'[Discovery] # Unset
         /\ connected' \in BOOLEAN
<1> USE DEF JoinDiscovery
<1>1. CASE discovery = "idle"
  <2>1. kind' = "Connecting" /\ connected' = FALSE /\ discovery' = "asking"
    BY <1>1
  <2>2. target' = [target EXCEPT ![Discovery] = setting]
        /\ attempt' = [attempt EXCEPT ![Discovery] = 1]
    BY <1>1
  <2>3. 1 \in 0 .. MaxAttempts
    BY SessionAssumption
  <2> QED
    BY <2>1, <2>2, <2>3, MessageKinds DEF TypeInv, StateType, MessageType, Kind
<1>2. CASE discovery # "idle"
  <2>1. UNCHANGED <<discovery, target, attempt, kind, connected>>
    BY <1>2
  <2>2. kind' = kind /\ connected' = connected
    BY <2>1
  <2>3. discovery' = discovery /\ target' = target /\ attempt' = attempt
    BY <2>1
  <2>4. /\ target \in [Message -> Targets] /\ attempt \in [Message -> 0 .. MaxAttempts]
        /\ discovery = "backoff" => attempt[Discovery] < MaxAttempts
        /\ target[Discovery] # Unset
    BY <1>2 DEF TypeInv, MessageType, RoomToRetry
  <2>5. connected' \in BOOLEAN
    BY <2>2 DEF TypeInv, FlagType
  <2> QED BY <2>2, <2>3, <2>4, <2>5 DEF TypeInv, StateType, MessageType
<1> QED BY <1>1, <1>2

LEMMA CatchesType ==
  ASSUME NEW isConnected \in BOOLEAN, NEW server, Catches(isConnected, server)
  PROVE  kind' \in Kind /\ connected' \in BOOLEAN /\ testing' = "no"
BY DEF Catches, Kind

LEMMA DiscoveryEnds ==
  ASSUME TypeInv,
         target' = [target EXCEPT ![Discovery] = Unset],
         attempt' = [attempt EXCEPT ![Discovery] = 0]
  PROVE  /\ target' \in [Message -> Targets]
         /\ attempt' \in [Message -> 0 .. MaxAttempts]
         /\ \A m \in Request : attempt'[m] = attempt[m] /\ target'[m] = target[m]
BY MessageKinds, SessionAssumption DEF TypeInv, MessageType, Targets

LEMMA AskNext ==
  ASSUME TypeInv, NEW c \in Call, Ask(c)
  PROVE  TypeInv'
<1> USE DEF TypeInv, Ask
<1>1. JoinDiscovery /\ setting # Unset
  OBVIOUS
<1>2. StateType' /\ MessageType' /\ RoomToRetry'
  BY <1>1, JoinType, MessageKinds DEF StateType, MessageType, RoomToRetry, Targets
<1>3. FlagType'
  BY <1>1, JoinType, Zenon DEF FlagType
<1> QED BY <1>2, <1>3

LEMMA ProbeNext ==
  ASSUME TypeInv, ProbeInstall
  PROVE  TypeInv'
<1> USE DEF TypeInv, ProbeInstall, Targets
<1>1. CASE setting = Unset
  <2>1. StateType' /\ MessageType' /\ RoomToRetry'
    BY <1>1 DEF StateType, MessageType, RoomToRetry
  <2>2. FlagType'
    BY <1>1 DEF FlagType
  <2> QED BY <2>1, <2>2
<1>2. CASE setting # Unset
  <2>1. JoinDiscovery
    BY <1>2
  <2>2. StateType' /\ MessageType' /\ RoomToRetry'
    BY <1>2, <2>1, JoinType DEF StateType, MessageType, RoomToRetry
  <2>3. FlagType'
    BY <1>2, <2>1, JoinType, Zenon DEF FlagType
  <2> QED BY <2>2, <2>3
<1> QED BY <1>1, <1>2

LEMMA AnsweredNext ==
  ASSUME TypeInv, DiscoveryAnswered
  PROVE  TypeInv'
<1> USE DEF TypeInv, DiscoveryAnswered, Targets
<1>1. target[Discovery] \in Endpoint
  BY MessageKinds DEF RoomToRetry, MessageType
<1>2. StateType' /\ MessageType' /\ RoomToRetry'
  BY <1>1 DEF StateType, MessageType, RoomToRetry, Compat
<1>3. FlagType'
  BY DEF FlagType
<1> QED BY <1>2, <1>3

\* What a compatible card lets through has its first attempt and an endpoint.
LEMMA AdmitsType ==
  ASSUME TypeInv, discovery = "storing", Admits
  PROVE  /\ phase' \in [Request -> {"idle", "waiting", "asking", "backoff"}]
         /\ target' \in [Message -> Targets]
         /\ attempt' \in [Message -> 0 .. MaxAttempts]
         /\ discovery' \in {"idle", "asking"}
         /\ discovery' # "idle" => target'[Discovery] # Unset
         /\ testing' \in {"no", "installing", "discovering", "listing"}
         /\ kind' \in Kind
         /\ \A m \in Request : phase'[m] = "backoff" => attempt'[m] < MaxAttempts
         /\ connected' \in BOOLEAN
<1> USE DEF Admits, Targets
<1>1. phase' \in [Request -> {"idle", "waiting", "asking", "backoff"}]
  BY DEF TypeInv, MessageType
<1>2. target' \in [Message -> Targets]
  BY DEF TypeInv, MessageType, StateType
<1>3. attempt' \in [Message -> 0 .. MaxAttempts]
  BY SessionAssumption DEF TypeInv, MessageType
<1>4. /\ discovery' \in {"idle", "asking"}
      /\ testing' \in {"no", "installing", "discovering", "listing"}
      /\ kind' \in Kind
  BY DEF TypeInv, StateType, Kind
<1>5. discovery' # "idle" => target'[Discovery] # Unset
  BY MessageKinds
<1>6. ASSUME NEW m \in Request, phase'[m] = "backoff" PROVE attempt'[m] < MaxAttempts
  <2>1. m \notin Waiting /\ m # Discovery /\ phase[m] = "backoff" /\ m \in Message
    BY <1>6, MessageKinds DEF Waiting
  <2>2. attempt'[m] = attempt[m]
    BY <2>1
  <2> QED BY <2>1, <2>2 DEF TypeInv, RoomToRetry
<1>7. connected' \in BOOLEAN
  BY Zenon
<1> QED BY <1>1, <1>2, <1>3, <1>4, <1>5, <1>6, <1>7

LEMMA RefusesType ==
  ASSUME TypeInv, discovery = "storing", Refuses
  PROVE  /\ phase' \in [Request -> {"idle", "waiting", "asking", "backoff"}]
         /\ discovery' = "idle"
         /\ testing' \in {"no", "installing", "discovering", "listing"}
         /\ kind' \in Kind
         /\ connected' \in BOOLEAN
         /\ \A m \in Request : phase'[m] = "backoff" => phase[m] = "backoff"
<1> USE DEF Refuses
<1>1. phase' \in [Request -> {"idle", "waiting", "asking", "backoff"}] /\ discovery' = "idle"
      /\ \A m \in Request : phase'[m] = "backoff" => phase[m] = "backoff"
  BY DEF TypeInv, MessageType
<1>2. \/ Catches(TRUE, found) \/ Catches(FALSE, found)
      \/ /\ kind' \in {"Connected", "Incompatible"} /\ connected' \in {TRUE, FALSE}
         /\ testing' \in {testing, "no"}
  <2>1. CASE found = "ok" /\ TestWaits
    BY <2>1
  <2>2. CASE found = "ok" /\ ~TestWaits
    BY <2>2
  <2>3. CASE found # "ok" /\ phase[ToolsList] = "waiting"
    BY <2>3
  <2>4. CASE found # "ok" /\ phase[ToolsList] # "waiting"
    BY <2>4
  <2> QED BY <2>1, <2>2, <2>3, <2>4
<1>3. /\ testing' \in {"no", "installing", "discovering", "listing"}
      /\ kind' \in Kind
  BY <1>2, CatchesType DEF TypeInv, StateType, Kind
<1>4. connected' \in BOOLEAN
  BY <1>2, CatchesType
<1> QED BY <1>1, <1>3, <1>4

LEMMA CapturedNext ==
  ASSUME TypeInv, CardCaptured
  PROVE  TypeInv'
<1> USE DEF CardCaptured
<1>1. card' \in Compat \cup {"none"} /\ found' \in Compat
      /\ setting' \in Targets /\ running' \in [Endpoint -> Compat]
  BY DEF TypeInv, StateType
<1>3. shaken' \in BOOLEAN
  BY DEF TypeInv, FlagType
<1>4. CASE Admits
  <2>1. StateType'
    BY <1>1, <1>4, AdmitsType DEF StateType
  <2>2. MessageType'
    BY <1>4, AdmitsType DEF MessageType
  <2>3. FlagType'
    BY <1>3, <1>4, AdmitsType, Zenon DEF FlagType
  <2>4. RoomToRetry'
    BY <1>4, AdmitsType DEF RoomToRetry
  <2> QED BY <2>1, <2>2, <2>3, <2>4 DEF TypeInv
<1>5. CASE Refuses
  <2>1. target' \in [Message -> Targets] /\ attempt' \in [Message -> 0 .. MaxAttempts]
        /\ \A m \in Request : attempt'[m] = attempt[m]
    BY <1>5, DiscoveryEnds DEF Refuses
  <2> QED
    BY <1>1, <1>3, <1>5, <2>1, RefusesType
    DEF TypeInv, StateType, MessageType, FlagType, RoomToRetry
<1> QED BY <1>4, <1>5

LEMMA FailsNext ==
  ASSUME TypeInv, DiscoveryFails
  PROVE  TypeInv'
<1> USE DEF DiscoveryFails
<1>1. target' \in [Message -> Targets] /\ attempt' \in [Message -> 0 .. MaxAttempts]
      /\ \A m \in Request : attempt'[m] = attempt[m]
  BY DiscoveryEnds
<1>2. phase' \in [Request -> {"idle", "waiting", "asking", "backoff"}]
      /\ \A m \in Request : phase'[m] = "backoff" => phase[m] = "backoff"
  BY DEF TypeInv, MessageType
<1>3. Catches(connected, card) \/ UNCHANGED <<kind, connected, testing>>
  OBVIOUS
<1>4. kind' \in Kind /\ connected' \in BOOLEAN
      /\ testing' \in {"no", "installing", "discovering", "listing"}
  BY <1>3, CatchesType DEF TypeInv, StateType, FlagType
<1> QED BY <1>1, <1>2, <1>4 DEF TypeInv, StateType, MessageType, FlagType, RoomToRetry

LEMMA TransientNext ==
  ASSUME TypeInv, NEW m \in Message, Transient(m) \/ Retry(m)
  PROVE  TypeInv'
<1> USE DEF Transient, Retry, SetPhase, TypeInv
<1>1. attempt' \in [Message -> 0 .. MaxAttempts]
  BY MessageKinds, SessionAssumption DEF MessageType, RoomToRetry
<1>2. StateType' /\ FlagType'
  BY Zenon DEF StateType, FlagType
<1>3. MessageType'
  BY <1>1, MessageKinds DEF MessageType
<1>4. RoomToRetry'
  <2>1. CASE m = Discovery
    BY <2>1, <1>1, MessageKinds DEF RoomToRetry, MessageType
  <2>2. CASE m # Discovery
    BY <2>2, <1>1, MessageKinds DEF RoomToRetry, MessageType
  <2> QED BY <2>1, <2>2
<1> QED BY <1>2, <1>3, <1>4

LEMMA LeavesType ==
  ASSUME TypeInv, NEW m \in Request, Leaves(m)
  PROVE  MessageType' /\ RoomToRetry'
BY MessageKinds, SessionAssumption
   DEF TypeInv, Leaves, SetPhase, MessageType, RoomToRetry, Targets

LEMMA EndsNext ==
  ASSUME TypeInv, (\E c \in Call : CallEnds(c)) \/ ToolsListAnswered \/ ToolsListFails
  PROVE  TypeInv'
<1>1. ASSUME NEW c \in Call, CallEnds(c) PROVE TypeInv'
  BY <1>1, LeavesType, MessageKinds DEF CallEnds, TypeInv, StateType, FlagType
<1>2. CASE ToolsListAnswered
  BY <1>2, LeavesType, MessageKinds DEF ToolsListAnswered, TypeInv, StateType, FlagType, Kind
<1>3. CASE ToolsListFails
  <2>1. kind' \in Kind /\ connected' \in BOOLEAN /\ testing' = "no"
    BY <1>3, CatchesType DEF ToolsListFails, TypeInv, FlagType
  <2> QED
    BY <1>3, <2>1, LeavesType, MessageKinds DEF ToolsListFails, TypeInv, StateType, FlagType
<1> QED BY <1>1, <1>2, <1>3

LEMMA EnvironmentNext ==
  ASSUME TypeInv,
         \/ StartTest \/ UNCHANGED sessionVars
         \/ \E e \in Targets : ChangeEndpoint(e)
         \/ \E e \in Endpoint : ReplaceServer(e)
  PROVE  TypeInv'
<1>1. CASE StartTest \/ UNCHANGED sessionVars
  BY <1>1 DEF StartTest, sessionVars, TypeInv, StateType, MessageType, FlagType, RoomToRetry
<1>2. ASSUME NEW e \in Targets, ChangeEndpoint(e) PROVE TypeInv'
  BY <1>2 DEF ChangeEndpoint, TypeInv, StateType, MessageType, FlagType, RoomToRetry
<1>3. ASSUME NEW e \in Endpoint, ReplaceServer(e) PROVE TypeInv'
  <2>1. \E v \in Compat : v # running[e]
    BY DEF Compat
  <2>2. (CHOOSE v \in Compat : v # running[e]) \in Compat
    BY <2>1
  <2> QED
    BY <1>3, <2>2 DEF ReplaceServer, TypeInv, StateType, MessageType, FlagType, RoomToRetry
<1> QED BY <1>1, <1>2, <1>3

LEMMA TypeNext ==
  ASSUME TypeInv, [SessionNext]_sessionVars
  PROVE  TypeInv'
BY AskNext, ProbeNext, AnsweredNext, CapturedNext, FailsNext, TransientNext, EndsNext,
   EnvironmentNext
   DEF SessionNext, Targets

\* Every reachable state of the connection has its types, and no message is
\* attempted more often than maxRetries, whichever requests share a discovery.
THEOREM SessionTypeCorrect == SessionSpec => []SessionTypeOK
<1>1. SessionInit => TypeInv
  BY TypeInit
<1>2. TypeInv /\ [SessionNext]_sessionVars => TypeInv'
  BY TypeNext
<1>3. TypeInv => SessionTypeOK
  BY DEF TypeInv, StateType, MessageType, FlagType, SessionTypeOK
<1> QED BY <1>1, <1>2, <1>3, PTL DEF SessionSpec
-----------------------------------------------------------------------------
\* Where "Degraded" can come from.  The test judges its failure by connected,
\* which is TRUE during a discovery only if tools/list was answered, or failed,
\* meanwhile; and tools/list is sent only behind a compatible card.
HandshakeInv ==
  /\ DegradedAfterHandshake
  /\ discovery # "idle" /\ connected = TRUE => shaken = TRUE
  /\ phase[ToolsList] \in {"asking", "backoff"} => shaken = TRUE

LEMMA HandshakeInit == SessionInit => HandshakeInv
BY MessageKinds DEF SessionInit, HandshakeInv, DegradedAfterHandshake

LEMMA JoinHandshake ==
  ASSUME HandshakeInv, JoinDiscovery, UNCHANGED shaken
  PROVE  /\ kind' = "Degraded" => shaken' = TRUE
         /\ connected' = TRUE => discovery = "idle" \/ shaken' = TRUE
         /\ discovery = "idle" => connected' = FALSE
<1>1. CASE discovery = "idle"
  BY <1>1 DEF JoinDiscovery
<1>2. CASE discovery # "idle"
  BY <1>2 DEF JoinDiscovery, HandshakeInv, DegradedAfterHandshake
<1> QED BY <1>1, <1>2

\* A step that leaves the state shown and the history alone, and moves neither
\* the discovery nor tools/list from their rest.
LEMMA HandshakeUntouched ==
  ASSUME HandshakeInv, UNCHANGED <<kind, connected, shaken>>,
         discovery' # "idle" => discovery # "idle",
         phase'[ToolsList] \in {"asking", "backoff"} => phase[ToolsList] \in {"asking", "backoff"}
  PROVE  HandshakeInv'
BY DEF HandshakeInv, DegradedAfterHandshake

LEMMA CatchesHandshake ==
  ASSUME NEW isConnected \in BOOLEAN, NEW server, Catches(isConnected, server)
  PROVE  kind' = "Degraded" => isConnected = TRUE
BY DEF Catches

LEMMA HandshakeCaptured ==
  ASSUME TypeInv, HandshakeInv, CardCaptured
  PROVE  HandshakeInv'
<1> USE DEF CardCaptured, HandshakeInv
<1>1. found = "ok" => shaken' = TRUE
  BY DEF TypeInv, FlagType
<1>2. shaken = TRUE => shaken' = TRUE
  BY DEF TypeInv, FlagType
<1>3. CASE Admits
  BY <1>1, <1>3 DEF Admits, DegradedAfterHandshake
<1>4. CASE Refuses
  <2>1. phase'[ToolsList] \in {"asking", "backoff"} => phase[ToolsList] \in {"asking", "backoff"}
    BY <1>4, MessageKinds DEF Refuses, TypeInv, MessageType
  <2>2. discovery' = "idle"
    BY <1>4 DEF Refuses
  <2>3. kind' = "Degraded" => found = "ok"
    <3>1. CASE found = "ok"
      BY <3>1
    <3>2. CASE found # "ok" /\ phase[ToolsList] = "waiting"
      <4>1. Catches(FALSE, found)
        BY <1>4, <3>2 DEF Refuses
      <4> QED BY <4>1, CatchesHandshake
    <3>3. CASE found # "ok" /\ phase[ToolsList] # "waiting"
      <4>1. kind' = "Incompatible"
        BY <1>4, <3>3 DEF Refuses
      <4> QED BY <4>1
    <3> QED BY <3>1, <3>2, <3>3
  <2> QED BY <1>1, <1>2, <2>1, <2>2, <2>3 DEF DegradedAfterHandshake
<1> QED BY <1>3, <1>4

LEMMA HandshakeFails ==
  ASSUME TypeInv, HandshakeInv, DiscoveryFails
  PROVE  HandshakeInv'
<1> USE DEF DiscoveryFails, HandshakeInv
<1>1. phase'[ToolsList] \in {"asking", "backoff"} => phase[ToolsList] \in {"asking", "backoff"}
  BY MessageKinds DEF TypeInv, MessageType
<1>2. discovery # "idle" /\ discovery' = "idle" /\ shaken' = shaken
  OBVIOUS
<1>3. kind' = "Degraded" => kind = "Degraded" \/ connected = TRUE
  BY CatchesHandshake DEF TypeInv, FlagType
<1> QED BY <1>1, <1>2, <1>3 DEF DegradedAfterHandshake

LEMMA HandshakeToolsList ==
  ASSUME TypeInv, HandshakeInv, ToolsListAnswered \/ ToolsListFails
  PROVE  HandshakeInv'
<1>1. shaken' = TRUE
  BY MessageKinds
     DEF ToolsListAnswered, ToolsListFails, Leaves, SetPhase, HandshakeInv
<1> QED BY <1>1 DEF HandshakeInv, DegradedAfterHandshake

LEMMA HandshakeNext ==
  ASSUME TypeInv, HandshakeInv, [SessionNext]_sessionVars
  PROVE  HandshakeInv'
<1> USE DEF TypeInv, MessageType
<1>1. ASSUME NEW c \in Call, Ask(c) PROVE HandshakeInv'
  <2>1. ToolsList # c /\ phase'[ToolsList] = phase[ToolsList]
    BY <1>1, MessageKinds, SessionAssumption DEF Ask
  <2>2. JoinDiscovery /\ shaken' = shaken
    BY <1>1 DEF Ask
  <2> QED BY <2>1, <2>2, JoinHandshake DEF HandshakeInv, DegradedAfterHandshake
<1>2. CASE ProbeInstall
  <2>1. CASE setting = Unset
    BY <1>2, <2>1, HandshakeUntouched DEF ProbeInstall
  <2>2. CASE setting # Unset
    <3>1. JoinDiscovery /\ UNCHANGED <<shaken, phase>>
      BY <1>2, <2>2 DEF ProbeInstall
    <3> QED BY <3>1, JoinHandshake DEF HandshakeInv, DegradedAfterHandshake
  <2> QED BY <2>1, <2>2
<1>3. ASSUME NEW m \in Message, Transient(m) \/ Retry(m) PROVE HandshakeInv'
  <2>1. CASE m = Discovery
    BY <1>3, <2>1, HandshakeUntouched DEF Transient, Retry, SetPhase
  <2>2. CASE m # Discovery
    <3>1. phase'[ToolsList] \in {"asking", "backoff"} => phase[ToolsList] \in {"asking", "backoff"}
      BY <1>3, <2>2, MessageKinds DEF Transient, Retry, SetPhase
    <3> QED BY <1>3, <2>2, <3>1, HandshakeUntouched DEF Transient, Retry, SetPhase
  <2> QED BY <2>1, <2>2
<1>4. ASSUME NEW c \in Call, CallEnds(c) PROVE HandshakeInv'
  BY <1>4, MessageKinds, HandshakeUntouched DEF CallEnds, Leaves, SetPhase
<1>5. CASE DiscoveryAnswered \/ StartTest \/ UNCHANGED sessionVars
  BY <1>5, HandshakeUntouched DEF DiscoveryAnswered, StartTest, sessionVars
<1>6. ASSUME NEW e \in Targets, ChangeEndpoint(e) \/ (e \in Endpoint /\ ReplaceServer(e))
      PROVE  HandshakeInv'
  BY <1>6, HandshakeUntouched DEF ChangeEndpoint, ReplaceServer
<1> QED
  BY <1>1, <1>2, <1>3, <1>4, <1>5, <1>6, HandshakeCaptured, HandshakeFails, HandshakeToolsList
  DEF SessionNext, Targets

\* "Degraded" is shown only once a server has answered in this window, although
\* the test judges its failure by a state other requests change in between.
THEOREM DegradedAfterHandshakeAlways == SessionSpec => []DegradedAfterHandshake
<1>1. SessionInit => TypeInv /\ HandshakeInv
  BY TypeInit, HandshakeInit
<1>2. TypeInv /\ HandshakeInv /\ [SessionNext]_sessionVars => (TypeInv /\ HandshakeInv)'
  BY TypeNext, HandshakeNext
<1>3. HandshakeInv => DegradedAfterHandshake
  BY DEF HandshakeInv
<1> QED BY <1>1, <1>2, <1>3, PTL DEF SessionSpec
=============================================================================
