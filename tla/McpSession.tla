----------------------------- MODULE McpSession -----------------------------
(* The connection of the extension to kicad-mcp-pro: McpClient, the protocol  *)
(* lifecycle in front of it and the HTTP transport with its retries.  The     *)
(* client speaks the stateless 2026 protocol, so every request is preceded by *)
(* a discovery of the server, which requests that meet share.                 *)
EXTENDS Naturals

CONSTANTS
  Call,             \* tool calls and resource reads that may be under way
  ToolsList,        \* the tools/list request of the connection test
  Discovery,        \* the discovery request
  Endpoint,         \* addresses the endpoint setting may name
  Unset,            \* the setting left empty
  MaxAttempts       \* maxRetries of the transport

ASSUME SessionAssumption ==
  /\ ToolsList \notin Call /\ Discovery \notin Call /\ ToolsList # Discovery
  /\ Unset \notin Endpoint
  /\ MaxAttempts \in Nat \ {0}

Request == Call \cup {ToolsList}
Message == Request \cup {Discovery}
Compat  == {"ok", "incompatible"}
Kind    == {"Connecting", "Connected", "Degraded", "Disconnected",
            "Incompatible", "VsCodeStdio"}

VARIABLES
  kind,       \* state.kind ("Disconnected" also stands for "NotInstalled")
  connected,  \* state.connected
  card,       \* compat of state.server, "none" without one
  setting,    \* the configured endpoint
  running,    \* what a server at each endpoint would be found to be
  phase,      \* each request: "idle", "waiting" for discovery, "asking" the
              \*   server or in "backoff" before the next attempt
  discovery,  \* readyPromise: "idle", "asking", "backoff", or "storing" the card
  found,      \* compat computed from the answer being stored
  target,     \* the endpoint a message is sent to
  attempt,    \* the attempt a message is in
  testing,    \* connectionTestPromise: "no", "installing", "discovering", "listing"
  shaken      \* history: whether a server has answered since activation

sessionVars == <<kind, connected, card, setting, running, phase, discovery,
                 found, target, attempt, testing, shaken>>

(* A new window starts from the card of the last server (globalState).        *)
SessionInit ==
  /\ card \in Compat \cup {"none"}
  /\ kind = IF card = "incompatible" THEN "Incompatible" ELSE "Disconnected"
  /\ connected = FALSE
  /\ setting \in Endpoint \cup {Unset}
  /\ running \in [Endpoint -> Compat]
  /\ phase = [m \in Request |-> "idle"]
  /\ discovery = "idle" /\ found = "incompatible"
  /\ target = [m \in Message |-> Unset]
  /\ attempt = [m \in Message |-> 0]
  /\ testing = "no"
  /\ shaken = FALSE

Waiting == {m \in Request : phase[m] = "waiting"}

JoinKeepingState ==
  IF discovery = "idle"
    THEN /\ discovery' = "asking"
         /\ target' = [target EXCEPT ![Discovery] = setting]
         /\ attempt' = [attempt EXCEPT ![Discovery] = 1]
         /\ UNCHANGED <<kind, connected>>
    ELSE UNCHANGED <<discovery, target, attempt, kind, connected>>

(* ensureReady: start a discovery, or join the running one, which leaves the  *)
(* connection state as it is.                                                 *)
JoinDiscovery ==
  IF discovery = "idle"
    THEN /\ discovery' = "asking"
         /\ target' = [target EXCEPT ![Discovery] = setting]
         /\ attempt' = [attempt EXCEPT ![Discovery] = 1]
         /\ kind' = "Connecting" /\ connected' = FALSE
    ELSE UNCHANGED <<discovery, target, attempt, kind, connected>>

(* rpc up to its first await.  Over stdio and without an endpoint it throws.  *)
Ask(c) ==
  /\ phase[c] = "idle" /\ kind # "VsCodeStdio" /\ setting # Unset
  /\ phase' = [phase EXCEPT ![c] = "waiting"]
  /\ JoinDiscovery
  /\ UNCHANGED <<card, setting, running, found, testing, shaken>>

StartTest ==
  /\ testing = "no"
  /\ testing' = "installing"
  /\ UNCHANGED <<kind, connected, card, setting, running, phase, discovery,
                 found, target, attempt, shaken>>

(* runConnectionTest after detectInstall.  getEndpoint throws when the        *)
(* setting is empty, which rejects the test and leaves the state.             *)
ProbeInstall ==
  /\ testing = "installing"
  /\ IF setting = Unset
       THEN /\ testing' = "no"
            /\ UNCHANGED <<discovery, target, attempt, kind, connected>>
       ELSE /\ testing' = "discovering"
            /\ JoinDiscovery
  /\ UNCHANGED <<card, setting, running, phase, found, shaken>>

(* The state the test's catch sets, from the one it finds: the contract was   *)
(* broken, or there is no server, unless .vscode/mcp.json names kicad-mcp-pro *)
(* at that moment.                                                            *)
Catches(isConnected, server) ==
  /\ IF isConnected /\ server # "none"
       THEN kind' = "Degraded"
       ELSE kind' \in {"VsCodeStdio", "Disconnected"}
  /\ connected' = (kind' = "VsCodeStdio")
  /\ testing' = "no"

(* The answer to discovery.  The server card of the well-known address, read  *)
(* from the endpoint configured by then, only ever makes it compatible.       *)
DiscoveryAnswered ==
  /\ discovery = "asking"
  /\ \/ found' = running[target[Discovery]]
     \/ setting # Unset /\ running[setting] = "ok" /\ found' = "ok"
  /\ discovery' = "storing"
  /\ UNCHANGED <<kind, connected, card, setting, running, phase, target,
                 attempt, testing, shaken>>

(* A compatible card lets the waiting requests through, each to the endpoint  *)
(* configured now; the test goes on to tools/list, which discovers again.     *)
Admits ==
  /\ found = "ok"
  /\ setting # Unset
  /\ phase' = [m \in Request |->
                 IF m \in Waiting THEN "asking"
                 ELSE IF m = ToolsList /\ testing = "discovering" THEN "waiting"
                 ELSE phase[m]]
  /\ LET sent == Waiting \cup (IF testing = "discovering" THEN {Discovery} ELSE {})
     IN /\ target' = [m \in Message |->
                         IF m \in sent THEN setting
                         ELSE IF m = Discovery THEN Unset ELSE target[m]]
        /\ attempt' = [m \in Message |->
                          IF m \in sent THEN 1
                          ELSE IF m = Discovery THEN 0 ELSE attempt[m]]
  /\ IF testing = "discovering"
       THEN /\ testing' = "listing" /\ discovery' = "asking"
            /\ kind' = "Connecting" /\ connected' = FALSE
       ELSE /\ UNCHANGED testing /\ discovery' = "idle"
            /\ kind' = "Connected" /\ connected' = TRUE

TestWaits == testing = "discovering" \/ phase[ToolsList] = "waiting"

(* Everything that waited fails: there is no endpoint to ask any more, or the *)
(* server is incompatible, which the test reports only if it is what it       *)
(* discovered itself.                                                         *)
Refuses ==
  /\ ~(found = "ok" /\ setting # Unset)
  /\ discovery' = "idle"
  /\ phase' = [m \in Request |-> IF m \in Waiting THEN "idle" ELSE phase[m]]
  /\ CASE found = "ok" /\ TestWaits -> Catches(TRUE, found)
       [] found = "ok" /\ ~TestWaits ->
            kind' = "Connected" /\ connected' = TRUE /\ UNCHANGED testing
       [] found # "ok" /\ phase[ToolsList] = "waiting" -> Catches(FALSE, found)
       [] found # "ok" /\ phase[ToolsList] # "waiting" ->
            /\ kind' = "Incompatible" /\ connected' = FALSE
            /\ testing' = IF testing = "discovering" THEN "no" ELSE testing
  /\ target' = [target EXCEPT ![Discovery] = Unset]
  /\ attempt' = [attempt EXCEPT ![Discovery] = 0]

(* captureServerCard from the stored card on, and what resumes with it.       *)
CardCaptured ==
  /\ discovery = "storing"
  /\ card' = found
  /\ shaken' = (shaken \/ found = "ok")
  /\ Admits \/ Refuses
  /\ UNCHANGED <<setting, running, found>>

DiscoveryFailsAlone ==
  /\ discovery \in {"asking", "storing"}
  /\ discovery' = "idle"
  /\ IF TestWaits
       THEN Catches(connected, card)
       ELSE UNCHANGED <<kind, connected, testing>>
  /\ target' = [target EXCEPT ![Discovery] = Unset]
  /\ attempt' = [attempt EXCEPT ![Discovery] = 0]
  /\ UNCHANGED <<card, setting, running, phase, found, shaken>>

(* The transport, the validation of the answer, the metadata's endpoint or    *)
(* the store fails: every waiting request fails with it.                      *)
DiscoveryFails ==
  /\ discovery \in {"asking", "storing"}
  /\ discovery' = "idle"
  /\ phase' = [m \in Request |-> IF m \in Waiting THEN "idle" ELSE phase[m]]
  /\ IF TestWaits
       THEN Catches(connected, card)
       ELSE UNCHANGED <<kind, connected, testing>>
  /\ target' = [target EXCEPT ![Discovery] = Unset]
  /\ attempt' = [attempt EXCEPT ![Discovery] = 0]
  /\ UNCHANGED <<card, setting, running, found, shaken>>

SetPhase(m, from, to) ==
  IF m = Discovery
    THEN discovery = from /\ discovery' = to /\ UNCHANGED phase
    ELSE phase[m] = from /\ phase' = [phase EXCEPT ![m] = to] /\ UNCHANGED discovery

TransientForever(m) ==
  /\ SetPhase(m, "asking", "backoff")
  /\ UNCHANGED <<kind, connected, card, setting, running, found, target,
                 attempt, testing, shaken>>

(* A timeout, a network error or a status worth a retry.                      *)
Transient(m) ==
  /\ attempt[m] < MaxAttempts
  /\ SetPhase(m, "asking", "backoff")
  /\ UNCHANGED <<kind, connected, card, setting, running, found, target,
                 attempt, testing, shaken>>

Retry(m) ==
  /\ SetPhase(m, "backoff", "asking")
  /\ attempt' = [attempt EXCEPT ![m] = @ + 1]
  /\ UNCHANGED <<kind, connected, card, setting, running, found, target,
                 testing, shaken>>

Leaves(m) ==
  /\ SetPhase(m, "asking", "idle")
  /\ target' = [target EXCEPT ![m] = Unset]
  /\ attempt' = [attempt EXCEPT ![m] = 0]

(* The answer to a call, or its error, which do not touch the state.          *)
CallEnds(c) ==
  /\ Leaves(c)
  /\ UNCHANGED <<kind, connected, card, setting, running, found, testing, shaken>>

ToolsListAnswered ==
  /\ Leaves(ToolsList)
  /\ kind' = "Connected" /\ connected' = TRUE
  /\ testing' = "no"
  /\ shaken' = TRUE
  /\ UNCHANGED <<card, setting, running, found>>

ToolsListFails ==
  /\ Leaves(ToolsList)
  /\ Catches(connected, card)
  /\ UNCHANGED <<card, setting, running, found, shaken>>

(* The user edits the setting; the listener tests the connection, which joins *)
(* a test that is under way.                                                  *)
ChangeEndpoint(e) ==
  /\ e # setting
  /\ setting' = e
  /\ testing' = IF testing = "no" THEN "installing" ELSE testing
  /\ UNCHANGED <<kind, connected, card, running, phase, discovery, found,
                 target, attempt, shaken>>

(* A server is upgraded, downgraded or replaced by another program.           *)
ReplaceServer(e) ==
  /\ running' = [running EXCEPT ![e] = CHOOSE v \in Compat : v # @]
  /\ UNCHANGED <<kind, connected, card, setting, phase, discovery, found,
                 target, attempt, testing, shaken>>

(* What a deadline or an answer makes of a message that is at a server.        *)
MessageEnds(m) ==
  \/ Transient(m)
  \/ m = Discovery /\ (DiscoveryAnswered \/ DiscoveryFails)
  \/ m = ToolsList /\ (ToolsListAnswered \/ ToolsListFails)
  \/ m \in Call /\ CallEnds(m)

SessionNext ==
  \/ \E c \in Call : Ask(c) \/ CallEnds(c)
  \/ StartTest \/ ProbeInstall
  \/ DiscoveryAnswered \/ CardCaptured \/ DiscoveryFails
  \/ \E m \in Message : Transient(m) \/ Retry(m)
  \/ ToolsListAnswered \/ ToolsListFails
  \/ \E e \in Endpoint \cup {Unset} : ChangeEndpoint(e)
  \/ \E e \in Endpoint : ReplaceServer(e)

(* Every attempt ends by its deadline, every sleep ends, and the file search, *)
(* the store and the metadata's fetch settle.                                 *)
SessionFairness ==
  /\ WF_sessionVars(ProbeInstall)
  /\ WF_sessionVars(CardCaptured \/ (discovery = "storing" /\ DiscoveryFails))
  /\ \A m \in Message : WF_sessionVars(MessageEnds(m)) /\ WF_sessionVars(Retry(m))

SessionSpec == SessionInit /\ [][SessionNext]_sessionVars /\ SessionFairness
-----------------------------------------------------------------------------
Targets == Endpoint \cup {Unset}

(* The types, and that the transport never makes more attempts than           *)
(* maxRetries.                                                                *)
SessionTypeOK ==
  /\ kind \in Kind
  /\ connected \in BOOLEAN
  /\ card \in Compat \cup {"none"}
  /\ setting \in Targets
  /\ running \in [Endpoint -> Compat]
  /\ phase \in [Request -> {"idle", "waiting", "asking", "backoff"}]
  /\ discovery \in {"idle", "asking", "backoff", "storing"}
  /\ found \in Compat
  /\ target \in [Message -> Targets]
  /\ attempt \in [Message -> 0 .. MaxAttempts]
  /\ testing \in {"no", "installing", "discovering", "listing"}
  /\ shaken \in BOOLEAN

(* The client reports "Degraded", a server that answered and then broke the   *)
(* contract, only if a server did answer since the window opened: neither the *)
(* cached card nor the state of a stdio configuration makes it.               *)
DegradedAfterHandshake == kind = "Degraded" => shaken

(* No request, and no test of the connection, waits for ever, whatever other  *)
(* requests, tests and edits of the setting come in between.                  *)
SessionSettles ==
  /\ \A c \in Call : phase[c] # "idle" ~> phase[c] = "idle"
  /\ testing # "no" ~> testing = "no"

=============================================================================
