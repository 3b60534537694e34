---------------------------- MODULE StudioContext ----------------------------
(* The studio context pushed to the MCP server: the triggers and the build in *)
(* StudioContextController, the debounce and the hash in ContextBridge, and   *)
(* the studio_push_context calls of McpClient.pushContext.                    *)
(*                                                                            *)
(* A moment is a position in the history of the editor's state.  A build      *)
(* reads the active editor when it starts and everything that depends on      *)
(* awaits (DRC results, cursor, variant) when it ends, so a snapshot has a    *)
(* moment for each part; what is hashed is the contents at those moments.     *)
EXTENDS Naturals, Sequences

CONSTANTS
  Editor, Results,  \* contents of the two parts of a context
  NoHash,           \* no context was sent yet
  MaxMoments,       \* bound: moments of the history
  MaxTriggers,      \* bound: triggers
  MaxRetries        \* bound: repeated deliveries of calls

Part    == {"editor", "results"}
Context == [editor : Editor, results : Results]

ASSUME HashAssumption == NoHash \notin Context
ASSUME ContextBoundAssumption == 
  MaxMoments \in Nat /\ MaxTriggers \in Nat /\ MaxRetries \in Nat

VARIABLES
  history,          \* the contexts the editor went through; the last is now
  triggers,         \* triggers so far, to number the builds
  cursorPushTimer,  \* the debounce timer of cursor moves is armed
  builds,           \* pushStudioContext calls that await buildStudioContext
  lastContextHash,  \* hash of the last context sent
  pendingContext,   \* the snapshot that waits for the flush timer, or Nothing
  flushTimer,       \* the flush timer is armed
  sends,            \* calls sent so far, to number them
  calls,            \* studio_push_context calls in flight
  retries,          \* repeated deliveries so far
  server,           \* the snapshot the server holds, or Nothing
  disposed          \* the extension was deactivated

(* What the properties remember of the past; no guard reads it.               *)
VARIABLES
  pushed,           \* the snapshot pushContext was last called with
  shadowed,         \* that push was taken for a repetition of the last context
                    \* sent, while another one waited
  arrived,          \* the call whose context the server holds
  overtaken         \* a build or a call was overtaken by a later one, since
                    \* nothing was last on its way

bridge      == <<lastContextHash, pendingContext, flushTimer, sends>>
network     == <<retries, server>>
past        == <<pushed, shadowed, arrived, overtaken>>
contextVars == <<history, triggers, cursorPushTimer, builds, bridge, calls, network,
                 disposed, past>>

Now      == Len(history)
Snapshot == [Part -> Nat]
Nothing  == [p \in Part |-> 0]
Build    == [id : Nat, at : Nat, atOnce : BOOLEAN]
Call     == [id : Nat, context : Snapshot]

\* A hash that leaves out what changes with the results.
HashOfEditor(s) == [editor |-> history[s["editor"]].editor]

\* hashContext: equal for two snapshots with equal contents.
HashOf(s) == [editor  |-> history[s["editor"]].editor,
              results |-> history[s["results"]].results]

\* An element of a queue that leaves older ones behind.
Overtakes(q, queue) == \E r \in queue : r.id < q.id

\* `late` in this step an element did; forgotten when nothing is on its way.
Records(late) ==
  overtaken' = /\ overtaken \/ late
               /\ builds' # {} \/ calls' # {} \/ pendingContext' # Nothing

ContextInit ==
  /\ \E c \in Context : history = <<c>>
  /\ triggers = 0 /\ cursorPushTimer = FALSE /\ builds = {}
  /\ lastContextHash = NoHash /\ pendingContext = Nothing /\ flushTimer = FALSE
  /\ sends = 0 /\ calls = {} /\ retries = 0 /\ server = Nothing
  /\ disposed = FALSE
  /\ pushed = Nothing /\ shadowed = FALSE /\ arrived = 0 /\ overtaken = FALSE

-----------------------------------------------------------------------------
(* The editor.                                                                *)

\* The state becomes c, or stays as it is.
Becomes(c) ==
  \/ c = history[Now] /\ UNCHANGED history
  \/ /\ c # history[Now] /\ Now < MaxMoments
     /\ history' = Append(history, c)

\* pushStudioContext: the build starts and reads the active editor.
StartBuild(atOnce) ==
  builds' = builds \cup {[id |-> triggers', at |-> Len(history'), atOnce |-> atOnce]}

\* A save or a DRC run on save (sent at once); another active text editor, a
\* project the user selects, a command (sent after a delay).
Trigger(atOnce) ==
  /\ ~disposed /\ triggers < MaxTriggers /\ triggers' = triggers + 1
  /\ \E c \in Context : Becomes(c)
  /\ StartBuild(atOnce)
  /\ UNCHANGED <<cursorPushTimer, bridge, calls, network, disposed, past>>

\* schedulePushStudioContext('cursor'): the timer is armed, or armed anew.
CursorMoves ==
  /\ ~disposed /\ triggers < MaxTriggers /\ triggers' = triggers + 1
  /\ \E c \in Context : Becomes(c)
  /\ cursorPushTimer' = TRUE
  /\ UNCHANGED <<builds, bridge, calls, network, disposed, past>>

CursorTimerFires ==
  /\ cursorPushTimer /\ cursorPushTimer' = FALSE
  /\ triggers' = triggers + 1
  /\ UNCHANGED history
  /\ StartBuild(FALSE)
  /\ UNCHANGED <<bridge, calls, network, disposed, past>>

\* Much of the context changes without a push: another viewer tab is active, the
\* projects are discovered anew, a viewer reports a selection, kicad-cli is found.
SilentChange ==
  /\ ~disposed
  /\ \E c \in Context : c # history[Now] /\ Becomes(c)
  /\ UNCHANGED <<triggers, cursorPushTimer, builds, bridge, calls, network, disposed, past>>

-----------------------------------------------------------------------------
(* The bridge.                                                                *)

\* A context waits that is not the one sent last.
Sendable(next) == next # Nothing /\ HashOf(next) # lastContextHash

\* flushPending, with the given pending context.
Flush(next) ==
  /\ pendingContext' = Nothing /\ flushTimer' = FALSE
  /\ \/ ~Sendable(next) /\ UNCHANGED <<lastContextHash, sends, calls>>
     \/ /\ Sendable(next)
        /\ lastContextHash' = HashOf(next)
        /\ sends' = sends + 1
        /\ calls' = calls \cup {[id |-> sends', context |-> next]}

\* A flush at once that forgets the context that waits and its timer.
PushContextKeepsTimer(s, atOnce) ==
  \/ HashOf(s) = lastContextHash /\ UNCHANGED <<bridge, calls>>
  \/ /\ HashOf(s) # lastContextHash /\ atOnce
     /\ lastContextHash' = HashOf(s) /\ sends' = sends + 1
     /\ calls' = calls \cup {[id |-> sends', context |-> s]}
     /\ UNCHANGED <<pendingContext, flushTimer>>
  \/ /\ HashOf(s) # lastContextHash /\ ~atOnce
     /\ pendingContext' = s /\ flushTimer' = TRUE
     /\ UNCHANGED <<lastContextHash, sends, calls>>

\* The first context of a burst is kept instead of the last.
PushContextKeepsFirst(s, atOnce) ==
  \/ HashOf(s) = lastContextHash /\ UNCHANGED <<bridge, calls>>
  \/ HashOf(s) # lastContextHash /\ atOnce /\ Flush(s)
  \/ /\ HashOf(s) # lastContextHash /\ ~atOnce
     /\ pendingContext' = IF flushTimer THEN pendingContext ELSE s
     /\ flushTimer' = TRUE
     /\ UNCHANGED <<lastContextHash, sends, calls>>

\* The timer is cleared before the hash is compared.
PushContextClearsTimer(s, atOnce) ==
  \/ /\ HashOf(s) = lastContextHash /\ flushTimer' = FALSE
     /\ UNCHANGED <<lastContextHash, pendingContext, sends, calls>>
  \/ HashOf(s) # lastContextHash /\ atOnce /\ Flush(s)
  \/ /\ HashOf(s) # lastContextHash /\ ~atOnce
     /\ pendingContext' = s /\ flushTimer' = TRUE
     /\ UNCHANGED <<lastContextHash, sends, calls>>

PushContext(s, atOnce) ==
  \/ HashOf(s) = lastContextHash /\ UNCHANGED <<bridge, calls>>
  \/ HashOf(s) # lastContextHash /\ atOnce /\ Flush(s)
  \/ /\ HashOf(s) # lastContextHash /\ ~atOnce
     /\ pendingContext' = s /\ flushTimer' = TRUE
     /\ UNCHANGED <<lastContextHash, sends, calls>>

BuildEnds ==
  \E b \in builds :
    LET s == [p \in Part |-> IF p = "editor" THEN b.at ELSE Now]
    IN /\ builds' = builds \ {b}
       /\ PushContext(s, b.atOnce)
       /\ pushed' = s
       /\ shadowed' = (HashOf(s) = lastContextHash /\ pendingContext # Nothing)
       /\ UNCHANGED <<history, triggers, cursorPushTimer, network, disposed, arrived>>
       /\ Records(Overtakes(b, builds))

\* A file the build reads (the variants of the project) is not readable.
BuildFails ==
  /\ \E b \in builds : builds' = builds \ {b}
  /\ UNCHANGED <<history, triggers, cursorPushTimer, bridge, calls, network, disposed,
                 pushed, shadowed, arrived>>
  /\ Records(FALSE)

FlushTimerFires ==
  /\ flushTimer
  /\ Flush(pendingContext)
  /\ UNCHANGED <<history, triggers, cursorPushTimer, builds, network, disposed, past>>

\* dispose of the controller and of the bridge at deactivation.
Dispose ==
  /\ ~disposed /\ disposed' = TRUE
  /\ cursorPushTimer' = FALSE
  /\ Flush(pendingContext)
  /\ UNCHANGED <<history, triggers, builds, network, past>>

-----------------------------------------------------------------------------
(* The calls.                                                                 *)

\* The server takes the context of a call.
Shows(c) ==
  /\ server' = c.context /\ arrived' = c.id
  /\ UNCHANGED <<history, triggers, cursorPushTimer, builds, bridge, disposed, pushed,
                 shadowed>>
  /\ Records(Overtakes(c, calls))

CallArrives ==
  \E c \in calls : calls' = calls \ {c} /\ UNCHANGED retries /\ Shows(c)

\* The push is disabled in the settings, or every attempt failed.
CallFails ==
  /\ \E c \in calls : calls' = calls \ {c}
  /\ UNCHANGED <<history, triggers, cursorPushTimer, builds, bridge, network, disposed,
                 pushed, shadowed, arrived>>
  /\ Records(FALSE)

\* The server took the context, but the answer timed out: the transport repeats
\* the call.
AnswerLost ==
  /\ retries < MaxRetries /\ retries' = retries + 1 /\ UNCHANGED calls
  /\ \E c \in calls : Shows(c)

ContextNext ==
  \/ \E atOnce \in BOOLEAN : Trigger(atOnce)
  \/ CursorMoves \/ CursorTimerFires \/ SilentChange
  \/ BuildEnds \/ BuildFails \/ FlushTimerFires \/ Dispose
  \/ CallArrives \/ CallFails \/ AnswerLost

ContextSpec == ContextInit /\ [][ContextNext]_contextVars

-----------------------------------------------------------------------------
(* Properties.                                                                *)

\* ContextTypeOK: moments never exceed the history, timers, queues and what is
\* remembered have their types.
Moments == [Part -> 0..Now]

TypeFlags ==
  {cursorPushTimer, flushTimer, disposed, shadowed, overtaken} \subseteq BOOLEAN

TypeData ==
  /\ history \in Seq(Context) /\ history # <<>>
  /\ triggers \in Nat /\ sends \in Nat /\ retries \in Nat /\ arrived \in 0..sends
  /\ lastContextHash \in Context \cup {NoHash}
  /\ pendingContext \in Moments /\ server \in Moments /\ pushed \in Moments

TypeQueues ==
  /\ \A b \in builds : b \in Build /\ b.id <= triggers /\ b.at \in 1..Now
  /\ \A c \in calls : c \in Call /\ c.id <= sends /\ c.context \in [Part -> 1..Now]

ContextTypeOK == TypeFlags /\ TypeData /\ TypeQueues

\* A context that waits always has the timer that will send it, and the timer
\* never runs for nothing, whatever returns early, replaces or flushes it.
PendingHasTimer == flushTimer <=> pendingContext # Nothing

\* Nothing is on its way any more.
AtRest ==
  /\ ~cursorPushTimer /\ builds = {} /\ ~flushTimer /\ calls = {}

\* Once everything has settled the server holds the context that was pushed last,
\* also after a deactivation: no debounce, flush, replaced snapshot or reordered
\* build leaves it behind.  The two exceptions are the code's: the newest call was
\* not the last to arrive (it failed or was overtaken, and is not sent again), or
\* pushContext took the push for a repetition and left an older context waiting.
ServerFollows ==
  AtRest /\ pushed # Nothing /\ arrived = sends /\ ~shadowed =>
    /\ server # Nothing
    /\ HashOf(server) = HashOf(pushed)

\* The server is shown moments of the history, part by part, none from the
\* future and, unless a build or a call was overtaken by a later one, never an
\* older one after a newer one.
LatestPushed == INSTANCE LatestValue WITH latest <- Now, shown <- server
ServerMovesForward == LatestPushed!Spec

\* What the setting mcp.pushContext says: the server is pushed the active file,
\* the DRC summary and the selection.  Once everything has settled, every call
\* having arrived in order, the server holds the context the editor is in.
ServerHoldsActive ==
  AtRest /\ ~disposed /\ pushed # Nothing /\ arrived = sends /\ ~overtaken =>
    HashOf(server) = history[Now]

=============================================================================
