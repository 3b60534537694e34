------------------------- MODULE StudioContextProofs -------------------------
(* Invariants of StudioContext for all contents and bounds, and its refinement *)
(* of LatestValue.                                                            *)
EXTENDS StudioContext, TLAPS

LEMMA NothingType == Nothing \in Moments
BY DEF Nothing, Moments, Now

\* The state becomes c: the history keeps its moments and may get one more.
LEMMA BecomesType ==
  ASSUME TypeData, NEW c \in Context, Becomes(c)
  PROVE  /\ history' \in Seq(Context) /\ history' # <<>>
         /\ Len(history) \in Nat /\ Len(history') \in Nat
         /\ 1 <= Len(history) /\ Len(history) <= Len(history')
         /\ Len(history') \in {Len(history), Len(history) + 1}
<1>1. CASE UNCHANGED history
  BY <1>1 DEF TypeData
<1>2. CASE history' = Append(history, c)
  BY <1>2 DEF TypeData
<1> QED BY <1>1, <1>2 DEF Becomes, Now

\* More moments leave what was well typed well typed.
LEMMA MomentsGrow ==
  ASSUME Len(history) \in Nat, Len(history') \in Nat, Len(history) <= Len(history')
  PROVE  /\ Moments \subseteq Moments'
         /\ 1..Now \subseteq 1..Now'
         /\ [Part -> 1..Now] \subseteq [Part -> 1..Now']
BY DEF Moments, Now

\* The contents of a snapshot are a context.
LEMMA HashType ==
  ASSUME TypeData, NEW s \in [Part -> 1..Now]
  PROVE  HashOf(s) \in Context
<1>1. s["editor"] \in 1..Len(history) /\ s["results"] \in 1..Len(history)
  BY DEF Part, Now
<1>2. history[s["editor"]] \in Context /\ history[s["results"]] \in Context
  BY <1>1 DEF TypeData
<1> QED BY <1>2 DEF HashOf, Context

\* A context that waits is a snapshot of moments that were reached.
PendingReached == pendingContext # Nothing => pendingContext \in [Part -> 1..Now]

IData == TypeData /\ TypeQueues /\ PendingReached

LEMMA FlushType ==
  ASSUME TypeData, TypeQueues, NEW s \in Moments,
         s # Nothing => s \in [Part -> 1..Now],
         Flush(s), builds' \subseteq builds, pushed' \in Moments,
         UNCHANGED <<history, triggers, network, arrived>>
  PROVE  IData'
<1> USE DEF Flush, network
<1>1. pendingContext' \in Moments' /\ PendingReached'
  BY NothingType DEF PendingReached, Moments, Now
<1>2. CASE UNCHANGED <<lastContextHash, sends, calls>>
  BY <1>1, <1>2 DEF IData, TypeData, TypeQueues, Moments, Now
<1>3. CASE Sendable(s) /\ lastContextHash' = HashOf(s) /\ sends' = sends + 1
           /\ calls' = calls \cup {[id |-> sends', context |-> s]}
  <2>1. s \in [Part -> 1..Now]
    BY <1>3 DEF Sendable
  <2>2. lastContextHash' \in Context
    BY <1>3, <2>1, HashType
  <2>3. sends' \in Nat /\ sends <= sends' /\ arrived' \in 0..sends'
    BY <1>3 DEF TypeData
  <2>4. s \in Snapshot
    BY <2>1 DEF Snapshot, TypeData, Now
  <2>5. [id |-> sends', context |-> s] \in Call
    BY <2>3, <2>4 DEF Call
  <2>6. \A c \in calls' : c \in Call /\ c.id <= sends' /\ c.context \in [Part -> 1..Now]
    BY <1>3, <2>1, <2>3, <2>5 DEF TypeQueues, TypeData, Call
  <2> QED BY <1>1, <2>2, <2>3, <2>6 DEF IData, TypeData, TypeQueues, Moments, Now
<1> QED BY <1>2, <1>3

-----------------------------------------------------------------------------
LEMMA DataInit == ContextInit => IData /\ TypeFlags
<1> SUFFICES ASSUME ContextInit PROVE IData /\ TypeFlags
  OBVIOUS
<1>1. PICK c \in Context : history = <<c>> BY DEF ContextInit
<1>2. history \in Seq(Context) /\ history # <<>> /\ Len(history) = 1 BY <1>1
<1>3. TypeData BY <1>2, NothingType DEF ContextInit, TypeData
<1> QED BY <1>3 DEF ContextInit, IData, TypeQueues, TypeFlags, PendingReached

\* The Booleans stay Booleans.
LEMMA FlagsStep == TypeFlags /\ [ContextNext]_contextVars => TypeFlags'
<1> SUFFICES ASSUME TypeFlags, [ContextNext]_contextVars PROVE TypeFlags'
  OBVIOUS
<1> USE DEF TypeFlags, bridge, network, past, Records
<1>1. CASE \E atOnce \in BOOLEAN : Trigger(atOnce) BY <1>1 DEF Trigger
<1>2. CASE CursorMoves BY <1>2 DEF CursorMoves
<1>3. CASE CursorTimerFires BY <1>3 DEF CursorTimerFires
<1>4. CASE SilentChange BY <1>4 DEF SilentChange
<1>5. CASE BuildEnds BY <1>5 DEF BuildEnds, PushContext, Flush
<1>6. CASE FlushTimerFires BY <1>6 DEF FlushTimerFires, Flush
<1>7. CASE Dispose BY <1>7 DEF Dispose, Flush
<1>8. CASE CallArrives BY <1>8 DEF CallArrives, Shows
<1>9. CASE CallFails BY <1>9 DEF CallFails
<1>10. CASE AnswerLost BY <1>10 DEF AnswerLost, Shows
<1>11. CASE BuildFails BY <1>11 DEF BuildFails
<1>12. CASE UNCHANGED contextVars BY <1>12 DEF contextVars
<1> QED BY <1>1, <1>2, <1>3, <1>4, <1>5, <1>6, <1>7, <1>8, <1>9, <1>10, <1>11,
           <1>12 DEF ContextNext

\* The editor changes, a build may start, the bridge and the calls stay.
LEMMA EditorType ==
  ASSUME IData, NEW c \in Context, Becomes(c) \/ UNCHANGED history,
         triggers' \in {triggers, triggers + 1},
         UNCHANGED <<bridge, calls, network, past>>,
         \/ UNCHANGED builds
         \/ triggers' = triggers + 1 /\ \E atOnce \in BOOLEAN : StartBuild(atOnce)
  PROVE  IData'
<1>1. /\ history' \in Seq(Context) /\ history' # <<>>
      /\ Len(history) \in Nat /\ Len(history') \in Nat
      /\ 1 <= Len(history) /\ Len(history) <= Len(history')
  BY BecomesType DEF IData, TypeData
<1>2. /\ Moments \subseteq Moments' /\ 1..Now \subseteq 1..Now'
      /\ [Part -> 1..Now] \subseteq [Part -> 1..Now']
  BY <1>1, MomentsGrow
<1>3. triggers' \in Nat /\ triggers <= triggers'
  BY DEF IData, TypeData
<1>4. TypeData' /\ PendingReached'
  BY <1>1, <1>2, <1>3 DEF IData, TypeData, PendingReached, bridge, network, past, Nothing
<1>5. \A d \in calls' : d \in Call /\ d.id <= sends' /\ d.context \in [Part -> 1..Now']
  BY <1>2 DEF IData, TypeQueues, bridge
<1>6. \A b \in builds : b \in Build /\ b.id <= triggers' /\ b.at \in 1..Now'
  BY <1>2, <1>3 DEF IData, TypeData, TypeQueues, Build
<1>7. CASE UNCHANGED builds
  BY <1>4, <1>5, <1>6, <1>7 DEF IData, TypeQueues
<1>8. ASSUME NEW atOnce \in BOOLEAN, triggers' = triggers + 1, StartBuild(atOnce)
      PROVE  IData'
  <2> DEFINE b == [id |-> triggers', at |-> Len(history'), atOnce |-> atOnce]
  <2>1. b \in Build /\ b.id <= triggers' /\ b.at \in 1..Now'
    BY <1>1, <1>3 DEF Build, Now
  <2>2. builds' = builds \cup {b}
    BY <1>8 DEF StartBuild
  <2> QED BY <1>4, <1>5, <1>6, <2>1, <2>2 DEF IData, TypeQueues
<1> QED BY <1>7, <1>8

\* The snapshot a build ends with.
Built(b) == [p \in Part |-> IF p = "editor" THEN b.at ELSE Now]

LEMMA BuiltType ==
  ASSUME IData, NEW b \in builds
  PROVE  /\ Built(b) \in [Part -> 1..Now] /\ Built(b) \in Moments
         /\ Built(b) # Nothing /\ HashOf(Built(b)) \in Context
         /\ Built(b)["editor"] = b.at /\ Built(b)["results"] = Now
<1>1. Now \in Nat /\ 1 <= Now /\ b.at \in 1..Now
  BY DEF IData, TypeData, TypeQueues, Now
<1>2. Built(b) \in [Part -> 1..Now] /\ Built(b)["editor"] = b.at
  BY <1>1 DEF Built, Part
<1>3. Built(b)["results"] = Now /\ Built(b) # Nothing /\ Built(b) \in Moments
  BY <1>1 DEF Built, Part, Nothing, Moments
<1> QED BY <1>2, <1>3, HashType DEF IData

LEMMA BuildEndsType ==
  ASSUME IData, BuildEnds PROVE IData'
<1>1. PICK b \in builds :
        /\ builds' = builds \ {b}
        /\ PushContext(Built(b), b.atOnce) /\ pushed' = Built(b)
        /\ UNCHANGED <<history, triggers, cursorPushTimer, network, disposed, arrived>>
  BY DEF BuildEnds, Built
<1> DEFINE s == Built(b)
<1>2. s \in [Part -> 1..Now] /\ s \in Moments /\ pushed' = s
  BY <1>1, BuiltType
<1> HIDE DEF s
<1>3. CASE UNCHANGED <<bridge, calls>>
  BY <1>1, <1>2, <1>3 DEF IData, TypeData, TypeQueues, PendingReached, bridge, network,
     Moments, Now
<1>4. CASE Flush(s)
  BY <1>1, <1>2, <1>4, FlushType DEF IData
<1>5. CASE pendingContext' = s /\ UNCHANGED <<lastContextHash, sends, calls>>
  BY <1>1, <1>2, <1>5 DEF IData, TypeData, TypeQueues, PendingReached, network,
     Moments, Now
<1> QED BY <1>1, <1>3, <1>4, <1>5 DEF PushContext, s

LEMMA CallType ==
  ASSUME IData, UNCHANGED <<history, triggers, bridge, pushed>>, builds' \subseteq builds,
         calls' \subseteq calls, retries' \in {retries, retries + 1},
         \/ UNCHANGED <<server, arrived>>
         \/ \E c \in calls : server' = c.context /\ arrived' = c.id
  PROVE  IData'
<1>1. Now \in Nat /\ [Part -> 1..Now] \subseteq Moments
  BY DEF IData, TypeData, Moments, Now
<1>2. server' \in Moments /\ arrived' \in 0..sends
  BY <1>1 DEF IData, TypeData, TypeQueues, Call
<1> QED BY <1>2 DEF IData, TypeData, TypeQueues, PendingReached, bridge, Moments, Now

LEMMA DataStep == IData /\ [ContextNext]_contextVars => IData'
<1> SUFFICES ASSUME IData, [ContextNext]_contextVars PROVE IData'
  OBVIOUS
<1>1. ASSUME NEW atOnce \in BOOLEAN, Trigger(atOnce) PROVE IData'
  BY <1>1, EditorType DEF Trigger
<1>2. CASE CursorMoves
  BY <1>2, EditorType DEF CursorMoves
<1>3. CASE CursorTimerFires
  <2>1. PICK c : c \in Context
    BY DEF IData, TypeData
  <2> QED BY <1>3, <2>1, EditorType DEF CursorTimerFires
<1>4. CASE SilentChange
  BY <1>4, EditorType DEF SilentChange
<1>5. CASE BuildEnds
  BY <1>5, BuildEndsType
<1>6. CASE FlushTimerFires
  BY <1>6, FlushType DEF FlushTimerFires, IData, PendingReached, TypeData, past
<1>7. CASE Dispose
  BY <1>7, FlushType DEF Dispose, IData, PendingReached, TypeData, past
<1>8. CASE CallArrives
  BY <1>8, CallType DEF CallArrives, Shows, IData, TypeData
<1>9. CASE CallFails \/ BuildFails
  BY <1>9, CallType DEF CallFails, BuildFails, network, IData, TypeData
<1>10. CASE AnswerLost
  BY <1>10, CallType DEF AnswerLost, Shows
<1>11. CASE UNCHANGED contextVars
  BY <1>11 DEF contextVars, bridge, network, past, IData, TypeData, TypeQueues,
     PendingReached, Moments, Now
<1> QED BY <1>1, <1>2, <1>3, <1>4, <1>5, <1>6, <1>7, <1>8, <1>9, <1>10, <1>11
        DEF ContextNext

\* Type correctness: every moment a snapshot names was reached.
THEOREM TypeCorrect == ContextSpec => []ContextTypeOK
<1>1. ContextInit => IData /\ TypeFlags BY DataInit
<1>2. IData /\ TypeFlags /\ [ContextNext]_contextVars => (IData /\ TypeFlags)' BY DataStep, FlagsStep
<1>3. IData /\ TypeFlags => ContextTypeOK BY DEF IData, ContextTypeOK
<1> QED BY <1>1, <1>2, <1>3, PTL DEF ContextSpec

-----------------------------------------------------------------------------
(* The timer.                                                                 *)

\* A context that waits has its timer, under every order of builds and calls.
THEOREM PendingHasTimerAlways == ContextSpec => []PendingHasTimer
<1> USE DEF PendingHasTimer
<1>1. ContextInit => PendingHasTimer BY DEF ContextInit
<1>2. ASSUME PendingHasTimer, IData, [ContextNext]_contextVars PROVE PendingHasTimer'
  <2> USE DEF Flush, bridge
  <2>1. ASSUME NEW s, s # Nothing, NEW atOnce, PushContext(s, atOnce)
        PROVE  PendingHasTimer'
    BY <1>2, <2>1 DEF PushContext
  <2>2. CASE BuildEnds
    BY <1>2, <2>1, <2>2, BuiltType DEF BuildEnds, Built
  <2>3. CASE FlushTimerFires \/ Dispose
    BY <1>2, <2>3 DEF FlushTimerFires, Dispose
  <2>4. CASE UNCHANGED <<flushTimer, pendingContext>>
    BY <1>2, <2>4
  <2> QED BY <1>2, <2>2, <2>3, <2>4 DEF ContextNext, Trigger, CursorMoves, CursorTimerFires,
          SilentChange, BuildFails, CallArrives, CallFails, AnswerLost, Shows,
          contextVars
<1> QED BY <1>1, <1>2, DataInit, DataStep, PTL DEF ContextSpec

-----------------------------------------------------------------------------
(* The order of what the server is shown.                                     *)

\* No part of s is newer than that of t.
Before(s, t) == \A p \in Part : s[p] <= t[p]

\* The server, the calls, the context that waits and the builds form a chain.
Ordered ==
  /\ \A a, b \in builds : (a.id = b.id => a = b) /\ (a.id < b.id => a.at <= b.at)
  /\ \A c, d \in calls : (c.id = d.id => c = d) /\ (c.id < d.id => Before(c.context, d.context))
  /\ \A c \in calls : Before(server, c.context)
  /\ pendingContext # Nothing =>
       Before(server, pendingContext) /\ \A c \in calls : Before(c.context, pendingContext)
  /\ \A b \in builds :
       /\ server["editor"] <= b.at /\ pendingContext["editor"] <= b.at
       /\ \A c \in calls : c.context["editor"] <= b.at

\* s is at the end of the chain of what was built, and before the given builds.
Newest(s, waiting) ==
  /\ Before(server, s) /\ \A c \in calls : Before(c.context, s)
  /\ \A b \in waiting : s["editor"] <= b.at

LEMMA OrderedFlush ==
  ASSUME IData, Ordered, NEW s \in Moments, s # Nothing => Newest(s, builds'),
         Flush(s), builds' \subseteq builds, UNCHANGED <<history, network>>
  PROVE  Ordered'
<1> USE DEF Flush, network, Newest
<1>1. pendingContext' = Nothing /\ server' = server
  OBVIOUS
<1>2. \A b \in builds' : pendingContext'["editor"] <= b.at
  BY <1>1 DEF IData, TypeQueues, Nothing, Part, Now
<1>3. CASE UNCHANGED <<lastContextHash, sends, calls>>
  BY <1>1, <1>2, <1>3 DEF Ordered
<1>4. CASE s # Nothing /\ sends' = sends + 1
           /\ calls' = calls \cup {[id |-> sends', context |-> s]}
  <2> DEFINE new == [id |-> sends', context |-> s]
  <2>1. \A c \in calls : c.id < new.id /\ Before(c.context, new.context)
    BY <1>4 DEF IData, TypeQueues, TypeData, Call
  <2>2. new.context = s /\ calls' = calls \cup {new}
    BY <1>4
  <2>3. \A c, d \in calls' : /\ c.id = d.id => c = d
                             /\ c.id < d.id => Before(c.context, d.context)
    <3>1. \A c \in calls : c.id \in Nat /\ new.id \in Nat
      BY <1>4 DEF IData, TypeQueues, TypeData, Call
    <3>2. \A c \in calls : /\ c.id # new.id /\ ~(new.id < c.id)
                            /\ Before(c.context, new.context)
      BY <2>1, <3>1
    <3>3. ~(new.id < new.id)
      BY <1>4 DEF IData, TypeData
    <3> HIDE DEF new
    <3> QED BY <2>2, <3>2, <3>3 DEF Ordered
  <2>4. \A c \in calls' : Before(server', c.context)
    BY <1>1, <1>4, <2>2 DEF Ordered
  <2>5. \A b \in builds', c \in calls' : c.context["editor"] <= b.at
    BY <1>4, <2>2 DEF Ordered
  <2> QED BY <1>1, <1>2, <2>3, <2>4, <2>5 DEF Ordered, Before
<1> QED BY <1>3, <1>4 DEF Sendable

LEMMA OrderedEditor ==
  ASSUME IData, Ordered, NEW c \in Context, Becomes(c) \/ UNCHANGED history,
         triggers' \in {triggers, triggers + 1},
         UNCHANGED <<bridge, calls, network>>,
         \/ UNCHANGED builds
         \/ triggers' = triggers + 1 /\ \E atOnce \in BOOLEAN : StartBuild(atOnce)
  PROVE  Ordered'
<1> USE DEF bridge, network
<1>1. CASE UNCHANGED builds
  BY <1>1 DEF Ordered, Before
<1>2. ASSUME NEW atOnce \in BOOLEAN, triggers' = triggers + 1, StartBuild(atOnce)
      PROVE  Ordered'
  <2> DEFINE new == [id |-> triggers', at |-> Len(history'), atOnce |-> atOnce]
  <2>1. Len(history) \in Nat /\ Len(history') \in Nat /\ Len(history) <= Len(history')
    BY BecomesType DEF IData, TypeData
  <2>2. \A b \in builds : b.id < new.id /\ b.at <= new.at /\ b.id \in Nat
    BY <1>2, <2>1 DEF IData, TypeData, TypeQueues, Build, Now
  <2>3. \A d \in calls : d.context["editor"] <= new.at
    BY <2>1 DEF IData, TypeQueues, Part, Now
  <2>4. server["editor"] <= new.at /\ pendingContext["editor"] <= new.at
    BY <2>1 DEF IData, TypeData, Moments, Part, Now
  <2>5. builds' = builds \cup {new} /\ new.id \in Nat
    BY <1>2 DEF StartBuild, IData, TypeData
  <2>6. \A a, b \in builds' : (a.id = b.id => a = b) /\ (a.id < b.id => a.at <= b.at)
    BY <2>2, <2>5 DEF Ordered
  <2>7. \A b \in builds' :
          /\ server["editor"] <= b.at /\ pendingContext["editor"] <= b.at
          /\ \A d \in calls : d.context["editor"] <= b.at
    BY <2>3, <2>4, <2>5 DEF Ordered
  <2> QED BY <2>6, <2>7 DEF Ordered, Before
<1> QED BY <1>1, <1>2

LEMMA OrderedBuildEnds ==
  ASSUME IData, Ordered, NEW b \in builds, ~Overtakes(b, builds), builds' = builds \ {b},
         PushContext(Built(b), b.atOnce), UNCHANGED <<history, network>>
  PROVE  Ordered'
<1> DEFINE s == Built(b)
<1>1. Now \in Nat /\ 1 <= Now /\ b.at \in 1..Now
  BY DEF IData, TypeData, TypeQueues, Now
<1>2. s \in Moments /\ s["editor"] = b.at /\ s["results"] = Now
  BY BuiltType
<1>3. \A a \in builds' : b.at <= a.at
  BY DEF Overtakes, Ordered, IData, TypeQueues, Build
<1>4. Newest(s, builds')
  <2>1. Before(server, s)
    BY <1>1, <1>2 DEF Ordered, IData, TypeData, Moments, Part, Before
  <2>2. \A c \in calls : Before(c.context, s)
    BY <1>1, <1>2 DEF Ordered, IData, TypeQueues, Part, Before
  <2> QED BY <1>2, <1>3, <2>1, <2>2 DEF Newest
<1> HIDE DEF s
<1>5. CASE UNCHANGED <<bridge, calls>>
  BY <1>5 DEF Ordered, Before, bridge, network
<1>6. CASE Flush(s)
  BY <1>2, <1>4, <1>6, OrderedFlush
<1>7. CASE pendingContext' = s /\ UNCHANGED <<lastContextHash, sends, calls>>
  BY <1>4, <1>7 DEF Ordered, Newest, Before, network
<1> QED BY <1>5, <1>6, <1>7 DEF PushContext, s

\* A call the server takes before any older one.
LEMMA OrderedCall ==
  ASSUME IData, Ordered, NEW c \in calls, ~Overtakes(c, calls), server' = c.context,
         calls' \in {calls, calls \ {c}}, UNCHANGED <<builds, bridge>>
  PROVE  Ordered' /\ Before(server, server')
<1> USE DEF bridge
<1>1. Before(server, c.context) /\ Before(server, server')
  BY DEF Ordered
<1>2. \A d \in calls : d = c \/ c.id < d.id
  BY DEF Overtakes, Ordered, IData, TypeQueues, Call
<1>3. \A d \in calls : Before(c.context, d.context)
  BY <1>2 DEF Ordered, Before, IData, TypeQueues
<1> QED BY <1>1, <1>3 DEF Ordered, Before

\* Fewer builds and calls are in order, too.
LEMMA OrderedFewer ==
  ASSUME Ordered, builds' \subseteq builds, calls' \subseteq calls, UNCHANGED <<bridge, server>>
  PROVE  Ordered'
BY DEF Ordered, Before, bridge

\* What is on its way is in order unless something was overtaken.
InStep == ~overtaken => Ordered

LEMMA InStepRecords ==
  ASSUME NEW late \in BOOLEAN, Records(late),
         ~late /\ ~overtaken => Ordered'
  PROVE  InStep'
<1>1. CASE builds' = {} /\ calls' = {} /\ pendingContext' = Nothing
  <2>1. pendingContext' = Nothing'
    BY <1>1 DEF Nothing
  <2> QED BY <1>1, <2>1 DEF InStep, Ordered
<1> QED BY <1>1 DEF Records, InStep

LEMMA InStepStep == IData /\ InStep /\ [ContextNext]_contextVars => InStep'
<1> SUFFICES ASSUME IData, InStep, [ContextNext]_contextVars PROVE InStep'
  OBVIOUS
<1>1. ASSUME NEW atOnce \in BOOLEAN, Trigger(atOnce) PROVE InStep'
  BY <1>1, OrderedEditor DEF Trigger, InStep, past
<1>2. CASE CursorMoves
  BY <1>2, OrderedEditor DEF CursorMoves, InStep, past
<1>3. CASE CursorTimerFires
  <2>1. PICK c : c \in Context
    BY DEF IData, TypeData
  <2> QED BY <1>3, <2>1, OrderedEditor DEF CursorTimerFires, InStep, past
<1>4. CASE SilentChange
  BY <1>4, OrderedEditor DEF SilentChange, InStep, past
<1>5. CASE BuildEnds
  <2>1. PICK b \in builds :
          /\ builds' = builds \ {b} /\ PushContext(Built(b), b.atOnce)
          /\ UNCHANGED <<history, network>> /\ Records(Overtakes(b, builds))
    BY <1>5 DEF BuildEnds, Built
  <2>2. ~Overtakes(b, builds) /\ ~overtaken => Ordered'
    BY <2>1, OrderedBuildEnds DEF InStep
  <2> QED BY <2>1, <2>2, InStepRecords DEF Overtakes
<1>6. CASE FlushTimerFires \/ Dispose
  <2>1. pendingContext \in Moments
    BY DEF IData, TypeData
  <2>2. ASSUME Ordered PROVE Ordered'
    <3>1. pendingContext # Nothing => Newest(pendingContext, builds)
      BY <2>2 DEF Ordered, Newest
    <3> QED BY <1>6, <2>1, <2>2, <3>1, OrderedFlush DEF FlushTimerFires, Dispose
  <2> QED BY <1>6, <2>2 DEF FlushTimerFires, Dispose, InStep, past
<1>7. CASE BuildFails \/ CallFails
  <2>1. ASSUME Ordered PROVE Ordered'
    BY <1>7, <2>1, OrderedFewer DEF BuildFails, CallFails, network
  <2> QED BY <1>7, <2>1, InStepRecords DEF BuildFails, CallFails, InStep
<1>8. CASE CallArrives \/ AnswerLost
  <2>1. PICK c \in calls : /\ calls' \in {calls, calls \ {c}} /\ server' = c.context
                           /\ UNCHANGED <<builds, bridge>> /\ Records(Overtakes(c, calls))
    BY <1>8 DEF CallArrives, AnswerLost, Shows
  <2>2. ~Overtakes(c, calls) /\ ~overtaken => Ordered'
    BY <2>1, OrderedCall DEF InStep
  <2> QED BY <2>1, <2>2, InStepRecords DEF Overtakes
<1>9. CASE UNCHANGED contextVars
  BY <1>9 DEF contextVars, bridge, network, past, InStep, Ordered, Before
<1> QED BY <1>1, <1>2, <1>3, <1>4, <1>5, <1>6, <1>7, <1>8, <1>9 DEF ContextNext

\* In every order of builds and calls, what the server is shown refines
\* LatestValue: it is never ahead of the editor, and goes back only after a build
\* or a call was overtaken by a later one.
THEOREM Forward == ContextSpec => ServerMovesForward
<1>1. ContextInit => IData /\ TypeFlags /\ InStep /\ LatestPushed!Init
  <2>1. ASSUME ContextInit PROVE InStep /\ LatestPushed!Init
    BY <2>1 DEF ContextInit, InStep, Ordered, LatestPushed!Init, Now, Nothing
  <2> QED BY <2>1, DataInit
<1>2. ASSUME IData, InStep, [ContextNext]_contextVars
      PROVE  [LatestPushed!Advance \/ LatestPushed!Follow]_<<Now, server>>
  <2>1. CASE UNCHANGED <<history, server>>
    BY <2>1 DEF Now
  <2>2. CASE UNCHANGED server /\ \E c \in Context : Becomes(c)
    BY <1>2, <2>2, BecomesType DEF LatestPushed!Advance, Now, IData
  <2>3. CASE CallArrives \/ AnswerLost
    <3>1. PICK c \in calls : /\ calls' \in {calls, calls \ {c}} /\ server' = c.context
                             /\ UNCHANGED <<builds, bridge, history>>
                             /\ Records(Overtakes(c, calls))
      BY <2>3 DEF CallArrives, AnswerLost, Shows
    <3>2. server' \in [Part -> 0..Now]
      <4>1. IData' BY <1>2, DataStep
      <4> QED BY <3>1, <4>1 DEF IData, TypeData, Moments, Now
    <3>3. CASE ~overtaken /\ ~Overtakes(c, calls)
      BY <1>2, <3>1, <3>2, <3>3, OrderedCall DEF InStep, LatestPushed!Follow, Before, Now
    <3>4. CASE overtaken
      BY <3>1, <3>2, <3>4 DEF LatestPushed!Follow, Now
    <3>5. CASE Overtakes(c, calls)
      <4>1. calls' # {}
        BY <1>2, <3>1, <3>5 DEF Overtakes, IData, TypeQueues, Call
      <4> QED BY <3>1, <3>2, <3>5, <4>1 DEF LatestPushed!Follow, Records, Now
    <3> QED BY <3>3, <3>4, <3>5
  <2>4. ASSUME NEW atOnce \in BOOLEAN, Trigger(atOnce)
        PROVE  UNCHANGED server /\ \E c \in Context : Becomes(c)
    BY <2>4 DEF Trigger, network
  <2> QED BY <1>2, <2>1, <2>2, <2>3, <2>4 DEF ContextNext, CursorMoves,
          CursorTimerFires, SilentChange, BuildEnds, BuildFails, FlushTimerFires,
          Dispose, CallFails, network, contextVars
<1>3. IData /\ InStep /\ [ContextNext]_contextVars => (IData /\ InStep)'
  BY DataStep, InStepStep
<1> QED BY <1>1, <1>2, <1>3, PTL DEF ContextSpec, ServerMovesForward, LatestPushed!Spec

-----------------------------------------------------------------------------
(* The server follows what was pushed.                                        *)

PushedReached == pushed # Nothing => pushed \in [Part -> 1..Now]

\* The context that waits differs from the one sent last.
PendingDiffers == pendingContext # Nothing => HashOf(pendingContext) # lastContextHash

\* The context pushed last waits or was sent last, unless it was taken for a
\* repetition while another one waited.
PushedNext ==
  pushed # Nothing /\ ~shadowed =>
    HashOf(pushed) = IF pendingContext = Nothing THEN lastContextHash
                     ELSE HashOf(pendingContext)

\* The newest call carries the context sent last, and leaves it with the server.
Delivered ==
  /\ sends = 0 => lastContextHash = NoHash
  /\ \A c \in calls : c.id = sends => HashOf(c.context) = lastContextHash
  /\ sends # 0 /\ arrived = sends =>
       server \in [Part -> 1..Now] /\ HashOf(server) = lastContextHash

Follows == PushedReached /\ PendingDiffers /\ PushedNext /\ Delivered

LEMMA NowType ==
  ASSUME TypeData PROVE Now \in Nat /\ 1 <= Now /\ history[Now] \in Context
BY DEF TypeData, Now

\* The history keeps its moments.
LEMMA MomentsKept ==
  ASSUME TypeData, NEW c \in Context, Becomes(c) \/ UNCHANGED history
  PROVE  Now' \in {Now, Now + 1} /\ \A n \in 1..Now : history'[n] = history[n]
<1>1. CASE UNCHANGED history
  BY <1>1, NowType DEF Now
<1>2. CASE history' = Append(history, c)
  BY <1>2 DEF TypeData, Now
<1> QED BY <1>1, <1>2 DEF Becomes

\* Snapshots keep their contents.
LEMMA HashKept ==
  ASSUME TypeData, NEW c \in Context, Becomes(c) \/ UNCHANGED history,
         NEW s \in [Part -> 1..Now]
  PROVE  HashOf(s)' = HashOf(s) /\ s \in [Part -> 1..Now']
<1>1. /\ s["editor"] \in 1..Now /\ s["results"] \in 1..Now /\ Now \in Nat
      /\ 1..Now \subseteq 1..Now'
  BY MomentsKept, NowType DEF Part
<1>2. /\ history'[s["editor"]] = history[s["editor"]]
      /\ history'[s["results"]] = history[s["results"]]
  BY <1>1, MomentsKept
<1> QED BY <1>1, <1>2 DEF HashOf

\* The editor moves on: what was pushed, waits and was sent stays.
LEMMA FollowsEditor ==
  ASSUME IData, Follows, NEW c \in Context, Becomes(c) \/ UNCHANGED history,
         UNCHANGED <<bridge, calls, network, past>>
  PROVE  Follows'
<1> USE DEF bridge, network, past
<1>1. TypeData /\ \A s \in [Part -> 1..Now] : HashOf(s)' = HashOf(s) /\ s \in [Part -> 1..Now']
  BY HashKept DEF IData
<1>2. PushedReached' /\ PendingDiffers' /\ PushedNext'
  <2>1. pushed # Nothing => HashOf(pushed)' = HashOf(pushed) /\ pushed' \in [Part -> 1..Now']
    BY <1>1 DEF Follows, PushedReached, HashOf
  <2>2. pendingContext # Nothing => HashOf(pendingContext)' = HashOf(pendingContext)
    BY <1>1 DEF IData, PendingReached, HashOf
  <2> QED BY <2>1, <2>2 DEF Follows, PushedReached, PendingDiffers, PushedNext, Nothing
<1>3. Delivered'
  <2>1. \A d \in calls : HashOf(d.context)' = HashOf(d.context)
    BY <1>1 DEF IData, TypeQueues
  <2>2. server \in [Part -> 1..Now] =>
          HashOf(server)' = HashOf(server) /\ server' \in [Part -> 1..Now']
    BY <1>1 DEF HashOf
  <2> QED BY <2>1, <2>2 DEF Follows, Delivered
<1> QED BY <1>2, <1>3 DEF Follows

\* A flush leaves nothing waiting; what it sends becomes the newest call.
LEMMA FollowsFlush ==
  ASSUME IData, Delivered, NEW s, s # Nothing => HashOf(s) # lastContextHash, Flush(s),
         UNCHANGED <<history, network, arrived>>
  PROVE  /\ Delivered' /\ pendingContext' = Nothing
         /\ lastContextHash' = IF s = Nothing THEN lastContextHash ELSE HashOf(s)
<1> USE DEF Flush, network
<1>1. CASE s = Nothing
  <2>1. UNCHANGED <<lastContextHash, sends, calls>>
    BY <1>1 DEF Sendable
  <2> QED BY <1>1, <2>1 DEF Delivered, HashOf, Now
<1>2. CASE s # Nothing
  <2> DEFINE new == [id |-> sends', context |-> s]
  <2>1. lastContextHash' = HashOf(s) /\ sends' = sends + 1 /\ calls' = calls \cup {new}
    BY <1>2 DEF Sendable
  <2>2. \A c \in calls : c.id # sends'
    BY <2>1 DEF IData, TypeData, TypeQueues, Call
  <2>3. sends' # 0 /\ arrived' # sends'
    BY <2>1 DEF IData, TypeData
  <2>4. HashOf(s)' = lastContextHash'
    BY <2>1 DEF HashOf
  <2> QED BY <1>2, <2>1, <2>2, <2>3, <2>4 DEF Delivered
<1> QED BY <1>1, <1>2

\* The build that ends: its snapshot is sent, waits, or was sent before.
LEMMA FollowsBuildEnds ==
  ASSUME IData, Follows, BuildEnds PROVE Follows'
<1>1. PICK b \in builds, s \in [Part -> 1..Now] :
        /\ PushContext(s, b.atOnce) /\ pushed' = s
        /\ shadowed' = (HashOf(s) = lastContextHash /\ pendingContext # Nothing)
        /\ UNCHANGED <<history, network, arrived>>
  BY BuiltType DEF BuildEnds, Built
<1>2. s \in [Part -> 1..Now] /\ s # Nothing
  BY DEF Nothing, Part
<1>3. /\ pushed' = s /\ shadowed' = (HashOf(s) = lastContextHash /\ pendingContext # Nothing)
      /\ PushContext(s, b.atOnce) /\ UNCHANGED <<history, network, arrived>>
  BY <1>1
<1>4. /\ PushedReached' /\ HashOf(s)' = HashOf(s) /\ HashOf(pushed)' = HashOf(s)
      /\ pushed' # Nothing'
  BY <1>2, <1>3 DEF PushedReached, HashOf, Now, Nothing
<1>5. CASE HashOf(s) = lastContextHash /\ UNCHANGED <<bridge, calls>>
  <2>1. PendingDiffers' /\ Delivered'
    BY <1>3, <1>5 DEF Follows, PendingDiffers, Delivered, HashOf, Now, Nothing, bridge, network
  <2> QED BY <1>3, <1>4, <1>5, <2>1 DEF Follows, PushedNext, bridge
<1>6. CASE HashOf(s) # lastContextHash /\ Flush(s)
  <2>1. /\ Delivered' /\ pendingContext' = Nothing /\ lastContextHash' = HashOf(s)
    BY <1>2, <1>3, <1>6, FollowsFlush DEF Follows
  <2> QED BY <1>4, <2>1 DEF Follows, PendingDiffers, PushedNext, Nothing
<1>7. CASE /\ HashOf(s) # lastContextHash /\ pendingContext' = s
           /\ UNCHANGED <<lastContextHash, sends, calls>>
  <2>1. HashOf(pendingContext)' = HashOf(s)
    BY <1>3, <1>7 DEF HashOf
  <2>2. Delivered'
    BY <1>3, <1>7 DEF Follows, Delivered, HashOf, Now, network
  <2> QED BY <1>2, <1>4, <1>7, <2>1, <2>2 DEF Follows, PendingDiffers, PushedNext
<1> QED BY <1>3, <1>5, <1>6, <1>7 DEF PushContext

LEMMA FollowsTimer ==
  ASSUME IData, Follows, FlushTimerFires \/ Dispose PROVE Follows'
<1>1. Flush(pendingContext) /\ UNCHANGED <<history, network, past>>
  BY DEF FlushTimerFires, Dispose
<1>2. /\ Delivered' /\ pendingContext' = Nothing
      /\ lastContextHash' = IF pendingContext = Nothing THEN lastContextHash
                            ELSE HashOf(pendingContext)
  BY <1>1, FollowsFlush DEF Follows, PendingDiffers, past
<1>3. HashOf(pushed)' = HashOf(pushed) /\ Now' = Now
  BY <1>1 DEF HashOf, Now, past
<1> QED BY <1>1, <1>2, <1>3
        DEF Follows, PushedReached, PendingDiffers, PushedNext, Nothing, past

LEMMA FollowsCall ==
  ASSUME IData, Follows, BuildFails \/ CallFails \/ CallArrives \/ AnswerLost
  PROVE  Follows'
<1>1. /\ UNCHANGED <<history, bridge, pushed, shadowed>> /\ calls' \subseteq calls
      /\ \/ UNCHANGED <<server, arrived>>
         \/ \E c \in calls : server' = c.context /\ arrived' = c.id
  BY DEF BuildFails, CallFails, CallArrives, AnswerLost, Shows, network
<1>2. PushedReached' /\ PendingDiffers' /\ PushedNext'
  BY <1>1 DEF Follows, PushedReached, PendingDiffers, PushedNext, HashOf, Now, Nothing, bridge
<1>3. Delivered'
  <2>1. \A c \in calls : c.context \in [Part -> 1..Now]
    BY DEF IData, TypeQueues
  <2> QED BY <1>1, <2>1 DEF Follows, Delivered, HashOf, Now, bridge
<1> QED BY <1>2, <1>3 DEF Follows

LEMMA FollowsStep == IData /\ Follows /\ [ContextNext]_contextVars => Follows'
<1> SUFFICES ASSUME IData, Follows, [ContextNext]_contextVars PROVE Follows'
  OBVIOUS
<1>1. CASE (\E atOnce \in BOOLEAN : Trigger(atOnce)) \/ CursorMoves \/ SilentChange
  BY <1>1, FollowsEditor DEF Trigger, CursorMoves, SilentChange
<1>2. CASE CursorTimerFires
  <2>1. PICK c : c \in Context
    BY NowType DEF IData
  <2> QED BY <1>2, <2>1, FollowsEditor DEF CursorTimerFires
<1>3. CASE BuildEnds
  BY <1>3, FollowsBuildEnds
<1>4. CASE FlushTimerFires \/ Dispose
  BY <1>4, FollowsTimer
<1>5. CASE BuildFails \/ CallFails \/ CallArrives \/ AnswerLost
  BY <1>5, FollowsCall
<1>6. CASE UNCHANGED contextVars
  BY <1>6 DEF contextVars, bridge, network, past, Follows, PushedReached, PendingDiffers,
     PushedNext, Delivered, HashOf, Now, Nothing
<1> QED BY <1>1, <1>2, <1>3, <1>4, <1>5, <1>6 DEF ContextNext

\* In every order of builds and calls, whatever fails or is repeated: once
\* everything has settled the server holds the context pushed last, unless its
\* call was not the last to arrive or the push was taken for a repetition while
\* another context waited.
THEOREM ServerFollowsAlways == ContextSpec => []ServerFollows
<1>1. ContextInit => Follows
  BY DEF ContextInit, Follows, PushedReached, PendingDiffers, PushedNext, Delivered
<1>2. IData /\ PendingHasTimer /\ Follows => ServerFollows
  <2> SUFFICES ASSUME IData, PendingHasTimer, Follows,
                      AtRest, pushed # Nothing, arrived = sends, ~shadowed
               PROVE  server # Nothing /\ HashOf(server) = HashOf(pushed)
    BY DEF ServerFollows
  <2>1. lastContextHash = HashOf(pushed)
    BY DEF AtRest, PendingHasTimer, Follows, PushedNext
  <2>2. HashOf(pushed) \in Context
    BY HashType DEF IData, Follows, PushedReached
  <2>3. server \in [Part -> 1..Now] /\ HashOf(server) = lastContextHash
    BY <2>1, <2>2, HashAssumption DEF Follows, Delivered
  <2>4. server["editor"] # 0
    BY <2>3 DEF Part
  <2> QED BY <2>1, <2>3, <2>4 DEF Nothing, Part
<1> QED BY <1>1, <1>2, FollowsStep, DataInit, DataStep, PendingHasTimerAlways, PTL
        DEF ContextSpec

=============================================================================
