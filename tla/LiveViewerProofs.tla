--------------------------- MODULE LiveViewerProofs ---------------------------
(* Invariants of LiveViewer for every set of panels, every setting and every  *)
(* bound.                                                                     *)
EXTENDS LiveViewer, TLAPS

\* The retry count kept across the await of the retry branch leaves room for
\* one more: what keeps settleRetries within its limit.
RetryRoom == refresh.at = "settleRetry" => refresh.stat < SettleRetryLimit

\* The types that involve numbers, sets and records; TypeFlags, about Booleans
\* only, is preserved by itself.
DataOK == TypeWindows /\ TypeProvider /\ TypeTasks /\ TypeWorld /\ RetryRoom

-----------------------------------------------------------------------------
LEMMA RecordTypes ==
  /\ Idle \in RefreshRecord /\ Idle.at = "idle"
  /\ NoOpen \in OpenRecord
  /\ NoFocus \in FocusRecord
<1>1. Idle \in RefreshRecord BY DEF RefreshRecord, Idle, FsWaits, Answer
<1>2. NoOpen \in OpenRecord BY DEF OpenRecord, NoOpen, Answer
<1>3. NoFocus \in FocusRecord BY DEF FocusRecord, NoFocus, Answer
<1> QED BY <1>1, <1>2, <1>3 DEF Idle

\* refreshDocument starts a well-typed refresh, or none.
LEMMA StartType ==
  ASSUME NEW seen, TypeTasks, TypeProvider, TypeFlags, RetryRoom,
         RefreshDocument(seen)
  PROVE  refresh' \in RefreshRecord /\ RetryRoom'
<1>1. CASE UNCHANGED refresh
  BY <1>1 DEF TypeTasks, RetryRoom
<1>2. CASE refresh' = [Idle EXCEPT
                         !.at = IF pendingExternal THEN "settleBefore" ELSE "stat",
                         !.external = pendingExternal,
                         !.revision = changeRevision]
  BY <1>2, RecordTypes DEF TypeFlags, TypeProvider, RefreshRecord, FsWaits,
     Idle, RetryRoom
<1> QED BY <1>1, <1>2 DEF RefreshDocument

LEMMA DataInit == Init => DataOK /\ TypeFlags
<1> SUFFICES ASSUME Init PROVE DataOK /\ TypeFlags
  OBVIOUS
<1>1. TypeWindows BY DEF Init, TypeWindows
<1>2. fileCache \in [stat : Nat, body : Nat] BY DEF Init, NoCache
<1>3. TypeProvider BY <1>2, BoundAssumption DEF Init, TypeProvider
<1>4. TypeTasks BY RecordTypes DEF Init, TypeTasks
<1>5. TypeWorld BY DEF Init, TypeWorld
<1>6. RetryRoom BY DEF Init, RetryRoom, Idle
<1>7. TypeFlags BY DEF Init, TypeFlags
<1> QED BY <1>1, <1>3, <1>4, <1>5, <1>6, <1>7 DEF DataOK

-----------------------------------------------------------------------------
\* The Booleans stay Booleans.
LEMMA FlagsStep == TypeFlags /\ [Next]_vars => TypeFlags'
<1> SUFFICES ASSUME TypeFlags, [Next]_vars PROVE TypeFlags'
  OBVIOUS
<1> USE DEF TypeFlags, provider, windows, tasks, world
<1>1. CASE World
  BY <1>1 DEF World, ExternalWrite, LoseNotification, EditorEdit,
     EditorDiscard, EditorSave
<1>2. CASE User
  <2>1. PICK p \in Panel : \/ OpenPanel(p) \/ ClosePanel(p) \/ HidePanel(p)
                           \/ ShowPanel(p) \/ RequestRefresh(p)
    BY <1>2 DEF User
  <2> QED BY <2>1 DEF OpenPanel, ClosePanel, HidePanel, ShowPanel, RequestRefresh
<1>3. CASE FileSystem
  BY <1>3 DEF FileSystem, FsAnswerRefresh, FsAnswerOpening, FsAnswerFocus
<1>4. CASE RefreshStep
  <2> USE DEF EndRefresh, FailRefresh
  <2>1. CASE SettleBefore BY <2>1 DEF SettleBefore, Unstable
  <2>2. CASE SettleAfter BY <2>2 DEF SettleAfter, Unstable
  <2>3. CASE SettleRetry BY <2>3 DEF SettleRetry
  <2>4. CASE Compare BY <2>4 DEF Compare
  <2>5. CASE BuildStat BY <2>5 DEF BuildStat
  <2>6. CASE BuildRead BY <2>6 DEF BuildRead
  <2>7. CASE Validate BY <2>7 DEF Validate, ReadAgain, Withhold, Publish
  <2>8. CASE Published BY <2>8 DEF Published
  <2>9. CASE \E p \in Panel : PostNext(p) BY <2>9 DEF PostNext
  <2> QED BY <1>4, <2>1, <2>2, <2>3, <2>4, <2>5, <2>6, <2>7, <2>8, <2>9
          DEF RefreshStep
<1>5. CASE PanelStep
  <2>1. PICK p \in Panel : FocusChecked(p) \/ OpenStat(p) \/ OpenRead(p)
    BY <1>5 DEF PanelStep
  <2> QED BY <2>1 DEF FocusChecked, ExternalFileChanged, OpenStat, OpenRead
<1>6. CASE EventStep
  BY <1>6 DEF EventStep, WatcherEvent, ExternalFileChanged, SaveHook, DebounceFires
<1>7. CASE \E p \in Panel : ReleaseCache(p)
  BY <1>7 DEF ReleaseCache
<1>8. CASE UNCHANGED vars
  BY <1>8 DEF vars
<1> QED BY <1>1, <1>2, <1>3, <1>4, <1>5, <1>6, <1>7, <1>8 DEF Next

-----------------------------------------------------------------------------
\* The other types, one lemma per group of actions.
LEMMA DataWorld == DataOK /\ World => DataOK'
<1> SUFFICES ASSUME DataOK, World PROVE DataOK'
  OBVIOUS
<1> USE DEF DataOK, TypeWorld, World, ExternalWrite, LoseNotification,
        EditorEdit, EditorDiscard, EditorSave, UserMove
<1>1. UNCHANGED <<provider, windows, tasks>>
  OBVIOUS
<1>2. (TypeWindows /\ TypeProvider /\ TypeTasks /\ RetryRoom)'
  BY <1>1 DEF TypeWindows, TypeProvider, TypeTasks, RetryRoom, provider,
     windows, tasks
<1>3. CASE ExternalWrite
  <2>1. writes' \in Nat /\ moves' \in Nat
    BY <1>3
  <2>2. torn' \subseteq Nat
    BY <1>3, <2>1
  <2>3. disk' \in {0, writes'}
    BY <1>3
  <2> QED BY <1>2, <2>1, <2>2, <2>3
<1>4. CASE LoseNotification BY <1>2, <1>4
<1>5. CASE EditorEdit BY <1>2, <1>5
<1>6. CASE EditorDiscard BY <1>2, <1>6
<1>7. CASE EditorSave BY <1>2, <1>7
<1> QED BY <1>3, <1>4, <1>5, <1>6, <1>7

LEMMA DataUser ==
  ASSUME DataOK, TypeFlags, NEW p \in Panel
  PROVE  /\ OpenPanel(p) => DataOK'
         /\ ClosePanel(p) => DataOK'
         /\ HidePanel(p) => DataOK'
         /\ ShowPanel(p) => DataOK'
         /\ RequestRefresh(p) => DataOK'
<1> USE DEF DataOK, TypeWindows, TypeProvider, TypeWorld, UserMove, provider, tasks
<1>1. ASSUME OpenPanel(p) PROVE DataOK'
  BY <1>1 DEF OpenPanel, TypeTasks, OpenRecord, RetryRoom
<1>2. ASSUME ClosePanel(p) PROVE DataOK'
  BY <1>2, BoundAssumption DEF ClosePanel, NoCache, TypeTasks, RetryRoom
<1>3. ASSUME HidePanel(p) PROVE DataOK'
  BY <1>3 DEF HidePanel, TypeTasks, RetryRoom
<1>4. ASSUME ShowPanel(p) PROVE DataOK'
  <2>1. refresh' \in RefreshRecord /\ RetryRoom'
    BY <1>4, StartType DEF ShowPanel, TypeTasks, RetryRoom
  <2>2. focus' \in [Panel -> FocusRecord]
    <3>1. [NoFocus EXCEPT !.on = TRUE, !.rendered = lastRendered] \in FocusRecord
      BY DEF NoFocus, FocusRecord, Answer
    <3> QED BY <1>4, <3>1 DEF ShowPanel, TypeTasks
  <2>3. TypeTasks'
    BY <1>4, <2>1, <2>2 DEF ShowPanel, TypeTasks
  <2>4. (TypeWindows /\ TypeProvider /\ TypeWorld)'
    BY <1>4 DEF ShowPanel
  <2> QED BY <2>1, <2>3, <2>4
<1>5. ASSUME RequestRefresh(p) PROVE DataOK'
  <2>1. refresh' \in RefreshRecord /\ RetryRoom'
    BY <1>5, StartType DEF RequestRefresh
  <2> QED BY <1>5, <2>1 DEF RequestRefresh, TypeTasks, NoCache, windows
<1> QED BY <1>1, <1>2, <1>3, <1>4, <1>5

LEMMA DataFileSystem == DataOK /\ FileSystem => DataOK'
<1> SUFFICES ASSUME DataOK, FileSystem PROVE DataOK'
  OBVIOUS
<1> USE DEF DataOK, TypeTasks, Answer, provider, windows, world
<1>1. UNCHANGED <<provider, windows, world>>
  BY DEF FileSystem, FsAnswerRefresh, FsAnswerOpening, FsAnswerFocus
<1>2. disk \in Answer
  BY DEF TypeWorld
<1>3. TypeTasks' /\ RetryRoom'
  <2>1. CASE FsAnswerRefresh
    BY <2>1, <1>2 DEF FsAnswerRefresh, RefreshRecord, RetryRoom
  <2>2. ASSUME NEW p \in Panel, FsAnswerOpening(p) PROVE TypeTasks' /\ RetryRoom'
    BY <2>2, <1>2 DEF FsAnswerOpening, OpenRecord, RetryRoom
  <2>3. ASSUME NEW p \in Panel, FsAnswerFocus(p) PROVE TypeTasks' /\ RetryRoom'
    BY <2>3, <1>2 DEF FsAnswerFocus, FocusRecord, RetryRoom
  <2> QED BY <2>1, <2>2, <2>3 DEF FileSystem
<1>4. (TypeWindows /\ TypeProvider /\ TypeWorld)'
  BY <1>1 DEF TypeWindows, TypeProvider, TypeWorld
<1> QED BY <1>3, <1>4

LEMMA DataPanel ==
  ASSUME DataOK, NEW p \in Panel
  PROVE  /\ FocusChecked(p) => DataOK'
         /\ OpenStat(p) => DataOK'
         /\ OpenRead(p) => DataOK'
         /\ ReleaseCache(p) => DataOK'
<1> USE RecordTypes DEF DataOK, TypeWindows, TypeProvider, TypeTasks, TypeWorld,
        RetryRoom, windows, world, tasks
<1>1. ASSUME FocusChecked(p) PROVE DataOK'
  BY <1>1, BoundAssumption DEF FocusChecked, ExternalFileChanged
<1>2. ASSUME OpenStat(p) PROVE DataOK'
  <2>1. opening[p].ans \in Nat
    BY <1>2 DEF OpenStat, OpenRecord, Answer
  <2>2. opening' \in [Panel -> OpenRecord]
    BY <1>2, <2>1 DEF OpenStat, OpenFails, SetHtml, OpenRecord, Answer
  <2>3. shown' \in [Panel -> Nat] /\ lastRendered' \in Nat /\ UNCHANGED fileCache
    BY <1>2 DEF OpenStat, OpenFails, SetHtml
  <2> QED BY <1>2, <2>2, <2>3 DEF OpenStat
<1>3. ASSUME OpenRead(p) PROVE DataOK'
  <2>1. opening[p].ans \in Nat /\ opening[p].stat \in Nat
    BY <1>3 DEF OpenRead, OpenRecord, Answer
  <2>2. opening' \in [Panel -> OpenRecord]
    BY <1>3 DEF OpenRead, OpenFails, SetHtml
  <2>3. fileCache' \in [stat : Nat, body : Nat]
    BY <1>3, <2>1 DEF OpenRead, OpenFails
  <2>4. shown' \in [Panel -> Nat] /\ lastRendered' \in Nat
    BY <1>3, <2>3 DEF OpenRead, OpenFails, SetHtml
  <2> QED BY <1>3, <2>2, <2>3, <2>4 DEF OpenRead
<1>4. ASSUME ReleaseCache(p) PROVE DataOK'
  BY <1>4 DEF ReleaseCache, NoCache
<1> QED BY <1>1, <1>2, <1>3, <1>4

LEMMA DataEvent == DataOK /\ TypeFlags /\ EventStep => DataOK'
<1> SUFFICES ASSUME DataOK, TypeFlags, EventStep PROVE DataOK'
  OBVIOUS
<1> USE DEF DataOK, TypeWindows, TypeProvider, TypeTasks, TypeWorld, windows,
        tasks, world
<1>1. CASE WatcherEvent
  BY <1>1, BoundAssumption DEF WatcherEvent, ExternalFileChanged, RetryRoom
<1>2. CASE SaveHook
  BY <1>2 DEF SaveHook, NoCache, RetryRoom
<1>3. CASE DebounceFires
  <2>1. refresh' \in RefreshRecord /\ RetryRoom'
    BY <1>3, StartType DEF DebounceFires
  <2> QED BY <1>3, <2>1 DEF DebounceFires
<1> QED BY <1>1, <1>2, <1>3 DEF EventStep

\* A refresh that fails ends.
LEMMA DataFail == DataOK /\ FailRefresh => DataOK'
<1> SUFFICES ASSUME DataOK, FailRefresh PROVE DataOK'
  OBVIOUS
<1>1. refresh' \in RefreshRecord /\ RetryRoom'
  BY RecordTypes DEF FailRefresh, EndRefresh, RetryRoom
<1>2. fileCache' \in [stat : Nat, body : Nat]
  BY DEF FailRefresh, NoCache, DataOK, TypeProvider
<1> QED BY <1>1, <1>2 DEF FailRefresh, DataOK, TypeWindows, TypeProvider,
        TypeTasks, TypeWorld, windows, world

LEMMA DataSettle ==
  ASSUME DataOK, SettleBefore \/ SettleAfter \/ SettleRetry \/ Published
  PROVE  DataOK'
<1> USE DEF DataOK, TypeProvider
<1>1. ASSUME refresh' \in RefreshRecord, RetryRoom' PROVE TypeTasks'
  BY <1>1 DEF TypeTasks, SettleBefore, SettleAfter, SettleRetry, Published
<1>2. (TypeWindows /\ TypeWorld)'
  BY DEF TypeWindows, TypeWorld, windows, world, SettleBefore, SettleAfter,
     SettleRetry, Published
<1>3. refresh \in RefreshRecord /\ refresh.ans \in Answer /\ refresh.stat \in Nat
  BY DEF TypeTasks, RefreshRecord
<1>4. ASSUME Unstable PROVE refresh' \in RefreshRecord /\ RetryRoom'
  <2>1. CASE settleRetries < SettleRetryLimit
    <3>1. settleRetries \in Nat
      BY BoundAssumption
    <3> QED BY <1>3, <1>4, <2>1, <3>1
            DEF Unstable, RefreshRecord, FsWaits, Answer, RetryRoom
  <2>2. CASE ~(settleRetries < SettleRetryLimit)
    BY <1>4, <2>2, RecordTypes DEF Unstable, EndRefresh, RetryRoom
  <2> QED BY <2>1, <2>2
<1>5. CASE SettleBefore
  <2>1. refresh' \in RefreshRecord /\ RetryRoom'
    <3>1. CASE refresh.ans = 0
      BY <1>4, <1>5, <3>1 DEF SettleBefore
    <3>2. CASE refresh.ans # 0
      BY <1>3, <1>5, <3>2 DEF SettleBefore, Answered, RefreshRecord, FsWaits,
         Answer, RetryRoom
    <3> QED BY <3>1, <3>2
  <2> QED BY <1>1, <1>2, <1>5, <2>1 DEF SettleBefore, windows
<1>6. CASE SettleAfter
  <2>1. refresh' \in RefreshRecord /\ RetryRoom'
    <3>1. CASE refresh.ans # refresh.stat
      BY <1>4, <1>6, <3>1 DEF SettleAfter
    <3>2. CASE refresh.ans = refresh.stat
      BY <1>3, <1>6, <3>2 DEF SettleAfter, RefreshRecord, FsWaits, Answer,
         RetryRoom
    <3> QED BY <3>1, <3>2
  <2> QED BY <1>1, <1>2, <1>6, <2>1, BoundAssumption DEF SettleAfter, windows
<1>7. CASE SettleRetry
  <2>1. refresh' \in RefreshRecord /\ RetryRoom'
    BY <1>7, RecordTypes DEF SettleRetry, EndRefresh, RetryRoom
  <2>2. settleRetries' \in 0..SettleRetryLimit
    BY <1>3, <1>7, BoundAssumption DEF SettleRetry, Answered, RetryRoom
  <2> QED BY <1>1, <1>2, <1>7, <2>1, <2>2 DEF SettleRetry, windows
<1>8. CASE Published
  <2>1. refresh' \in RefreshRecord /\ RetryRoom'
    BY <1>8, RecordTypes DEF Published, EndRefresh, RetryRoom
  <2> QED BY <1>1, <1>2, <1>3, <1>8, <2>1 DEF Published, windows
<1> QED BY <1>5, <1>6, <1>7, <1>8

LEMMA DataBuild ==
  ASSUME DataOK, Compare \/ BuildStat \/ BuildRead
  PROVE  DataOK'
<1> USE DEF DataOK, TypeProvider
<1>1. refresh \in RefreshRecord /\ refresh.ans \in Answer /\ refresh.stat \in Nat
  BY DEF TypeTasks, RefreshRecord
<1>2. ASSUME refresh' \in RefreshRecord, refresh'.at # "settleRetry",
             UNCHANGED <<windows, opening, focus, world>>
      PROVE  (TypeWindows /\ TypeTasks /\ TypeWorld /\ RetryRoom)'
  BY <1>2 DEF TypeWindows, TypeTasks, TypeWorld, RetryRoom, windows, world
<1>3. CASE FailRefresh
  BY <1>3, DataFail
<1>4. CASE ~FailRefresh /\ Compare
  <2>1. refresh' \in RefreshRecord /\ refresh'.at # "settleRetry"
    BY <1>1, <1>4, RecordTypes DEF Compare, EndRefresh, AwaitFs, RefreshRecord,
       FsWaits, Answer
  <2> QED BY <1>2, <1>4, <2>1 DEF Compare, windows
<1>5. CASE ~FailRefresh /\ BuildStat
  <2>1. refresh.ans \in Nat /\ fileCache.stat \in Nat /\ fileCache.body \in Nat
    BY <1>1, <1>5 DEF BuildStat, Answered, Answer
  <2>2. refresh' \in RefreshRecord /\ refresh'.at # "settleRetry"
    <3>1. CASE fileCache.stat = refresh.ans
      BY <1>1, <1>5, <2>1, <3>1 DEF BuildStat, FailRefresh, RefreshRecord,
         FsWaits, Answer
    <3>2. CASE fileCache.stat # refresh.ans
      BY <1>1, <1>5, <2>1, <3>2 DEF BuildStat, FailRefresh, RefreshRecord,
         FsWaits, Answer
    <3> QED BY <3>1, <3>2
  <2> QED BY <1>2, <1>5, <2>2 DEF BuildStat, provider, windows
<1>6. CASE ~FailRefresh /\ BuildRead
  <2>1. refresh.ans \in Nat
    BY <1>1, <1>6 DEF BuildRead, Answered, Answer
  <2>2. refresh' \in RefreshRecord /\ refresh'.at # "settleRetry"
    BY <1>1, <1>6, <2>1 DEF BuildRead, RefreshRecord, FsWaits, Answer
  <2> QED BY <1>1, <1>2, <1>6, <2>1, <2>2 DEF BuildRead, windows
<1> QED BY <1>3, <1>4, <1>5, <1>6

LEMMA DataPublish ==
  ASSUME DataOK, Validate \/ \E p \in Panel : PostNext(p)
  PROVE  DataOK'
<1> USE DEF DataOK, TypeProvider, TypeWindows
<1>1. refresh \in RefreshRecord /\ refresh.body \in Nat
  BY DEF TypeTasks, RefreshRecord
<1>2. ASSUME refresh' \in RefreshRecord, refresh'.at # "settleRetry",
             UNCHANGED <<opening, focus, world>>
      PROVE  (TypeTasks /\ TypeWorld /\ RetryRoom)'
  BY <1>2 DEF TypeTasks, TypeWorld, RetryRoom, world
<1>3. CASE FailRefresh
  BY <1>3, DataFail
<1>4. ASSUME ~FailRefresh, NEW p \in Panel, PostNext(p) PROVE DataOK'
  <2>1. refresh' \in RefreshRecord /\ refresh'.at # "settleRetry"
    BY <1>1, <1>4 DEF PostNext, RefreshRecord
  <2>2. shown' \in [Panel -> Nat]
    BY <1>1, <1>4 DEF PostNext, Display
  <2> QED BY <1>1, <1>2, <1>4, <2>1, <2>2 DEF PostNext, provider
<1>5. CASE ~FailRefresh /\ Validate
  <2>1. UNCHANGED <<opening, focus, world>>
    BY <1>5 DEF Validate
  <2>2. CASE ReadAgain
    <3>1. refresh' \in RefreshRecord /\ refresh'.at # "settleRetry"
      BY <2>2, RecordTypes DEF ReadAgain, EndRefresh
    <3>2. fileCache' \in [stat : Nat, body : Nat]
      BY <2>2 DEF ReadAgain, NoCache
    <3> QED BY <1>2, <1>5, <2>1, <2>2, <3>1, <3>2 DEF Validate, ReadAgain, windows
  <2>3. CASE Withhold
    <3>1. refresh' \in RefreshRecord /\ refresh'.at # "settleRetry"
      BY <2>3, RecordTypes DEF Withhold, EndRefresh
    <3> QED BY <1>2, <1>5, <2>1, <2>3, <3>1 DEF Validate, Withhold, windows
  <2>4. CASE Publish
    <3>1. refresh' \in RefreshRecord /\ refresh'.at # "settleRetry"
      <4>1. PICK p \in visible : refresh' = [refresh EXCEPT !.at = "posting",
                                               !.todo = visible \ {p}]
        BY <2>4 DEF Publish
      <4>2. visible \ {p} \in SUBSET Panel
        OBVIOUS
      <4> QED BY <1>1, <4>1, <4>2 DEF RefreshRecord
    <3>2. shown' \in [Panel -> Nat]
      BY <1>1, <2>4 DEF Publish, Display
    <3> QED BY <1>2, <1>5, <2>1, <2>4, <3>1, <3>2 DEF Validate, Publish
  <2> QED BY <1>5, <2>2, <2>3, <2>4 DEF Validate
<1> QED BY <1>3, <1>4, <1>5

LEMMA DataStep == DataOK /\ TypeFlags /\ [Next]_vars => DataOK'
<1> SUFFICES ASSUME DataOK, TypeFlags, [Next]_vars PROVE DataOK'
  OBVIOUS
<1>1. CASE UNCHANGED vars
  BY <1>1 DEF DataOK, TypeWindows, TypeProvider, TypeTasks, TypeWorld,
     RetryRoom, vars, provider, windows, tasks, world
<1> QED BY <1>1, DataWorld, DataUser, DataFileSystem, DataSettle, DataBuild,
        DataPublish, DataPanel, DataEvent
        DEF Next, User, RefreshStep, PanelStep

\* In every behaviour the provider's state is well typed and the retries spent
\* on an unstable writer stay within EXTERNAL_SETTLE_RETRY_LIMIT.
THEOREM TypeCorrect == Spec => []TypeOK
<1>1. Init => DataOK /\ TypeFlags
  BY DataInit
<1>2. DataOK /\ TypeFlags /\ [Next]_vars => (DataOK /\ TypeFlags)'
  BY DataStep, FlagsStep
<1>3. DataOK /\ TypeFlags => TypeOK
  BY DEF DataOK, TypeOK
<1> QED BY <1>1, <1>2, <1>3, PTL DEF Spec

-----------------------------------------------------------------------------
(* Posted images and their metadata.  Versions only grow, and each answer of  *)
(* the file system is the newest version or 0, so along one task the answers  *)
(* that are not 0 are ordered; w is the newest version.                       *)

CacheOrder(c, w) == c.stat <= c.body /\ c.body <= w

OpenOrder(o, w) ==
  /\ o.ans <= w
  /\ o.at = "read" => /\ o.stat <= w
                      /\ o.ans \notin {0, Unanswered} => o.stat <= o.ans

RefreshOrder(r, w) ==
  /\ r.ans <= w
  /\ r.at = "read" => /\ r.stat <= w
                      /\ r.ans \notin {0, Unanswered} => r.stat <= r.ans
  /\ r.at = "validate" => /\ r.stat <= r.body /\ r.body <= w
                          /\ r.ans \notin {0, Unanswered} => r.body <= r.ans
  /\ r.at = "posting" => r.body = r.stat

Order == /\ CacheOrder(fileCache, writes)
         /\ \A p \in Panel : OpenOrder(opening[p], writes)
         /\ RefreshOrder(refresh, writes)

\* Orders survive a new version.
LEMMA OrderGrows ==
  ASSUME DataOK, Order, NEW v \in Nat, writes <= v
  PROVE  /\ CacheOrder(fileCache, v)
         /\ \A p \in Panel : OpenOrder(opening[p], v)
         /\ RefreshOrder(refresh, v)
<1>0. writes \in Nat
  BY DEF DataOK, TypeWorld
<1>1. CacheOrder(fileCache, v)
  BY <1>0 DEF Order, CacheOrder, DataOK, TypeProvider
<1>2. ASSUME NEW p \in Panel PROVE OpenOrder(opening[p], v)
  <2>1. opening[p] \in OpenRecord
    BY DEF DataOK, TypeTasks
  <2> QED BY <1>0, <2>1 DEF Order, OpenOrder, OpenRecord, Answer, Unanswered
<1>3. RefreshOrder(refresh, v)
  <2>1. refresh \in RefreshRecord
    BY DEF DataOK, TypeTasks
  <2> QED BY <1>0, <2>1 DEF Order, RefreshOrder, RefreshRecord, Answer, Unanswered
<1> QED BY <1>1, <1>2, <1>3

\* Tasks that are over, or wait for their first answer, are ordered.
LEMMA OrderFresh ==
  ASSUME NEW w \in Nat
  PROVE  /\ RefreshOrder(Idle, w)
         /\ OpenOrder(NoOpen, w)
         /\ CacheOrder(NoCache, w)
         /\ \A r \in RefreshRecord :
              r.at \in {"idle", "settleBefore", "settleAfter", "settleRetry",
                        "compare", "stat"} /\ r.ans = Unanswered
                => RefreshOrder(r, w)
BY DEF RefreshOrder, OpenOrder, CacheOrder, Idle, NoOpen, NoCache, Unanswered

LEMMA OrderStart ==
  ASSUME NEW seen, DataOK, Order, TypeFlags, RefreshDocument(seen)
  PROVE  RefreshOrder(refresh', writes)
<1>1. writes \in Nat /\ refresh' \in RefreshRecord
  BY StartType DEF DataOK, TypeWorld
<1>2. CASE UNCHANGED refresh
  BY <1>2 DEF Order
<1>3. CASE ~UNCHANGED refresh
  <2>1. refresh'.at \in {"settleBefore", "stat"} /\ refresh'.ans = Unanswered
    BY <1>3 DEF RefreshDocument, Idle
  <2> QED BY <1>1, <2>1, OrderFresh
<1> QED BY <1>2, <1>3

LEMMA OrderInit == Init => Order
<1> SUFFICES ASSUME Init PROVE Order
  OBVIOUS
<1>1. writes = 1 /\ refresh = Idle /\ fileCache = NoCache
  BY DEF Init
<1>2. \A p \in Panel : opening[p] = NoOpen
  BY DEF Init
<1> QED BY <1>1, <1>2, OrderFresh DEF Order

\* Steps that leave the tasks and the cache alone.
LEMMA OrderFrame ==
  ASSUME DataOK, DataOK', Order, writes <= writes',
         UNCHANGED <<refresh, opening>>, fileCache' \in {fileCache, NoCache}
  PROVE  Order'
<1>1. writes' \in Nat
  BY DEF DataOK, TypeWorld
<1> QED BY <1>1, OrderGrows, OrderFresh DEF Order

LEMMA OrderOutside ==
  ASSUME DataOK, DataOK', TypeFlags, Order,
         World \/ User \/ EventStep \/ \E p \in Panel : ReleaseCache(p)
  PROVE  Order'
<1>0. writes \in Nat
  BY DEF DataOK, TypeWorld
<1>1. CASE World
  BY <1>0, <1>1, OrderFrame DEF World, ExternalWrite, LoseNotification,
     EditorEdit, EditorDiscard, EditorSave, provider, tasks
<1>2. CASE User
  <2>1. PICK p \in Panel : \/ OpenPanel(p) \/ ClosePanel(p) \/ HidePanel(p)
                           \/ ShowPanel(p) \/ RequestRefresh(p)
    BY <1>2 DEF User
  <2>2. UNCHANGED writes /\ fileCache' \in {fileCache, NoCache}
    BY <2>1 DEF OpenPanel, ClosePanel, HidePanel, ShowPanel, RequestRefresh, provider
  <2>3. CASE OpenPanel(p)
    <3>1. UNCHANGED <<refresh, fileCache>>
      BY <2>3 DEF OpenPanel, provider
    <3>2. OpenOrder([NoOpen EXCEPT !.at = "stat"], writes)
      BY <1>0 DEF OpenOrder, NoOpen, Unanswered
    <3>3. \A q \in Panel : opening'[q] = opening[q]
                             \/ opening'[q] = [NoOpen EXCEPT !.at = "stat"]
      BY <2>3 DEF OpenPanel, DataOK, TypeTasks
    <3> QED BY <2>2, <3>1, <3>2, <3>3 DEF Order
  <2>4. CASE ClosePanel(p) \/ HidePanel(p)
    BY <1>0, <2>2, <2>4, OrderFrame DEF ClosePanel, HidePanel, tasks
  <2>5. CASE ShowPanel(p)
    <3>1. RefreshOrder(refresh', writes)
      BY <2>5, OrderStart DEF ShowPanel, Order
    <3> QED BY <2>2, <2>5, <3>1 DEF ShowPanel, Order
  <2>6. CASE RequestRefresh(p)
    <3>1. RefreshOrder(refresh', writes)
      BY <2>6, OrderStart DEF RequestRefresh
    <3> QED BY <1>0, <2>2, <2>6, <3>1, OrderFresh DEF RequestRefresh, Order
  <2> QED BY <2>1, <2>3, <2>4, <2>5, <2>6
<1>3. CASE EventStep
  <2>1. CASE WatcherEvent \/ SaveHook
    BY <1>0, <2>1, OrderFrame DEF WatcherEvent, SaveHook, tasks
  <2>2. CASE DebounceFires
    <3>1. RefreshOrder(refresh', writes)
      BY <2>2, OrderStart DEF DebounceFires
    <3> QED BY <2>2, <3>1 DEF DebounceFires, Order, world
  <2> QED BY <1>3, <2>1, <2>2 DEF EventStep
<1>4. CASE \E p \in Panel : ReleaseCache(p)
  BY <1>0, <1>4, OrderFrame DEF ReleaseCache, tasks, world
<1> QED BY <1>1, <1>2, <1>3, <1>4

LEMMA OrderFileSystem ==
  ASSUME DataOK, Order, FileSystem
  PROVE  Order'
<1>0. writes \in Nat /\ disk \in {0, writes} /\ UNCHANGED <<fileCache, writes>>
  BY DEF DataOK, TypeWorld, FileSystem, FsAnswerRefresh, FsAnswerOpening,
     FsAnswerFocus, provider, world
<1>1. CASE FsAnswerRefresh
  <2>1. refresh \in RefreshRecord
    BY DEF DataOK, TypeTasks
  <2>2. RefreshOrder(refresh', writes)
    BY <1>0, <1>1, <2>1 DEF FsAnswerRefresh, Order, RefreshOrder, CacheOrder,
       RefreshRecord, FsWaits
  <2> QED BY <1>0, <1>1, <2>2 DEF FsAnswerRefresh, Order
<1>2. ASSUME NEW p \in Panel, FsAnswerOpening(p) PROVE Order'
  <2>1. opening \in [Panel -> OpenRecord]
    BY DEF DataOK, TypeTasks
  <2>2. OpenOrder([opening[p] EXCEPT !.ans = disk], writes)
    BY <1>0, <2>1 DEF Order, OpenOrder, OpenRecord
  <2>3. \A q \in Panel : OpenOrder(opening'[q], writes)
    BY <1>2, <2>1, <2>2 DEF FsAnswerOpening, Order
  <2> QED BY <1>0, <1>2, <2>3 DEF FsAnswerOpening, Order
<1>3. ASSUME NEW p \in Panel, FsAnswerFocus(p) PROVE Order'
  BY <1>0, <1>3 DEF FsAnswerFocus, Order
<1> QED BY <1>1, <1>2, <1>3 DEF FileSystem

\* The end of postFile and its steps.
LEMMA OrderPanel ==
  ASSUME DataOK, Order, PanelStep
  PROVE  Order'
<1>0. writes \in Nat /\ UNCHANGED <<refresh, writes>>
  BY DEF DataOK, TypeWorld, PanelStep, FocusChecked, OpenStat, OpenRead, world
<1>1. opening \in [Panel -> OpenRecord] /\ fileCache \in [stat : Nat, body : Nat]
  BY DEF DataOK, TypeTasks, TypeProvider
<1>2. ASSUME NEW p \in Panel, FocusChecked(p) PROVE Order'
  BY <1>0, <1>2 DEF FocusChecked, Order
<1>3. ASSUME NEW p \in Panel, OpenOrder(opening'[p], writes),
             \E o : opening' = [opening EXCEPT ![p] = o],
             CacheOrder(fileCache', writes)
      PROVE  Order'
  BY <1>0, <1>1, <1>3 DEF Order
<1>4. ASSUME NEW p \in Panel, OpenStat(p) PROVE Order'
  <2>1. opening[p].ans \in Answer /\ opening[p].ans # Unanswered
        /\ opening[p].ans <= writes
    BY <1>1, <1>4 DEF OpenStat, OpenRecord, Order, OpenOrder
  <2>2. UNCHANGED fileCache
    BY <1>4 DEF OpenStat, OpenFails
  <2>3. CASE opening' = [opening EXCEPT ![p] = NoOpen]
    BY <1>0, <1>1, <1>3, <2>2, <2>3, OrderFresh DEF Order
  <2>4. CASE opening' = [opening EXCEPT ![p] = [at |-> "read",
                           stat |-> opening[p].ans, ans |-> Unanswered]]
    <3>1. OpenOrder(opening'[p], writes)
      BY <1>0, <1>1, <2>1, <2>4 DEF OpenOrder, Unanswered
    <3> QED BY <1>3, <2>2, <2>4, <3>1 DEF Order
  <2> QED BY <1>4, <2>3, <2>4 DEF OpenStat, OpenFails, SetHtml
<1>5. ASSUME NEW p \in Panel, OpenRead(p) PROVE Order'
  <2>1. opening' = [opening EXCEPT ![p] = NoOpen]
    BY <1>5 DEF OpenRead, OpenFails, SetHtml
  <2>2. CacheOrder(fileCache', writes)
    <3>1. CASE OpenFails(p)
      BY <3>1 DEF OpenFails, Order
    <3>2. CASE opening[p].ans # 0
               /\ fileCache' = [stat |-> opening[p].stat, body |-> opening[p].ans]
      BY <1>5, <3>2 DEF OpenRead, Order, OpenOrder, CacheOrder
    <3> QED BY <1>5, <3>1, <3>2 DEF OpenRead
  <2> QED BY <1>0, <1>1, <1>3, <2>1, <2>2, OrderFresh
<1> QED BY <1>2, <1>4, <1>5 DEF PanelStep

\* The continuations of refreshDocument.
LEMMA OrderRefresh ==
  ASSUME DataOK, DataOK', Order, RefreshStep
  PROVE  Order'
<1>0. writes \in Nat /\ UNCHANGED <<opening, writes>>
  BY DEF DataOK, TypeWorld, RefreshStep, SettleBefore, SettleAfter, SettleRetry,
     Compare, BuildStat, BuildRead, Validate, Published, PostNext, FailRefresh,
     world
<1>1. refresh \in RefreshRecord /\ refresh' \in RefreshRecord
      /\ fileCache \in [stat : Nat, body : Nat]
  BY DEF DataOK, TypeTasks, TypeProvider
<1>2. ASSUME RefreshOrder(refresh', writes), CacheOrder(fileCache', writes)
      PROVE  Order'
  BY <1>0, <1>2 DEF Order
<1>3. CASE FailRefresh
  BY <1>0, <1>2, <1>3, OrderFresh DEF FailRefresh, EndRefresh, Order
<1>4. ASSUME refresh' = Idle \/ (refresh'.ans = Unanswered
               /\ refresh'.at \in {"settleAfter", "settleRetry", "compare", "stat"}),
             UNCHANGED fileCache
      PROVE  Order'
  BY <1>0, <1>1, <1>2, <1>4, OrderFresh DEF Order
<1>5. CASE SettleBefore
  BY <1>1, <1>4, <1>5 DEF SettleBefore, Unstable, EndRefresh, RefreshRecord
<1>6. CASE SettleAfter
  BY <1>1, <1>4, <1>6 DEF SettleAfter, Unstable, EndRefresh, RefreshRecord
<1>7. CASE SettleRetry \/ Published
  BY <1>4, <1>7 DEF SettleRetry, Published, EndRefresh
<1>8. CASE Compare /\ ~FailRefresh
  BY <1>1, <1>4, <1>8 DEF Compare, EndRefresh, AwaitFs, RefreshRecord
<1>9. CASE BuildStat /\ ~FailRefresh
  <2>1. UNCHANGED fileCache
    BY <1>9 DEF BuildStat, provider
  <2>2. RefreshOrder(refresh', writes)
    <3>1. refresh.ans \in Nat /\ refresh.ans <= writes
      BY <1>1, <1>9 DEF BuildStat, Answered, RefreshRecord, Answer, Order,
         RefreshOrder
    <3>2. CASE fileCache.stat = refresh.ans
      <4>1. /\ refresh'.at = "validate" /\ refresh'.ans = Unanswered
            /\ refresh'.stat = fileCache.stat /\ refresh'.body = fileCache.body
        BY <1>1, <1>9, <3>2 DEF BuildStat, RefreshRecord
      <4> QED BY <1>0, <4>1 DEF Order, CacheOrder, RefreshOrder, Unanswered
    <3>3. CASE fileCache.stat # refresh.ans
      <4>1. /\ refresh'.at = "read" /\ refresh'.ans = Unanswered
            /\ refresh'.stat = refresh.ans
        BY <1>1, <1>9, <3>3 DEF BuildStat, RefreshRecord
      <4> QED BY <1>0, <3>1, <4>1 DEF RefreshOrder, Unanswered
    <3> QED BY <3>2, <3>3
  <2> QED BY <1>2, <2>1, <2>2 DEF Order
<1>10. CASE BuildRead /\ ~FailRefresh
  <2>1. Answered("read") /\ refresh.ans # 0
    BY <1>10 DEF BuildRead
  <2>2. refresh.stat <= refresh.ans /\ refresh.ans <= writes
    BY <2>1 DEF Answered, Order, RefreshOrder
  <2>3. CacheOrder(fileCache', writes)
    BY <1>10, <2>2 DEF BuildRead, CacheOrder
  <2>4. RefreshOrder(refresh', writes)
    <3>1. /\ refresh'.at = "validate" /\ refresh'.ans = Unanswered
          /\ refresh'.stat = refresh.stat /\ refresh'.body = refresh.ans
      BY <1>1, <1>10 DEF BuildRead, RefreshRecord
    <3> QED BY <1>0, <2>2, <3>1 DEF RefreshOrder, Unanswered
  <2> QED BY <1>2, <2>3, <2>4
<1>11. CASE Validate /\ ~FailRefresh
  <2>1. Answered("validate") /\ refresh.ans # 0
    BY <1>11 DEF Validate
  <2>2. CASE ReadAgain
    BY <1>0, <1>2, <2>2, OrderFresh DEF ReadAgain, EndRefresh
  <2>3. CASE Withhold
    BY <1>4, <2>3 DEF Withhold, EndRefresh
  <2>4. CASE Publish /\ ~Outdated
    <3>1. refresh.body = refresh.stat
      BY <1>1, <2>1, <2>4 DEF Outdated, Answered, Order, RefreshOrder,
         RefreshRecord
    <3>2. refresh'.at = "posting" /\ refresh'.ans = refresh.ans
          /\ refresh'.body = refresh.body /\ refresh'.stat = refresh.stat
      BY <1>1, <2>4 DEF Publish, RefreshRecord
    <3> QED BY <1>2, <2>4, <3>1, <3>2 DEF Publish, Order, RefreshOrder
  <2> QED BY <1>11, <2>2, <2>3, <2>4 DEF Validate
<1>12. ASSUME NEW p \in Panel, PostNext(p), ~FailRefresh PROVE Order'
  <2>1. /\ refresh'.at = "posting" /\ refresh'.ans = refresh.ans
        /\ refresh'.body = refresh.body /\ refresh'.stat = refresh.stat
        /\ refresh.at = "posting" /\ UNCHANGED fileCache
    BY <1>1, <1>12 DEF PostNext, RefreshRecord, provider
  <2> QED BY <1>2, <2>1 DEF Order, RefreshOrder
<1> QED BY <1>3, <1>5, <1>6, <1>7, <1>8, <1>9, <1>10, <1>11, <1>12
        DEF RefreshStep

Strengthened == DataOK /\ TypeFlags /\ Order

LEMMA StrengthenedStep == Strengthened /\ [Next]_vars => Strengthened'
<1> SUFFICES ASSUME Strengthened, [Next]_vars PROVE Strengthened'
  OBVIOUS
<1>1. (DataOK /\ TypeFlags)'
  BY DataStep, FlagsStep DEF Strengthened
<1>2. ASSUME UNCHANGED vars PROVE Order'
  <2>1. UNCHANGED <<fileCache, opening, refresh, writes>>
    BY <1>2 DEF vars, provider, tasks, world
  <2> QED BY <2>1 DEF Strengthened, Order
<1>3. Order'
  BY <1>1, <1>2, OrderOutside, OrderFileSystem, OrderPanel, OrderRefresh
     DEF Strengthened, Next
<1> QED BY <1>1, <1>3 DEF Strengthened

LEMMA StrengthenedAlways == Spec => []Strengthened
<1>1. Init => Strengthened
  BY DataInit, OrderInit DEF Strengthened
<1> QED BY <1>1, StrengthenedStep, PTL DEF Spec

\* Whatever writes, loads and cache releases interleave with a refresh, the
\* image it posts is the version it records as last rendered.
THEOREM PublishExactAlways == Spec => []PublishExact
<1>1. Strengthened => PublishExact
  BY DEF Strengthened, Order, RefreshOrder, PublishExact
<1> QED BY <1>1, StrengthenedAlways, PTL

\* Cached metadata is never newer than the cached bytes.
THEOREM LabelNotNewerAlways == Spec => []LabelNotNewer
<1>1. Strengthened => LabelNotNewer
  BY DEF Strengthened, Order, CacheOrder, OpenOrder, LabelNotNewer
<1> QED BY <1>1, StrengthenedAlways, PTL

-----------------------------------------------------------------------------
(* Unsaved editors.  A refresh that does not know of a pending external       *)
(* change started before the change was notified, so the notification count   *)
(* has moved on.  Closing the last panel resets the count while a refresh may *)
(* be in flight, so the argument needs that no panel is closed.               *)

Caught ==
  refresh.at # "idle" =>
    /\ refresh.revision <= changeRevision
    /\ refresh.revision = changeRevision /\ pendingExternal => refresh.external

\* Steps that start no refresh and at most finish the one in flight.
LEMMA CaughtFrame ==
  ASSUME DataOK, Caught,
         \/ refresh'.at = "idle"
         \/ /\ refresh.at # "idle"
            /\ refresh'.revision = refresh.revision
            /\ refresh'.external = refresh.external,
         \/ /\ changeRevision' = changeRevision
            /\ pendingExternal' => refresh'.at = "idle" \/ pendingExternal
         \/ changeRevision' = changeRevision + 1
  PROVE  Caught'
<1>1. changeRevision \in Nat /\ refresh.revision \in Nat
  BY DEF DataOK, TypeProvider, TypeTasks, RefreshRecord
<1> QED BY <1>1 DEF Caught

LEMMA CaughtStart ==
  ASSUME NEW seen, DataOK, TypeFlags, Caught, RefreshDocument(seen),
         UNCHANGED <<pendingExternal, changeRevision>>
  PROVE  Caught'
<1>1. CASE UNCHANGED refresh
  BY <1>1 DEF Caught
<1>2. CASE ~UNCHANGED refresh
  <2>1. /\ refresh'.revision = changeRevision
        /\ refresh'.external = pendingExternal
    BY <1>2 DEF RefreshDocument, Idle
  <2>2. changeRevision \in Nat
    BY DEF DataOK, TypeProvider
  <2> QED BY <2>1, <2>2 DEF Caught
<1> QED BY <1>1, <1>2

LEMMA CaughtStep ==
  ASSUME "close" \notin UserMoves, DataOK, TypeFlags, Caught, [Next]_vars
  PROVE  Caught'
<1> USE DEF provider, windows, tasks, world
<1>1. ASSUME UNCHANGED <<refresh, pendingExternal, changeRevision>> PROVE Caught'
  BY <1>1 DEF Caught
<1>2. ASSUME UNCHANGED refresh, ExternalFileChanged PROVE Caught'
  <2>1. CASE UNCHANGED <<pendingExternal, changeRevision>>
    BY <1>1, <1>2, <2>1
  <2>2. CASE changeRevision' = changeRevision + 1
    BY <1>2, <2>2, CaughtFrame
  <2> QED BY <1>2, <2>1, <2>2 DEF ExternalFileChanged
<1>3. CASE World \/ UNCHANGED vars \/ \E p \in Panel : ReleaseCache(p)
  BY <1>1, <1>3 DEF World, ExternalWrite, LoseNotification, EditorEdit,
     EditorDiscard, EditorSave, ReleaseCache, vars
<1>4. CASE User
  <2>1. PICK p \in Panel : \/ OpenPanel(p) \/ ClosePanel(p) \/ HidePanel(p)
                           \/ ShowPanel(p) \/ RequestRefresh(p)
    BY <1>4 DEF User
  <2>2. ~ClosePanel(p)
    BY DEF ClosePanel, UserMove
  <2>3. CASE OpenPanel(p) \/ HidePanel(p)
    BY <1>1, <2>3 DEF OpenPanel, HidePanel
  <2>4. CASE ShowPanel(p)
    <3>1. UNCHANGED <<pendingExternal, changeRevision>>
      BY <2>4 DEF ShowPanel
    <3> QED BY <1>1, <2>4, <3>1, CaughtStart DEF ShowPanel
  <2>5. CASE RequestRefresh(p)
    BY <2>5, CaughtStart DEF RequestRefresh
  <2> QED BY <2>1, <2>2, <2>3, <2>4, <2>5
<1>5. CASE FileSystem
  <2>1. CASE FsAnswerRefresh
    <3>1. refresh'.at = refresh.at /\ refresh'.revision = refresh.revision
          /\ refresh'.external = refresh.external
      BY <2>1 DEF FsAnswerRefresh, DataOK, TypeTasks, RefreshRecord
    <3> QED BY <2>1, <3>1 DEF FsAnswerRefresh, Caught
  <2>2. CASE \E p \in Panel : FsAnswerOpening(p) \/ FsAnswerFocus(p)
    BY <1>1, <2>2 DEF FsAnswerOpening, FsAnswerFocus
  <2> QED BY <1>5, <2>1, <2>2 DEF FileSystem
<1>6. CASE PanelStep
  <2>1. CASE \E p \in Panel : FocusChecked(p)
    BY <1>1, <1>2, <2>1 DEF FocusChecked
  <2>2. CASE \E p \in Panel : OpenStat(p) \/ OpenRead(p)
    BY <1>1, <2>2 DEF OpenStat, OpenRead
  <2> QED BY <1>6, <2>1, <2>2 DEF PanelStep
<1>7. CASE EventStep
  <2>1. CASE WatcherEvent BY <1>2, <2>1 DEF WatcherEvent
  <2>2. CASE SaveHook BY <1>1, <2>2 DEF SaveHook
  <2>3. CASE DebounceFires BY <2>3, CaughtStart DEF DebounceFires
  <2> QED BY <1>7, <2>1, <2>2, <2>3 DEF EventStep
<1>8. CASE RefreshStep
  <2>1. UNCHANGED changeRevision
    BY <1>8 DEF RefreshStep, SettleBefore, SettleAfter, SettleRetry, Compare,
       BuildStat, BuildRead, Validate, Published, PostNext, FailRefresh
  <2>2. refresh \in RefreshRecord /\ refresh.at # "idle"
    BY <1>8 DEF RefreshStep, SettleBefore, SettleAfter, SettleRetry, Compare,
       BuildStat, BuildRead, Validate, Published, PostNext, Answered, DataOK,
       TypeTasks
  <2>3. \/ refresh'.at = "idle"
        \/ /\ refresh'.revision = refresh.revision
           /\ refresh'.external = refresh.external
           /\ UNCHANGED pendingExternal
    <3> USE RecordTypes, <2>2 DEF EndRefresh, FailRefresh, RefreshRecord
    <3>1. CASE SettleBefore BY <3>1 DEF SettleBefore, Unstable
    <3>2. CASE SettleAfter BY <3>2 DEF SettleAfter, Unstable
    <3>3. CASE SettleRetry BY <3>3 DEF SettleRetry
    <3>4. CASE Compare BY <3>4 DEF Compare, AwaitFs
    <3>5. CASE BuildStat BY <3>5 DEF BuildStat
    <3>6. CASE BuildRead BY <3>6 DEF BuildRead
    <3>7. CASE Validate BY <3>7 DEF Validate, ReadAgain, Withhold, Publish
    <3>8. CASE Published BY <3>8 DEF Published
    <3>9. CASE \E p \in Panel : PostNext(p) BY <3>9 DEF PostNext
    <3> QED BY <1>8, <3>1, <3>2, <3>3, <3>4, <3>5, <3>6, <3>7, <3>8, <3>9
            DEF RefreshStep
  <2> QED BY <2>1, <2>2, <2>3 DEF Caught
<1> QED BY <1>3, <1>4, <1>5, <1>6, <1>7, <1>8 DEF Next

\* While an editor is dirty no refresh starts to post when an external change
\* is known, for every instance in which panels stay open.
THEOREM HeldWhileUnsavedAlways ==
  "close" \notin UserMoves => (Spec => HeldWhileUnsaved)
<1> SUFFICES ASSUME "close" \notin UserMoves PROVE Spec => HeldWhileUnsaved
  OBVIOUS
<1>1. Init => Caught
  BY DEF Init, Caught, Idle
<1>2. Strengthened /\ Caught /\ [Next]_vars => Caught'
  BY CaughtStep DEF Strengthened
<1>3. Strengthened /\ Caught /\ [Next]_vars
        => [Publishes /\ dirty => ~pendingExternal]_vars
  <2> SUFFICES ASSUME Caught, Next, Publishes, dirty, Strengthened
               PROVE  ~pendingExternal
    OBVIOUS
  <2> USE DEF provider, windows, tasks, world
  <2>1. refresh \in RefreshRecord /\ refresh.at = "validate" /\ refresh'.at = "posting"
    BY DEF Publishes, Strengthened, DataOK, TypeTasks
  <2>2. ~RefreshDocument(visible) /\ ~RefreshDocument(visible') /\ refresh' # refresh
    BY <2>1 DEF RefreshDocument
  <2>3. ~World /\ ~EventStep /\ ~\E p \in Panel : ReleaseCache(p)
    BY <2>2 DEF World, ExternalWrite, LoseNotification, EditorEdit,
       EditorDiscard, EditorSave, EventStep, WatcherEvent, SaveHook,
       DebounceFires, ReleaseCache
  <2>4. ~User
    BY <2>2 DEF User, OpenPanel, ClosePanel, HidePanel, ShowPanel, RequestRefresh
  <2>5. ~FileSystem /\ ~PanelStep
    BY <2>1, <2>2 DEF FileSystem, FsAnswerRefresh, FsAnswerOpening,
       FsAnswerFocus, PanelStep, FocusChecked, OpenStat, OpenRead, RefreshRecord
  <2>6. Validate
    BY <2>1, <2>3, <2>4, <2>5 DEF Next, RefreshStep, SettleBefore, SettleAfter,
       SettleRetry, Compare, BuildStat, BuildRead, Published, PostNext, Answered
  <2>7. ~FailRefresh /\ ~ReadAgain /\ ~Withhold
    BY <2>1, RecordTypes DEF FailRefresh, ReadAgain, Withhold, EndRefresh
  <2>8. ~refresh.external /\ refresh.revision = changeRevision
    BY <2>6, <2>7 DEF Validate, Outdated
  <2> QED BY <2>1, <2>8 DEF Caught
<1> QED BY <1>1, <1>2, <1>3, StrengthenedAlways, PTL DEF Spec, HeldWhileUnsaved

-----------------------------------------------------------------------------
(* Viewers that are behind.  With a first load that ends before the next move *)
(* of the user (PromptOpen) and a calm use (Calm), a panel that shows an      *)
(* older image than the last displayed one is hidden and marked: every task   *)
(* in flight ends at the last displayed version or a newer one (NewerTasks),  *)
(* and while an image is posted, the panels that will not get it are marked   *)
(* already (Posted).                                                          *)

Alone == \A p, q \in Panel : p = q

Behind(p) == shown[p] # 0 /\ shown[p] < lastRendered

\* Hidden, and revealing it refreshes it.
Marked(p) == ~Alone /\ p \notin visible /\ p \in pendingRefresh

\* A first load runs by itself and its panel stays visible.
OneOpening ==
  \A p \in Panel : opening[p] # NoOpen =>
    /\ p \in visible /\ refresh = Idle
    /\ \A q \in Panel : opening[q] # NoOpen => q = p

Versions ==
  /\ lastRendered <= writes
  /\ refresh.at = "posting" => refresh.stat <= writes
  /\ \A p \in Panel : shown[p] <= writes /\ (p \notin panels => shown[p] = 0)
  /\ lastRendered = 0 /\ refresh.at # "posting" => \A p \in Panel : shown[p] = 0

NotOlder(ans) == ans \in {Unanswered, 0} \/ lastRendered <= ans

\* No task in flight goes back behind the last displayed version.
NewerTasks ==
  /\ refresh.at = "stat" => NotOlder(refresh.ans)
  /\ refresh.at \in {"read", "validate", "posting"} =>
       refresh.stat # 0 /\ lastRendered <= refresh.stat
  /\ \A p \in Panel :
       /\ opening[p].at = "stat" => NotOlder(opening[p].ans)
       /\ opening[p].at = "read" =>
            opening[p].stat # 0 /\ lastRendered <= opening[p].stat

Todo == /\ refresh.todo \subseteq panels
        /\ refresh.at # "posting" \/ Alone => refresh.todo = {}

BehindHidden == \A p \in panels : Behind(p) => Marked(p)

Posted ==
  refresh.at = "posting" =>
    \A p \in panels : \/ shown[p] = 0 \/ p \in refresh.todo
                      \/ refresh.stat <= shown[p] \/ Marked(p)

View == Versions /\ NewerTasks /\ Todo /\ BehindHidden /\ Posted

LEMMA IdleShape == /\ Idle.at = "idle" /\ Idle.todo = {}
                   /\ Idle.ans = Unanswered /\ Idle.stat = 0
BY DEF Idle

LEMMA StartShape ==
  ASSUME NEW seen, RefreshDocument(seen)
  PROVE  \/ UNCHANGED refresh
         \/ /\ refresh.at = "idle" /\ seen # {}
            /\ refresh' = [Idle EXCEPT
                 !.at = IF pendingExternal THEN "settleBefore" ELSE "stat",
                 !.external = pendingExternal,
                 !.revision = changeRevision]
            /\ refresh'.at \in {"settleBefore", "stat"}
            /\ refresh'.ans = Unanswered /\ refresh'.todo = {}
            /\ refresh'.revision = changeRevision
            /\ refresh'.external = pendingExternal
BY DEF RefreshDocument, Idle

LEMMA OneOpeningStep ==
  ASSUME PromptOpen, DataOK, OneOpening, [Next]_vars
  PROVE  OneOpening'
<1> USE DEF provider, windows, tasks, world
<1>0. opening \in [Panel -> OpenRecord] /\ visible \subseteq Panel
  BY DEF DataOK, TypeTasks, TypeWindows
\* Loads that go on alone, the panels staying visible.
<1>1. ASSUME UNCHANGED refresh \/ OpenInTime, visible \subseteq visible' \/ OpenInTime,
             \A p \in Panel : opening'[p] # NoOpen => opening[p] # NoOpen
      PROVE  OneOpening'
  BY <1>1 DEF OneOpening, OpenInTime
<1>2. CASE World \/ UNCHANGED vars \/ \E p \in Panel : ReleaseCache(p)
  <2>1. UNCHANGED <<refresh, visible, opening>>
    BY <1>2 DEF World, ExternalWrite, LoseNotification, EditorEdit,
       EditorDiscard, EditorSave, ReleaseCache, vars
  <2> QED BY <1>1, <2>1
<1>3. CASE User
  <2>1. PICK p \in Panel : \/ OpenPanel(p) \/ ClosePanel(p) \/ HidePanel(p)
                           \/ ShowPanel(p) \/ RequestRefresh(p)
    BY <1>3 DEF User
  <2>2. OpenInTime
    BY <2>1 DEF OpenPanel, ClosePanel, HidePanel, ShowPanel, RequestRefresh, UserMove
  <2>3. CASE OpenPanel(p)
    <3>1. /\ refresh' = Idle /\ p \in visible'
          /\ \A q \in Panel : q # p => opening'[q] = NoOpen
      BY <2>2, <2>3, <1>0 DEF OpenPanel, OpenInTime
    <3> QED BY <3>1 DEF OneOpening
  <2>4. CASE ~OpenPanel(p)
    <3>1. UNCHANGED opening
      BY <2>1, <2>4 DEF ClosePanel, HidePanel, ShowPanel, RequestRefresh
    <3> QED BY <1>1, <2>2, <3>1
  <2> QED BY <2>3, <2>4
<1>4. CASE FileSystem
  <2>1. UNCHANGED visible
    BY <1>4 DEF FileSystem, FsAnswerRefresh, FsAnswerOpening, FsAnswerFocus
  <2>2. CASE FsAnswerRefresh
    <3>1. refresh # Idle /\ UNCHANGED opening
      BY <2>2, RecordTypes DEF FsAnswerRefresh, FsWaits
    <3> QED BY <3>1 DEF OneOpening
  <2>3. ASSUME NEW p \in Panel, FsAnswerOpening(p) PROVE OneOpening'
    <3>1. opening[p] # NoOpen /\ UNCHANGED refresh
      BY <2>3 DEF FsAnswerOpening, NoOpen
    <3>2. \A q \in Panel : q # p => opening'[q] = opening[q]
      BY <2>3, <1>0 DEF FsAnswerOpening
    <3> QED BY <1>1, <2>1, <3>1, <3>2
  <2>4. ASSUME NEW p \in Panel, FsAnswerFocus(p) PROVE OneOpening'
    BY <1>1, <2>1, <2>4 DEF FsAnswerFocus
  <2> QED BY <1>4, <2>2, <2>3, <2>4 DEF FileSystem
<1>5. CASE RefreshStep
  <2>1. refresh # Idle /\ UNCHANGED opening
    BY <1>5, RecordTypes DEF RefreshStep, SettleBefore, SettleAfter, SettleRetry,
       Compare, BuildStat, BuildRead, Validate, Published, PostNext, Answered,
       FailRefresh
  <2> QED BY <2>1 DEF OneOpening
<1>6. CASE PanelStep
  <2>1. PICK p \in Panel : FocusChecked(p) \/ OpenStat(p) \/ OpenRead(p)
    BY <1>6 DEF PanelStep
  <2>2. UNCHANGED <<visible, refresh>>
    BY <2>1 DEF FocusChecked, OpenStat, OpenRead
  <2>3. CASE FocusChecked(p)
    BY <1>1, <2>2, <2>3 DEF FocusChecked
  <2>4. CASE OpenStat(p) \/ OpenRead(p)
    <3>1. opening[p] # NoOpen
      BY <2>4 DEF OpenStat, OpenRead, NoOpen
    <3>2. \A q \in Panel : q # p => opening'[q] = opening[q]
      BY <2>4, <1>0 DEF OpenStat, OpenRead, OpenFails, SetHtml
    <3> QED BY <1>1, <2>2, <3>1, <3>2
  <2> QED BY <2>1, <2>3, <2>4
<1>7. CASE EventStep
  <2>1. UNCHANGED <<visible, opening>> /\ (UNCHANGED refresh \/ OpenInTime)
    BY <1>7 DEF EventStep, WatcherEvent, SaveHook, DebounceFires
  <2> QED BY <1>1, <2>1
<1> QED BY <1>2, <1>3, <1>4, <1>5, <1>6, <1>7 DEF Next

\* Steps that go on with tasks, mark panels or hide them, and post nothing.
LEMMA ViewFrame ==
  ASSUME DataOK, DataOK', View, NewerTasks',
         UNCHANGED <<panels, shown, lastRendered>>,
         visible' \subseteq visible, pendingRefresh \subseteq pendingRefresh',
         writes <= writes',
         refresh'.todo = refresh.todo, refresh'.at = "posting" <=> refresh.at = "posting",
         refresh.at = "posting" => refresh'.stat = refresh.stat
  PROVE  View'
<1>0. /\ writes \in Nat /\ writes' \in Nat /\ lastRendered \in Nat
      /\ shown \in [Panel -> Nat] /\ refresh.stat \in Nat
  BY DEF DataOK, TypeWorld, TypeProvider, TypeWindows, TypeTasks, RefreshRecord
<1>1. Versions'
  BY <1>0 DEF View, Versions
<1>2. Todo'
  BY DEF View, Todo, Alone
<1>3. \A p \in Panel : Marked(p) => Marked(p)'
  BY DEF Marked, Alone
<1>4. BehindHidden' /\ Posted'
  BY <1>3 DEF View, BehindHidden, Posted, Behind, DataOK, TypeWindows
<1> QED BY <1>1, <1>2, <1>4 DEF View

LEMMA ViewWorld ==
  ASSUME DataOK, DataOK', View,
         World \/ UNCHANGED vars \/ \E p \in Panel : ReleaseCache(p)
  PROVE  View'
<1> USE DEF provider, windows, tasks, world
<1>1. UNCHANGED <<tasks, windows, lastRendered, pendingRefresh>>
  BY DEF World, ExternalWrite, LoseNotification, EditorEdit,
       EditorDiscard, EditorSave, ReleaseCache, vars
<1>2. writes <= writes'
  BY DEF World, ExternalWrite, LoseNotification, EditorEdit,
       EditorDiscard, EditorSave, ReleaseCache, vars, DataOK, TypeWorld
<1>3. NewerTasks'
  BY <1>1 DEF View, NewerTasks, NotOlder
<1> QED BY <1>1, <1>2, <1>3, ViewFrame

LEMMA ViewFileSystem ==
  ASSUME DataOK, DataOK', View, FileSystem
  PROVE  View'
<1> USE DEF provider, windows, tasks, world
<1>0. /\ opening \in [Panel -> OpenRecord] /\ refresh \in RefreshRecord
      /\ writes \in Nat /\ lastRendered \in Nat /\ disk \in {0, writes}
  BY DEF DataOK, TypeTasks, TypeWorld, TypeProvider
<1>1. UNCHANGED <<provider, windows, world>>
  BY DEF FileSystem, FsAnswerRefresh, FsAnswerOpening, FsAnswerFocus
<1>2. NotOlder(disk)
  BY <1>0 DEF NotOlder, View, Versions
<1>3. CASE FsAnswerRefresh
  <2>1. /\ refresh'.ans = disk /\ refresh'.at = refresh.at
        /\ refresh'.todo = refresh.todo /\ refresh'.stat = refresh.stat
    BY <1>3, <1>0 DEF FsAnswerRefresh, RefreshRecord
  <2>2. NewerTasks'
    BY <1>1, <1>2, <1>3, <2>1 DEF View, NewerTasks, NotOlder, FsAnswerRefresh
  <2> QED BY <1>0, <1>1, <2>1, <2>2, ViewFrame
<1>4. ASSUME NEW p \in Panel, FsAnswerOpening(p) PROVE View'
  <2>1. \A q \in Panel : q # p => opening'[q] = opening[q]
    BY <1>4, <1>0 DEF FsAnswerOpening
  <2>2. opening'[p].at = opening[p].at /\ opening'[p].ans = disk
        /\ opening'[p].stat = opening[p].stat
    BY <1>4, <1>0 DEF FsAnswerOpening, OpenRecord
  <2>3. UNCHANGED refresh
    BY <1>4 DEF FsAnswerOpening
  <2>4. NewerTasks'
    BY <1>1, <1>2, <2>1, <2>2, <2>3 DEF View, NewerTasks, NotOlder
  <2> QED BY <1>0, <1>1, <2>3, <2>4, ViewFrame
<1>5. ASSUME NEW p \in Panel, FsAnswerFocus(p) PROVE View'
  <2>1. UNCHANGED <<refresh, opening>>
    BY <1>5 DEF FsAnswerFocus
  <2>2. NewerTasks'
    BY <1>1, <2>1 DEF View, NewerTasks, NotOlder
  <2> QED BY <1>0, <1>1, <2>1, <2>2, ViewFrame
<1> QED BY <1>3, <1>4, <1>5 DEF FileSystem

\* Tasks that start; NewerTasks when only the refresh is new.
LEMMA NewerStart ==
  ASSUME NEW seen, NewerTasks, RefreshDocument(seen), UNCHANGED <<opening, lastRendered>>
  PROVE  NewerTasks'
BY StartShape DEF NewerTasks, NotOlder

LEMMA ViewStart ==
  ASSUME NEW seen, DataOK, DataOK', View, RefreshDocument(seen),
         UNCHANGED <<panels, visible, shown, lastRendered, opening, writes>>,
         pendingRefresh \subseteq pendingRefresh'
  PROVE  View'
<1>1. NewerTasks'
  BY NewerStart DEF View
<1>2. refresh'.todo = refresh.todo /\ (refresh'.at = "posting" <=> refresh.at = "posting")
  BY StartShape DEF View, Todo
<1>3. refresh.at = "posting" => refresh'.stat = refresh.stat
  BY StartShape
<1>4. writes <= writes'
  BY DEF DataOK, TypeWorld
<1> QED BY <1>1, <1>2, <1>3, <1>4, ViewFrame

LEMMA ViewEvent ==
  ASSUME DataOK, DataOK', View, EventStep
  PROVE  View'
<1> USE DEF provider, windows, tasks, world
<1>0. writes <= writes /\ pendingRefresh \subseteq panels
  BY DEF DataOK, TypeWorld, TypeProvider
<1>1. CASE WatcherEvent \/ SaveHook
  <2>1. UNCHANGED <<tasks, windows, lastRendered, writes>>
    BY <1>1 DEF WatcherEvent, SaveHook
  <2>2. pendingRefresh \subseteq pendingRefresh'
    BY <1>0, <1>1 DEF WatcherEvent, SaveHook, ExternalFileChanged
  <2>3. NewerTasks'
    BY <2>1 DEF View, NewerTasks, NotOlder
  <2> QED BY <1>0, <2>1, <2>2, <2>3, ViewFrame
<1>2. CASE DebounceFires
  BY <1>2, ViewStart DEF DebounceFires
<1> QED BY <1>1, <1>2 DEF EventStep

LEMMA ViewUser ==
  ASSUME PromptOpen, DataOK, DataOK', OneOpening, View, Calm, NEW p \in Panel
  PROVE  /\ OpenPanel(p) => View'
         /\ ClosePanel(p) => View'
         /\ HidePanel(p) => View'
         /\ ShowPanel(p) => View'
         /\ RequestRefresh(p) => View'
<1> USE DEF provider, windows, tasks, world
<1>0. /\ writes \in Nat /\ lastRendered \in Nat /\ shown \in [Panel -> Nat]
      /\ panels \subseteq Panel /\ pendingRefresh \subseteq panels
      /\ visible \subseteq panels /\ opening \in [Panel -> OpenRecord]
  BY DEF DataOK, TypeWorld, TypeProvider, TypeWindows, TypeTasks
<1>1. ASSUME OpenPanel(p) PROVE View'
  <2>1. /\ refresh = Idle /\ refresh' = Idle
        /\ UNCHANGED <<shown, lastRendered, pendingRefresh, writes>>
    BY <1>1 DEF OpenPanel
  <2>2. p \notin panels /\ panels' = panels \cup {p} /\ visible' = visible \cup {p}
    BY <1>1 DEF OpenPanel
  <2>3. NewerTasks'
    <3>1. \A q \in Panel : opening'[q] = NoOpen
                             \/ opening'[q] = [NoOpen EXCEPT !.at = "stat"]
      BY <1>0, <1>1 DEF OpenPanel, UserMove, OpenInTime
    <3> QED BY <2>1, <3>1, RecordTypes DEF NewerTasks, NotOlder, NoOpen
  <2>4. Versions'
    BY <2>1, <2>2 DEF View, Versions
  <2>5. Todo'
    BY <2>1 DEF Todo, Idle
  <2>6. BehindHidden'
    <3>1. ASSUME NEW q \in panels', Behind(q)' PROVE Marked(q)'
      <4>1. q # p
        BY <2>1, <3>1, <2>2 DEF View, Versions, Behind
      <4>2. Marked(q)
        BY <2>1, <2>2, <3>1, <4>1 DEF View, BehindHidden, Behind
      <4> QED BY <2>1, <2>2, <4>1, <4>2 DEF Marked, Alone
    <3> QED BY <3>1 DEF BehindHidden
  <2>7. Posted'
    BY <2>1, RecordTypes DEF Posted
  <2> QED BY <2>3, <2>4, <2>5, <2>6, <2>7 DEF View
<1>2. ASSUME ClosePanel(p) PROVE View'
  <2>1. /\ panels' = panels \ {p} /\ visible' = visible \ {p}
        /\ shown' = [shown EXCEPT ![p] = 0] /\ p \in panels
        /\ pendingRefresh' = pendingRefresh \ {p}
        /\ UNCHANGED <<tasks, writes>>
    BY <1>2 DEF ClosePanel
  <2>2. \/ panels' = {} /\ lastRendered' = 0
        \/ lastRendered' = lastRendered
    BY <1>2 DEF ClosePanel
  <2>3. /\ shown'[p] = 0
        /\ \A q \in Panel : q # p => shown'[q] = shown[q]
    BY <1>0, <2>1
  <2>4. Versions'
    BY <1>0, <2>1, <2>2, <2>3 DEF View, Versions
  <2>5. NewerTasks'
    <3>1. lastRendered' <= lastRendered /\ lastRendered' \in Nat
      BY <1>0, <2>2
    <3>2. \A ans \in Answer : NotOlder(ans) => NotOlder(ans)'
      BY <1>0, <3>1 DEF NotOlder, Answer
    <3>3. refresh.ans \in Answer /\ refresh.stat \in Nat
          /\ \A q \in Panel : opening[q].ans \in Answer /\ opening[q].stat \in Nat
      BY DEF DataOK, TypeTasks, RefreshRecord, OpenRecord
    <3>4. \A n \in Nat : lastRendered <= n => lastRendered' <= n
      BY <1>0, <3>1
    <3> QED BY <2>1, <3>2, <3>3, <3>4 DEF View, NewerTasks
  <2>6. Todo'
    BY <2>1 DEF View, Todo, Calm, Alone
  <2>7. \A q \in Panel : q # p /\ Marked(q) => Marked(q)'
    BY <2>1 DEF Marked, Alone
  <2>8. BehindHidden'
    BY <1>0, <2>1, <2>2, <2>3, <2>7 DEF View, BehindHidden, Behind
  <2>9. Posted'
    BY <1>0, <2>1, <2>3, <2>7 DEF View, Posted
  <2> QED BY <2>4, <2>5, <2>6, <2>8, <2>9 DEF View
<1>3. ASSUME HidePanel(p) PROVE View'
  <2>1. NewerTasks'
    BY <1>3 DEF HidePanel, View, NewerTasks, NotOlder
  <2> QED BY <1>0, <1>3, <2>1, ViewFrame DEF HidePanel
<1>4. ASSUME ShowPanel(p) PROVE View'
  <2>1. /\ visible' = visible \cup {p} /\ p \in panels
        /\ pendingRefresh' \in {pendingRefresh, pendingRefresh \ {p}}
        /\ UNCHANGED <<panels, shown, lastRendered, opening, writes>>
    BY <1>4 DEF ShowPanel
  <2>2. ~Marked(p)
    BY <2>1 DEF Marked, Calm, Alone
  <2>3. \A q \in Panel : Marked(q) => Marked(q)'
    <3> SUFFICES ASSUME NEW q \in Panel, Marked(q) PROVE Marked(q)'
      OBVIOUS
    <3>1. q # p
      BY <2>2
    <3> QED BY <2>1, <3>1 DEF Marked, Alone
  <2>4. /\ refresh'.todo = refresh.todo
        /\ refresh'.at = "posting" <=> refresh.at = "posting"
        /\ refresh.at = "posting" => refresh'.stat = refresh.stat
    BY <1>4, StartShape DEF ShowPanel, View, Todo
  <2>5. NewerTasks'
    <3>1. CASE UNCHANGED refresh
      BY <2>1, <3>1 DEF View, NewerTasks, NotOlder
    <3>2. CASE RefreshDocument(visible')
      BY <2>1, <3>2, NewerStart DEF View
    <3> QED BY <1>4, <3>1, <3>2 DEF ShowPanel
  <2>6. Versions'
    BY <2>1, <2>4 DEF View, Versions
  <2>7. Todo'
    BY <2>1, <2>4 DEF View, Todo, Alone
  <2>8. BehindHidden'
    BY <1>0, <2>1, <2>3 DEF View, BehindHidden, Behind
  <2>9. Posted'
    BY <1>0, <2>1, <2>3, <2>4 DEF View, Posted
  <2> QED BY <2>5, <2>6, <2>7, <2>8, <2>9 DEF View
<1>5. ASSUME RequestRefresh(p) PROVE View'
  BY <1>5, ViewStart DEF RequestRefresh
<1> QED BY <1>1, <1>2, <1>3, <1>4, <1>5

\* A first load that ends with an image: one that is not behind.
LEMMA ViewHtml ==
  ASSUME DataOK, DataOK', OneOpening, View, NEW p \in Panel, opening[p] # NoOpen,
         NEW entry \in [stat : Nat, body : Nat], SetHtml(p, entry),
         entry.stat # 0, lastRendered <= entry.stat, entry.stat <= entry.body,
         entry.body <= writes,
         UNCHANGED <<panels, visible, pendingRefresh, refresh, writes>>
  PROVE  View'
<1>0. /\ writes \in Nat /\ lastRendered \in Nat /\ shown \in [Panel -> Nat]
      /\ panels \subseteq Panel /\ visible \subseteq panels
      /\ opening \in [Panel -> OpenRecord]
  BY DEF DataOK, TypeWorld, TypeProvider, TypeWindows, TypeTasks
<1>1. p \in panels /\ refresh = Idle
  BY <1>0 DEF OneOpening
<1>2. \A q \in Panel : opening'[q] = NoOpen
  BY <1>0 DEF OneOpening, SetHtml
<1>3. /\ shown'[p] = entry.body
      /\ \A q \in Panel : q # p => shown'[q] = shown[q]
      /\ \/ lastRendered # 0 /\ lastRendered' = lastRendered
         \/ lastRendered = 0 /\ lastRendered' = entry.stat
  BY <1>0, <1>1 DEF SetHtml
<1>4. \A q \in Panel : lastRendered = 0 => shown[q] = 0
  BY <1>1, RecordTypes DEF View, Versions
<1>5. Versions'
  BY <1>0, <1>1, <1>3 DEF View, Versions
<1>6. NewerTasks'
  BY <1>1, <1>2 DEF NewerTasks, NoOpen, Idle
<1>7. Todo' /\ Posted'
  BY <1>1, RecordTypes DEF View, Todo, Posted, Alone
<1>8. BehindHidden'
  <2>1. ASSUME NEW q \in panels, Behind(q)' PROVE Marked(q)'
    <3>1. q # p /\ lastRendered # 0
      BY <1>0, <1>3, <1>4, <2>1 DEF Behind
    <3>2. Marked(q)
      BY <1>0, <1>3, <2>1, <3>1 DEF View, BehindHidden, Behind
    <3> QED BY <3>2 DEF Marked, Alone
  <2> QED BY <2>1 DEF BehindHidden
<1> QED BY <1>5, <1>6, <1>7, <1>8 DEF View

LEMMA ViewOpen ==
  ASSUME DataOK, DataOK', Order, OneOpening, View, NEW p \in Panel,
         OpenStat(p) \/ OpenRead(p)
  PROVE  View'
<1>0. /\ writes \in Nat /\ lastRendered \in Nat /\ shown \in [Panel -> Nat]
      /\ panels \subseteq Panel /\ visible \subseteq panels
      /\ opening \in [Panel -> OpenRecord] /\ fileCache \in [stat : Nat, body : Nat]
      /\ fileCache' \in [stat : Nat, body : Nat]
  BY DEF DataOK, TypeWorld, TypeProvider, TypeWindows, TypeTasks
<1>1. /\ UNCHANGED <<panels, visible, pendingRefresh, refresh, writes>>
      /\ opening[p] # NoOpen
  BY DEF OpenStat, OpenRead, world, NoOpen
<1>2. /\ opening[p].ans \in Nat /\ opening[p].stat \in Nat
      /\ opening[p].ans <= writes
  BY <1>0 DEF OpenStat, OpenRead, OpenRecord, Answer, Order, OpenOrder
<1>3. CASE OpenFails(p)
  <2>1. /\ shown'[p] = 0 /\ opening'[p] = NoOpen /\ UNCHANGED lastRendered
        /\ \A q \in Panel : q # p => shown'[q] = shown[q] /\ opening'[q] = opening[q]
    BY <1>0, <1>3 DEF OpenFails
  <2>2. Versions'
    BY <1>0, <1>1, <2>1 DEF View, Versions
  <2>3. NewerTasks'
    BY <1>1, <2>1 DEF View, NewerTasks, NotOlder, NoOpen
  <2>4. Todo'
    BY <1>1 DEF View, Todo, Alone
  <2>5. BehindHidden'
    BY <1>0, <1>1, <2>1 DEF View, BehindHidden, Behind, Marked, Alone
  <2>6. Posted'
    BY <1>0, <1>1, <2>1 DEF View, Posted, Marked, Alone
  <2> QED BY <2>2, <2>3, <2>4, <2>5, <2>6 DEF View
<1>4. CASE OpenStat(p) /\ opening[p].ans # 0 /\ fileCache.stat = opening[p].ans
  <2>1. lastRendered <= fileCache.stat
    BY <1>2, <1>4 DEF OpenStat, View, NewerTasks, NotOlder
  <2>2. SetHtml(p, fileCache)
    BY <1>3, <1>4 DEF OpenStat, OpenFails
  <2> QED BY <1>0, <1>1, <1>4, <2>1, <2>2, ViewHtml DEF Order, CacheOrder
<1>5. CASE OpenStat(p) /\ opening[p].ans # 0 /\ fileCache.stat # opening[p].ans
  <2>1. /\ opening' = [opening EXCEPT ![p] = [at |-> "read",
                         stat |-> opening[p].ans, ans |-> Unanswered]]
        /\ UNCHANGED <<shown, fileCache, lastRendered>>
    BY <1>5 DEF OpenStat, OpenFails
  <2>2. /\ opening'[p].at = "read" /\ opening'[p].stat = opening[p].ans
        /\ \A q \in Panel : q # p => opening'[q] = opening[q]
    BY <1>0, <2>1
  <2>3. lastRendered <= opening[p].ans
    BY <1>2, <1>5 DEF OpenStat, View, NewerTasks, NotOlder
  <2>4. NewerTasks'
    BY <1>1, <1>5, <2>1, <2>2, <2>3 DEF View, NewerTasks, NotOlder
  <2> QED BY <1>0, <1>1, <2>1, <2>4, ViewFrame
<1>6. CASE OpenRead(p) /\ ~OpenFails(p)
  <2>1. /\ fileCache' = [stat |-> opening[p].stat, body |-> opening[p].ans]
        /\ SetHtml(p, fileCache') /\ opening[p].ans # 0
    BY <1>6 DEF OpenRead
  <2>2. /\ opening[p].stat # 0 /\ lastRendered <= opening[p].stat
        /\ opening[p].stat <= opening[p].ans
    BY <1>6, <2>1 DEF OpenRead, View, NewerTasks, Order, OpenOrder
  <2> QED BY <1>0, <1>1, <1>2, <2>1, <2>2, ViewHtml
<1> QED BY <1>3, <1>4, <1>5, <1>6 DEF OpenFails, OpenStat

LEMMA ViewFocus ==
  ASSUME DataOK, DataOK', View, NEW p \in Panel, FocusChecked(p)
  PROVE  View'
<1>1. UNCHANGED <<windows, lastRendered, refresh, opening, writes>>
  BY DEF FocusChecked, world
<1>2. pendingRefresh \subseteq pendingRefresh'
  BY DEF FocusChecked, ExternalFileChanged, DataOK, TypeProvider
<1>3. NewerTasks' /\ writes <= writes'
  BY <1>1 DEF View, NewerTasks, NotOlder, DataOK, TypeWorld
<1> QED BY <1>1, <1>2, <1>3, ViewFrame DEF windows

\* Continuations that post nothing.
LEMMA ViewRefreshFrame ==
  ASSUME DataOK, DataOK', View, UNCHANGED <<windows, lastRendered, opening, world>>,
         pendingRefresh \subseteq pendingRefresh', refresh.at # "posting",
         refresh'.todo = {}, refresh'.at # "posting",
         refresh'.at = "stat" => NotOlder(refresh'.ans),
         refresh'.at \in {"read", "validate"} =>
           refresh'.stat # 0 /\ lastRendered <= refresh'.stat
  PROVE  View'
<1>1. NewerTasks'
  BY DEF View, NewerTasks, NotOlder
<1>2. refresh.todo = {} /\ writes <= writes'
  BY DEF View, Todo, world, DataOK, TypeWorld
<1> QED BY <1>1, <1>2, ViewFrame DEF windows

LEMMA ViewSettle ==
  ASSUME DataOK, DataOK', View, SettleBefore \/ SettleAfter \/ SettleRetry \/ Compare
  PROVE  View'
<1>0. refresh \in RefreshRecord /\ refresh' \in RefreshRecord
  BY DEF DataOK, TypeTasks
<1>1. /\ UNCHANGED <<windows, lastRendered, opening, world, pendingRefresh>>
      /\ refresh.at # "posting"
  BY DEF SettleBefore, SettleAfter, SettleRetry, Compare, Answered, FailRefresh
<1>2. refresh.todo = {}
  BY <1>1 DEF View, Todo
<1>3. /\ refresh'.at \in {"idle", "settleAfter", "settleRetry", "compare", "stat"}
      /\ refresh'.todo = {} /\ refresh'.ans = Unanswered
  <2> DEFINE Goal == /\ refresh'.at \in {"idle", "settleAfter", "settleRetry",
                                         "compare", "stat"}
                     /\ refresh'.todo = {} /\ refresh'.ans = Unanswered
  <2>0. ASSUME refresh' = Idle PROVE Goal
    BY <2>0, IdleShape
  <2>1. ASSUME NEW at \in {"settleAfter", "settleRetry", "compare", "stat"},
               \/ \E n : refresh' = [refresh EXCEPT !.at = at,
                                     !.ans = Unanswered, !.stat = n]
               \/ refresh' = [refresh EXCEPT !.at = at, !.ans = Unanswered]
        PROVE  Goal
    BY <1>0, <1>2, <2>1 DEF RefreshRecord
  <2>2. ASSUME Unstable PROVE Goal
    BY <2>0, <2>1, <2>2 DEF Unstable, EndRefresh
  <2>3. CASE SettleBefore BY <2>1, <2>2, <2>3 DEF SettleBefore
  <2>4. CASE SettleAfter BY <2>1, <2>2, <2>4 DEF SettleAfter
  <2>5. CASE SettleRetry BY <2>0, <2>5 DEF SettleRetry, EndRefresh
  <2>6. CASE Compare BY <2>0, <2>1, <2>6 DEF Compare, FailRefresh, EndRefresh, AwaitFs
  <2> QED BY <2>3, <2>4, <2>5, <2>6
<1> QED BY <1>1, <1>3, ViewRefreshFrame DEF NotOlder

LEMMA ViewBuild ==
  ASSUME DataOK, DataOK', View, BuildStat \/ BuildRead
  PROVE  View'
<1>0. refresh \in RefreshRecord /\ refresh' \in RefreshRecord
  BY DEF DataOK, TypeTasks
<1>1. /\ UNCHANGED <<windows, lastRendered, opening, world, pendingRefresh>>
      /\ refresh.at \in {"stat", "read"} /\ refresh.ans # Unanswered
  BY DEF BuildStat, BuildRead, Answered, FailRefresh, provider
<1>2. refresh.todo = {}
  BY <1>1 DEF View, Todo
<1>3. CASE FailRefresh
  BY <1>1, <1>3, RecordTypes, ViewRefreshFrame DEF FailRefresh, EndRefresh, Idle
<1>4. CASE BuildStat /\ ~FailRefresh
  <2>1. refresh.ans # 0 /\ lastRendered <= refresh.ans
    BY <1>1, <1>4 DEF BuildStat, View, NewerTasks, NotOlder, Answered
  <2>2. /\ refresh'.at \in {"read", "validate"} /\ refresh'.todo = {}
        /\ refresh'.stat = refresh.ans
    <3>1. CASE fileCache.stat = refresh.ans
      BY <1>0, <1>2, <1>4, <3>1 DEF BuildStat, RefreshRecord
    <3>2. CASE fileCache.stat # refresh.ans
      BY <1>0, <1>2, <1>4, <3>2 DEF BuildStat, RefreshRecord
    <3> QED BY <3>1, <3>2
  <2> QED BY <1>1, <2>1, <2>2, ViewRefreshFrame
<1>5. CASE BuildRead /\ ~FailRefresh
  <2>1. refresh.stat # 0 /\ lastRendered <= refresh.stat
    BY <1>1, <1>5 DEF BuildRead, View, NewerTasks, Answered
  <2>2. /\ refresh'.at = "validate" /\ refresh'.todo = {}
        /\ refresh'.stat = refresh.stat
    BY <1>0, <1>2, <1>5 DEF BuildRead, RefreshRecord
  <2> QED BY <1>1, <2>1, <2>2, ViewRefreshFrame
<1> QED BY <1>3, <1>4, <1>5

LEMMA ViewPublish ==
  ASSUME DataOK, DataOK', Order, Order', OneOpening, View, Validate
  PROVE  View'
<1>0. /\ refresh \in RefreshRecord /\ refresh' \in RefreshRecord
      /\ writes \in Nat /\ lastRendered \in Nat /\ shown \in [Panel -> Nat]
      /\ panels \subseteq Panel /\ visible \subseteq panels
      /\ pendingRefresh \subseteq panels
  BY DEF DataOK, TypeTasks, TypeWorld, TypeProvider, TypeWindows
<1>1. /\ UNCHANGED <<lastRendered, opening, world>> /\ refresh.at = "validate"
  BY DEF Validate, Answered, FailRefresh
<1>2. CASE FailRefresh \/ ReadAgain \/ Withhold
  <2>1. refresh' = Idle /\ UNCHANGED windows /\ pendingRefresh \subseteq pendingRefresh'
    BY <1>0, <1>2 DEF FailRefresh, ReadAgain, Withhold, EndRefresh
  <2> QED BY <1>1, <2>1, RecordTypes, ViewRefreshFrame DEF Idle
<1>3. CASE Publish
  <2>1. PICK p \in visible :
          /\ shown' = Display(p)
          /\ refresh' = [refresh EXCEPT !.at = "posting", !.todo = visible \ {p}]
    BY <1>3 DEF Publish
  <2>2. /\ refresh'.at = "posting" /\ refresh'.todo = visible \ {p}
        /\ refresh'.stat = refresh.stat /\ refresh'.body = refresh.body
    BY <1>0, <2>1 DEF RefreshRecord
  <2>3. /\ p \in Panel
        /\ shown'[p] = IF shown[p] = 0 THEN 0 ELSE refresh.body
        /\ \A q \in Panel : q # p => shown'[q] = shown[q]
    BY <1>0, <2>1 DEF Display
  <2>4. refresh.body = refresh.stat /\ refresh.stat # 0 /\ lastRendered <= refresh.stat
    BY <1>1, <2>2 DEF Order, RefreshOrder, View, NewerTasks
  <2>5. /\ UNCHANGED <<panels, visible>>
        /\ pendingRefresh' = pendingRefresh \cup (panels \ visible)
    BY <1>3 DEF Publish
  <2>6. NewerTasks'
    BY <1>1, <2>2, <2>4 DEF View, NewerTasks, NotOlder
  <2>7. refresh.body <= writes
    BY <1>1 DEF Order, RefreshOrder
  <2>8. Versions'
    BY <1>0, <1>1, <2>1, <2>2, <2>3, <2>4, <2>5, <2>7 DEF View, Versions, world
  <2>9. Todo'
    BY <1>0, <2>2, <2>5 DEF View, Todo, Alone
  <2>10. BehindHidden'
    <3>1. ASSUME NEW q \in panels', Behind(q)' PROVE Marked(q)'
      <4>0. /\ q \in panels /\ lastRendered' = lastRendered
            /\ shown'[p] = 0 \/ lastRendered <= shown'[p]
            /\ refresh.stat \in Nat /\ shown'[p] \in Nat
        BY <1>0, <1>1, <2>3, <2>4, <2>5 DEF RefreshRecord
      <4>1. q # p
        BY <1>0, <4>0, <3>1 DEF Behind
      <4>2. Marked(q)
        BY <1>0, <2>3, <3>1, <4>0, <4>1 DEF View, BehindHidden, Behind
      <4> QED BY <2>5, <4>2 DEF Marked, Alone
    <3> QED BY <3>1 DEF BehindHidden
  <2>11. Posted'
    <3>1. ASSUME NEW q \in panels', q # p, q \notin visible PROVE Marked(q)'
      BY <1>0, <2>5, <3>1 DEF Marked, Alone
    <3>2. ASSUME NEW q \in panels', q \in visible
          PROVE  \/ shown'[q] = 0 \/ q \in refresh'.todo
                 \/ refresh'.stat <= shown'[q]
      <4>1. shown'[p] \in {0, refresh'.stat} /\ refresh'.stat \in Nat
        BY <1>0, <2>1, <2>2, <2>3, <2>4 DEF RefreshRecord
      <4> QED BY <2>2, <3>2, <4>1
    <3>3. ASSUME NEW q \in panels', q \notin visible PROVE Marked(q)'
      BY <2>1, <3>1, <3>3
    <3> QED BY <3>2, <3>3 DEF Posted
  <2> QED BY <2>6, <2>8, <2>9, <2>10, <2>11 DEF View
<1> QED BY <1>2, <1>3 DEF Validate

\* The loop over the visible panels and its end.
LEMMA ViewPost ==
  ASSUME DataOK, DataOK', Order, OneOpening, View,
         Published \/ \E p \in Panel : PostNext(p)
  PROVE  View'
<1>0. /\ refresh \in RefreshRecord /\ refresh.stat \in Nat
      /\ writes \in Nat /\ lastRendered \in Nat /\ shown \in [Panel -> Nat]
      /\ panels \subseteq Panel /\ visible \subseteq panels
  BY DEF DataOK, TypeTasks, TypeWorld, TypeProvider, TypeWindows, RefreshRecord
<1>1. refresh.at = "posting"
  BY DEF Published, PostNext
<1>2. /\ refresh.body = refresh.stat /\ refresh.stat # 0
      /\ lastRendered <= refresh.stat
  BY <1>1 DEF Order, RefreshOrder, View, NewerTasks
<1>3. \A p \in Panel : opening[p] = NoOpen
  BY <1>1, IdleShape DEF OneOpening
<1>4. refresh.stat <= writes
  BY <1>1 DEF View, Versions
<1>5. CASE Published
  <2>1. /\ lastRendered' = refresh.stat /\ refresh' = Idle /\ refresh.todo = {}
        /\ UNCHANGED <<panels, visible, shown, opening, writes, pendingRefresh>>
    BY <1>5 DEF Published, EndRefresh, windows, world
  <2>2. Versions'
    BY <1>0, <1>2, <1>4, <2>1, IdleShape DEF View, Versions
  <2>3. NewerTasks'
    BY <1>3, <2>1, IdleShape DEF NewerTasks, NoOpen
  <2>4. Todo' /\ Posted'
    BY <2>1, IdleShape DEF Todo, Posted
  <2>5. BehindHidden'
    <3>1. ASSUME NEW p \in panels', Behind(p)' PROVE Marked(p)'
      <4>1. p \in panels /\ shown[p] # 0 /\ shown[p] < refresh.stat
        BY <2>1, <3>1 DEF Behind
      <4>2. Marked(p)
        BY <1>0, <1>1, <2>1, <4>1 DEF View, Posted
      <4> QED BY <2>1, <4>2 DEF Marked, Alone
    <3> QED BY <3>1 DEF BehindHidden
  <2> QED BY <2>2, <2>3, <2>4, <2>5 DEF View
<1>6. ASSUME NEW p \in Panel, PostNext(p) PROVE View'
  <2>1. p \in refresh.todo /\ p \in panels
    BY <1>6 DEF PostNext, View, Todo
  <2>2. /\ refresh' = [refresh EXCEPT !.todo = @ \ {p}]
        /\ shown' = Display(p)
        /\ UNCHANGED <<panels, visible, opening, writes, lastRendered, pendingRefresh>>
    BY <1>6, <2>1 DEF PostNext, world, provider
  <2>3. /\ refresh'.at = "posting" /\ refresh'.todo = refresh.todo \ {p}
        /\ refresh'.stat = refresh.stat
    BY <1>0, <1>1, <2>2 DEF RefreshRecord
  <2>4. /\ shown'[p] = IF shown[p] = 0 THEN 0 ELSE refresh.stat
        /\ \A q \in Panel : q # p => shown'[q] = shown[q]
    BY <1>0, <1>2, <2>1, <2>2 DEF Display
  <2>5. Versions'
    BY <1>0, <1>4, <2>1, <2>2, <2>3, <2>4 DEF View, Versions
  <2>6. NewerTasks'
    BY <1>1, <2>2, <2>3 DEF View, NewerTasks, NotOlder
  <2>7. Todo'
    BY <2>2, <2>3 DEF View, Todo, Alone
  <2>8. \A q \in Panel : Marked(q) => Marked(q)'
    BY <2>2 DEF Marked, Alone
  <2>9. BehindHidden'
    BY <1>0, <1>2, <2>2, <2>4, <2>8 DEF View, BehindHidden, Behind
  <2>10. Posted'
    BY <1>0, <1>1, <2>2, <2>3, <2>4, <2>8 DEF View, Posted
  <2> QED BY <2>5, <2>6, <2>7, <2>9, <2>10 DEF View
<1> QED BY <1>5, <1>6

LEMMA ViewStep ==
  ASSUME PromptOpen, Strengthened, Strengthened', OneOpening, View, [Next]_vars, Calm
  PROVE  View'
<1>1. DataOK /\ DataOK' /\ Order /\ Order'
  BY DEF Strengthened
<1>2. CASE World \/ UNCHANGED vars \/ \E p \in Panel : ReleaseCache(p)
  BY <1>1, <1>2, ViewWorld
<1>3. CASE User
  BY <1>1, <1>3, ViewUser DEF User
<1>4. CASE FileSystem
  BY <1>1, <1>4, ViewFileSystem
<1>5. CASE RefreshStep
  BY <1>1, <1>5, ViewSettle, ViewBuild, ViewPublish, ViewPost DEF RefreshStep
<1>6. CASE PanelStep
  BY <1>1, <1>6, ViewFocus, ViewOpen DEF PanelStep
<1>7. CASE EventStep
  BY <1>1, <1>7, ViewEvent
<1> QED BY <1>2, <1>3, <1>4, <1>5, <1>6, <1>7 DEF Next

LEMMA ViewAlways ==
  ASSUME PromptOpen
  PROVE  Spec /\ [][Calm]_vars => [](Strengthened /\ OneOpening /\ View)
<1>1. Init => OneOpening /\ View
  <2> SUFFICES ASSUME Init PROVE OneOpening /\ View
    OBVIOUS
  <2>1. OneOpening /\ NewerTasks
    BY IdleShape DEF Init, OneOpening, NewerTasks, NoOpen
  <2>2. Versions /\ Todo /\ BehindHidden /\ Posted
    BY IdleShape DEF Init, Versions, Todo, BehindHidden, Posted
  <2> QED BY <2>1, <2>2 DEF View
<1>2. Strengthened /\ OneOpening /\ [Next]_vars => OneOpening'
  BY OneOpeningStep DEF Strengthened
<1>3. ASSUME Strengthened, Strengthened', OneOpening, View, [Next]_vars, [Calm]_vars
      PROVE  View'
  <2>1. CASE UNCHANGED vars
    BY <1>3, <2>1, ViewWorld DEF Strengthened
  <2> QED BY <1>3, <2>1, ViewStep
<1> QED BY <1>1, <1>2, <1>3, StrengthenedAlways, PTL DEF Spec

\* In a calm use, a panel behind the last displayed version is marked whatever
\* is in flight.
THEOREM BehindIsMarkedAlways ==
  ASSUME PromptOpen
  PROVE  Spec /\ [][Calm]_vars => []BehindIsMarked
<1>1. View => BehindIsMarked
  BY DEF View, BehindHidden, Behind, Marked, BehindIsMarked
<1> QED BY <1>1, ViewAlways, PTL

-----------------------------------------------------------------------------
(* Viewers that keep up.  Whatever makes a visible panel stale also leaves    *)
(* something that will look at the file again.                                *)

Complete == disk \notin torn \cup {0}

\* Everything the refresh has read so far is the file as it is.
ReadCurrent ==
  /\ refresh.at # "posting" => refresh.ans \in {Unanswered, disk}
  /\ refresh.at \in {"settleAfter", "read", "validate", "posting"} =>
       refresh.stat = disk
  /\ refresh.at = "validate" => refresh.body = disk

RefreshFlow ==
  refresh.at # "idle" /\ panels # {} =>
    /\ refresh.revision <= changeRevision
    /\ refresh.at = "compare" => refresh.stat = lastRendered
    /\ Complete => notify \/ refresh.revision # changeRevision \/ ReadCurrent

OpenFlow ==
  \A p \in Panel :
    opening[p] # NoOpen /\ Complete =>
      notify \/ refreshDebounce \/ opening[p].ans \in {Unanswered, disk}

Stale(p) == Complete /\ ~dirty /\ shown[p] \notin {0, disk}

LooksAgain == notify \/ refreshDebounce \/ refresh.at # "idle"

FocusFinds(p) == /\ focus[p].on /\ focus[p].rendered # disk
                 /\ focus[p].ans \in {Unanswered, disk}

Scheduled == \A p \in visible : Stale(p) => LooksAgain \/ FocusFinds(p)

Flow == RefreshFlow /\ OpenFlow /\ Scheduled

\* Steps after which the watcher will report.
LEMMA FlowNotified ==
  ASSUME DataOK, OneOpening, Flow,
         notify' = TRUE \/ panels = {},
         UNCHANGED <<provider, windows, tasks>>
  PROVE  Flow'
<1> USE DEF provider, windows, tasks
<1>1. panels = {} => visible = {} /\ \A p \in Panel : opening[p] = NoOpen
  BY DEF OneOpening, DataOK, TypeWindows
<1>2. RefreshFlow'
  BY DEF Flow, RefreshFlow
<1>3. OpenFlow' /\ Scheduled'
  BY <1>1 DEF OpenFlow, Scheduled, LooksAgain
<1> QED BY <1>2, <1>3 DEF Flow

LEMMA FlowWorld ==
  ASSUME ReliableWatcher, "discard" \notin UserMoves, DataOK, OneOpening, Flow,
         World \/ UNCHANGED vars \/ \E p \in Panel : ReleaseCache(p)
  PROVE  Flow'
<1>1. CASE ExternalWrite \/ EditorSave
  <2>1. (notify' = TRUE \/ panels = {}) /\ UNCHANGED <<provider, windows, tasks>>
    BY <1>1 DEF ExternalWrite, EditorSave
  <2> QED BY <2>1, FlowNotified
<1>2. CASE ~ExternalWrite /\ ~EditorSave
  <2> USE DEF provider, windows, tasks, world
  <2>1. /\ UNCHANGED <<windows, tasks, lastRendered, changeRevision,
                       refreshDebounce, disk, torn, notify>>
        /\ dirty => dirty'
    BY <1>2 DEF World, LoseNotification, EditorEdit, EditorDiscard, UserMove,
       ReleaseCache, vars
  <2>2. RefreshFlow' /\ OpenFlow'
    BY <2>1 DEF Flow, RefreshFlow, OpenFlow, Complete, ReadCurrent
  <2>3. Scheduled'
    BY <2>1 DEF Flow, Scheduled, LooksAgain, FocusFinds, Stale, Complete
  <2> QED BY <2>2, <2>3 DEF Flow
<1> QED BY <1>1, <1>2

LEMMA FlowFileSystem ==
  ASSUME DataOK, Flow, FileSystem
  PROVE  Flow'
<1> USE DEF provider, windows, tasks, world
<1>0. /\ opening \in [Panel -> OpenRecord] /\ refresh \in RefreshRecord
      /\ focus \in [Panel -> FocusRecord] /\ visible \subseteq Panel
  BY DEF DataOK, TypeTasks, TypeWindows
<1>1. UNCHANGED <<provider, windows, world>>
  BY DEF FileSystem, FsAnswerRefresh, FsAnswerOpening, FsAnswerFocus
<1>2. Complete' = Complete
  BY <1>1 DEF Complete
<1>3. CASE FsAnswerRefresh
  <2>1. /\ refresh'.ans = disk /\ refresh'.at = refresh.at
        /\ refresh'.revision = refresh.revision
        /\ refresh'.body = refresh.body /\ refresh'.stat = refresh.stat
        /\ UNCHANGED <<opening, focus>>
    BY <1>3, <1>0 DEF FsAnswerRefresh, RefreshRecord
  <2>2. RefreshFlow'
    BY <1>1, <1>2, <2>1 DEF Flow, RefreshFlow, ReadCurrent
  <2>3. OpenFlow' /\ Scheduled'
    BY <1>1, <1>2, <2>1 DEF Flow, OpenFlow, Scheduled, LooksAgain, FocusFinds, Stale
  <2> QED BY <2>2, <2>3 DEF Flow
<1>4. ASSUME NEW p \in Panel, FsAnswerOpening(p) PROVE Flow'
  <2>1. /\ opening'[p].ans = disk /\ UNCHANGED <<refresh, focus>>
        /\ \A q \in Panel : q # p => opening'[q] = opening[q]
    BY <1>0, <1>4 DEF FsAnswerOpening, OpenRecord
  <2>2. OpenFlow'
    BY <1>1, <1>2, <2>1 DEF Flow, OpenFlow
  <2>3. RefreshFlow' /\ Scheduled'
    BY <1>1, <1>2, <2>1 DEF Flow, RefreshFlow, ReadCurrent, Scheduled,
       LooksAgain, FocusFinds, Stale
  <2> QED BY <2>2, <2>3 DEF Flow
<1>5. ASSUME NEW p \in Panel, FsAnswerFocus(p) PROVE Flow'
  <2>1. /\ focus'[p].ans = disk /\ focus'[p].on = focus[p].on
        /\ focus'[p].rendered = focus[p].rendered
        /\ UNCHANGED <<refresh, opening>>
        /\ \A q \in Panel : q # p => focus'[q] = focus[q]
    BY <1>0, <1>5 DEF FsAnswerFocus, FocusRecord
  <2>2. \A q \in Panel : FocusFinds(q) => FocusFinds(q)'
    BY <1>1, <2>1 DEF FocusFinds
  <2>3. Scheduled'
    BY <1>0, <1>1, <1>2, <2>1, <2>2 DEF Flow, Scheduled, LooksAgain, Stale
  <2>4. RefreshFlow' /\ OpenFlow'
    BY <1>1, <1>2, <2>1 DEF Flow, RefreshFlow, ReadCurrent, OpenFlow
  <2> QED BY <2>3, <2>4 DEF Flow
<1> QED BY <1>3, <1>4, <1>5 DEF FileSystem

\* A call of refreshDocument leaves a refresh in flight, unless nothing is
\* visible or an editor is dirty.
LEMMA FlowStart ==
  ASSUME DataOK, Flow, RefreshDocument(visible'), OpenInTime, PromptOpen,
         UNCHANGED <<panels, opening, changeRevision, lastRendered, disk, torn,
                     notify, dirty>>
  PROVE  Flow'
<1>0. changeRevision \in Nat
  BY DEF DataOK, TypeProvider
<1>1. Complete' = Complete
  BY DEF Complete
<1>2. RefreshFlow'
  <2>1. CASE UNCHANGED refresh
    BY <1>1, <2>1 DEF Flow, RefreshFlow, ReadCurrent
  <2>2. CASE ~UNCHANGED refresh
    <3>1. /\ refresh'.at \in {"settleBefore", "stat"} /\ refresh'.ans = Unanswered
          /\ refresh'.revision = changeRevision
      BY <2>2, StartShape
    <3> QED BY <1>0, <3>1 DEF RefreshFlow, ReadCurrent
  <2> QED BY <2>1, <2>2
<1>3. OpenFlow'
  BY DEF OpenFlow, OpenInTime
<1>4. Scheduled'
  <2>1. visible' = {} \/ refresh'.at # "idle" \/ dirty
    <3>1. UNCHANGED refresh \/ refresh'.at \in {"settleBefore", "stat"}
      BY StartShape
    <3>2. CASE UNCHANGED refresh /\ refresh.at = "idle" /\ visible' # {} /\ ~dirty
      BY <3>2, IdleShape DEF RefreshDocument, Idle
    <3> QED BY <3>1, <3>2
  <2> QED BY <2>1 DEF Scheduled, LooksAgain, Stale
<1> QED BY <1>2, <1>3, <1>4 DEF Flow

\* A detected change schedules a refresh and outdates the one in flight.
LEMMA FlowChanged ==
  ASSUME AutoRefresh, DataOK, OneOpening, Flow, ExternalFileChanged, panels # {},
         UNCHANGED <<panels, visible, shown, lastRendered, refresh, disk, torn, dirty>>,
         \A p \in Panel : opening'[p] = opening[p]
  PROVE  Flow'
<1>0. changeRevision \in Nat /\ refresh.revision \in Nat /\ visible \subseteq Panel
  BY DEF DataOK, TypeProvider, TypeTasks, RefreshRecord, TypeWindows
<1>1. changeRevision' = changeRevision + 1 /\ (visible # {} => refreshDebounce' = TRUE)
  BY DEF ExternalFileChanged
<1>2. RefreshFlow'
  BY <1>0, <1>1 DEF Flow, RefreshFlow
<1>3. OpenFlow' /\ Scheduled'
  BY <1>1 DEF OneOpening, OpenFlow, Scheduled, LooksAgain
<1> QED BY <1>2, <1>3 DEF Flow

LEMMA FlowEvent ==
  ASSUME PromptOpen, AutoRefresh, DataOK, OneOpening, Flow, EventStep
  PROVE  Flow'
<1> USE DEF provider, windows, tasks, world
<1>1. CASE WatcherEvent
  <2>1. CASE panels # {}
    BY <1>1, <2>1, FlowChanged DEF WatcherEvent
  <2>2. CASE panels = {}
    <3>1. /\ UNCHANGED <<panels, visible, opening>> /\ visible = {}
          /\ \A p \in Panel : opening[p] = NoOpen
      BY <1>1, <2>2 DEF WatcherEvent, OneOpening, DataOK, TypeWindows
    <3> QED BY <2>2, <3>1 DEF Flow, RefreshFlow, OpenFlow, Scheduled
  <2> QED BY <2>1, <2>2
<1>2. CASE SaveHook
  <2>1. /\ UNCHANGED <<windows, tasks, lastRendered, changeRevision, disk, torn,
                       notify, dirty>>
        /\ refreshDebounce => refreshDebounce'
    BY <1>2 DEF SaveHook
  <2>2. RefreshFlow' /\ OpenFlow'
    BY <2>1 DEF Flow, RefreshFlow, OpenFlow, Complete, ReadCurrent
  <2>3. Scheduled'
    BY <2>1 DEF Flow, Scheduled, LooksAgain, FocusFinds, Stale, Complete
  <2> QED BY <2>2, <2>3 DEF Flow
<1>3. CASE DebounceFires
  BY <1>3, FlowStart DEF DebounceFires
<1> QED BY <1>1, <1>2, <1>3 DEF EventStep

\* A panel in view that is not behind shows the file, if the marker does.
LEMMA MarkerCurrent ==
  ASSUME DataOK, View, NEW p \in panels, ~Marked(p), lastRendered = disk, disk # 0,
         shown[p] # 0
  PROVE  shown[p] = disk
<1>1. /\ disk = writes /\ writes \in Nat /\ shown[p] \in Nat /\ p \in Panel
  BY DEF DataOK, TypeWorld, TypeWindows
<1> QED BY <1>1 DEF View, Versions, BehindHidden, Behind

LEMMA FlowUser ==
  ASSUME PromptOpen, AutoRefresh, DataOK, DataOK', OneOpening, View, Flow, Calm,
         NEW p \in Panel
  PROVE  /\ OpenPanel(p) => Flow'
         /\ ClosePanel(p) => Flow'
         /\ HidePanel(p) => Flow'
         /\ ShowPanel(p) => Flow'
         /\ RequestRefresh(p) => Flow'
<1> USE DEF provider, windows, tasks, world
<1>0. /\ shown \in [Panel -> Nat] /\ panels \subseteq Panel
      /\ visible \subseteq panels /\ opening \in [Panel -> OpenRecord]
      /\ focus \in [Panel -> FocusRecord]
  BY DEF DataOK, TypeWindows, TypeTasks
<1>1. ASSUME OpenPanel(p) PROVE Flow'
  <2>1. /\ refresh' = Idle /\ refresh = Idle /\ visible' = visible \cup {p}
        /\ p \notin panels /\ OpenInTime
        /\ UNCHANGED <<shown, focus, refreshDebounce, disk, torn, dirty, notify>>
    BY <1>1 DEF OpenPanel, UserMove
  <2>2. \A q \in Panel : opening'[q] = NoOpen \/ opening'[q].ans = Unanswered
    BY <1>0, <1>1, <2>1 DEF OpenPanel, OpenInTime, NoOpen
  <2>3. shown[p] = 0
    BY <2>1 DEF View, Versions
  <2>4. Scheduled'
    BY <2>1, <2>3, IdleShape DEF Flow, Scheduled, LooksAgain, FocusFinds, Stale, Complete
  <2> QED BY <2>1, <2>2, <2>4, IdleShape DEF Flow, RefreshFlow, OpenFlow
<1>2. ASSUME ClosePanel(p) PROVE Flow'
  <2>1. /\ OpenInTime /\ UNCHANGED <<tasks, disk, torn, dirty>>
        /\ panels' = panels \ {p} /\ visible' = visible \ {p} /\ p \in panels
        /\ shown' = [shown EXCEPT ![p] = 0]
        /\ panels' # {} => UNCHANGED <<refreshDebounce, changeRevision,
                                       lastRendered, notify>>
    BY <1>2 DEF ClosePanel, UserMove
  <2>2. Complete' = Complete
    BY <2>1 DEF Complete
  <2>3. RefreshFlow'
    BY <2>1, <2>2 DEF Flow, RefreshFlow, ReadCurrent
  <2>4. OpenFlow'
    BY <2>1 DEF OpenFlow, OpenInTime
  <2>5. CASE panels' = {}
    BY <1>0, <2>1, <2>3, <2>4, <2>5 DEF Flow, Scheduled
  <2>6. CASE panels' # {}
    <3>1. \A q \in visible' : q \in visible /\ shown'[q] = shown[q]
      BY <1>0, <2>1
    <3>2. Scheduled'
      BY <2>1, <2>2, <2>6, <3>1 DEF Flow, Scheduled, LooksAgain, FocusFinds, Stale
    <3> QED BY <2>3, <2>4, <3>2 DEF Flow
  <2> QED BY <2>5, <2>6
<1>3. ASSUME HidePanel(p) PROVE Flow'
  <2>1. /\ visible' \subseteq visible
        /\ UNCHANGED <<panels, shown, tasks, lastRendered, refreshDebounce,
                       changeRevision, disk, torn, dirty, notify>>
    BY <1>3 DEF HidePanel
  <2>2. RefreshFlow' /\ OpenFlow'
    BY <2>1 DEF Flow, RefreshFlow, OpenFlow, Complete, ReadCurrent
  <2>3. Scheduled'
    BY <2>1 DEF Flow, Scheduled, LooksAgain, FocusFinds, Stale, Complete
  <2> QED BY <2>2, <2>3 DEF Flow
<1>4. ASSUME ShowPanel(p) PROVE Flow'
  <2>1. /\ OpenInTime /\ p \in panels /\ visible' = visible \cup {p}
        /\ UNCHANGED <<panels, shown, refreshDebounce, lastRendered,
                       changeRevision, opening, disk, torn, dirty, notify>>
    BY <1>4 DEF ShowPanel, UserMove
  <2>2. CASE p \in pendingRefresh
    BY <1>4, <2>1, <2>2, FlowStart DEF ShowPanel
  <2>3. CASE p \notin pendingRefresh
    <3>1. /\ UNCHANGED refresh /\ ~focus[p].on
          /\ focus' = [focus EXCEPT ![p] = [NoFocus EXCEPT
                         !.on = TRUE, !.rendered = lastRendered]]
      BY <1>4, <2>3 DEF ShowPanel
    <3>2. /\ focus'[p].on = TRUE /\ focus'[p].rendered = lastRendered
          /\ focus'[p].ans = Unanswered
          /\ \A q \in Panel : q # p => focus'[q] = focus[q]
      BY <1>0, <3>1 DEF NoFocus
    <3>3. RefreshFlow' /\ OpenFlow'
      BY <2>1, <3>1 DEF Flow, RefreshFlow, OpenFlow, Complete, ReadCurrent
    <3>4. Stale(p)' => FocusFinds(p)'
      <4>1. ~Marked(p)
        BY <2>3 DEF Marked
      <4> QED BY <2>1, <3>2, <4>1, MarkerCurrent DEF Stale, Complete, FocusFinds
    <3>5. ASSUME NEW q \in visible, q # p, Stale(q)' PROVE LooksAgain' \/ FocusFinds(q)'
      BY <1>0, <2>1, <3>1, <3>2, <3>5 DEF Flow, Scheduled, LooksAgain,
         FocusFinds, Stale, Complete
    <3>6. Scheduled'
      BY <2>1, <3>4, <3>5 DEF Scheduled
    <3> QED BY <3>3, <3>6 DEF Flow
  <2> QED BY <2>2, <2>3
<1>5. ASSUME RequestRefresh(p) PROVE Flow'
  BY <1>5, FlowStart DEF RequestRefresh, UserMove
<1> QED BY <1>1, <1>2, <1>3, <1>4, <1>5

\* A first load that ends leaves the panel without an image, with the file as
\* it is, or with something that will look again.
LEMMA FlowOpen ==
  ASSUME DataOK, Order, OneOpening, Flow, NEW p \in Panel, OpenStat(p) \/ OpenRead(p)
  PROVE  Flow'
<1> USE DEF windows, world
<1>0. /\ shown \in [Panel -> Nat] /\ opening \in [Panel -> OpenRecord]
      /\ fileCache \in [stat : Nat, body : Nat] /\ visible \subseteq Panel
      /\ writes \in Nat /\ disk \in {0, writes}
  BY DEF DataOK, TypeWindows, TypeTasks, TypeProvider, TypeWorld
<1>1. /\ UNCHANGED <<panels, visible, refreshDebounce, changeRevision, refresh,
                     focus, disk, torn, dirty, notify>>
      /\ opening[p] # NoOpen
  BY DEF OpenStat, OpenRead, NoOpen
<1>2. refresh = Idle
  BY <1>1 DEF OneOpening
<1>3. RefreshFlow'
  BY <1>1, <1>2, IdleShape DEF RefreshFlow
<1>4. OpenFlow'
  <2>1. /\ opening'[p] = NoOpen \/ opening'[p].ans = Unanswered
        /\ \A q \in Panel : q # p => opening'[q] = opening[q]
    BY <1>0 DEF OpenStat, OpenRead, OpenFails, SetHtml
  <2> QED BY <1>1, <2>1 DEF Flow, OpenFlow, Complete
<1>5. \A q \in Panel : q # p => shown'[q] = shown[q]
  BY <1>0 DEF OpenStat, OpenRead, OpenFails, SetHtml
<1>6. \/ shown'[p] = shown[p] \/ shown'[p] = 0
      \/ opening[p].ans # 0 /\ (opening[p].ans = disk => shown'[p] = disk)
  <2>1. CASE OpenFails(p)
    BY <1>0, <2>1 DEF OpenFails
  <2>2. CASE OpenStat(p) /\ opening[p].ans # 0 /\ fileCache.stat = opening[p].ans
             /\ SetHtml(p, fileCache)
    <3>1. opening[p].ans = disk => fileCache.body = disk
      BY <1>0, <2>2 DEF Order, CacheOrder
    <3>2. shown'[p] = shown[p] \/ shown'[p] = fileCache.body
      BY <1>0, <2>2 DEF SetHtml
    <3> QED BY <2>2, <3>1, <3>2
  <2>3. CASE UNCHANGED shown
    BY <2>3
  <2>4. CASE opening[p].ans # 0 /\ SetHtml(p, fileCache')
             /\ fileCache' = [stat |-> opening[p].stat, body |-> opening[p].ans]
    BY <1>0, <2>4 DEF SetHtml
  <2> QED BY <2>1, <2>2, <2>3, <2>4 DEF OpenStat, OpenRead
<1>7. ASSUME NEW q \in visible, Stale(q)' PROVE LooksAgain' \/ FocusFinds(q)'
  <2>1. CASE shown'[q] = shown[q]
    BY <1>1, <1>7, <2>1 DEF Flow, Scheduled, LooksAgain, FocusFinds, Stale, Complete
  <2>2. CASE shown'[q] # shown[q]
    <3>1. q = p /\ opening[p].ans # disk /\ opening[p].ans # Unanswered /\ Complete
      BY <1>0, <1>1, <1>5, <1>6, <1>7, <2>2
         DEF Stale, Complete, OpenStat, OpenRead
    <3> QED BY <1>1, <3>1 DEF Flow, OpenFlow, LooksAgain
  <2> QED BY <2>1, <2>2
<1>8. Scheduled'
  BY <1>1, <1>7 DEF Scheduled
<1> QED BY <1>3, <1>4, <1>8 DEF Flow

\* A focus check that finds another version schedules a refresh.
LEMMA FlowFocus ==
  ASSUME AutoRefresh, DataOK, OneOpening, Flow, NEW p \in Panel, FocusChecked(p)
  PROVE  Flow'
<1> USE DEF windows, world
<1>0. focus \in [Panel -> FocusRecord] /\ visible \subseteq panels
  BY DEF DataOK, TypeTasks, TypeWindows
<1>1. UNCHANGED <<panels, visible, shown, lastRendered, refresh, opening, disk,
                  torn, dirty, notify>>
  BY DEF FocusChecked
<1>2. CASE ExternalFileChanged /\ panels # {}
  BY <1>1, <1>2, FlowChanged
<1>3. CASE ~(ExternalFileChanged /\ panels # {})
  <2>1. UNCHANGED <<refreshDebounce, changeRevision>>
    BY <1>3 DEF FocusChecked, ExternalFileChanged
  <2>2. RefreshFlow' /\ OpenFlow'
    BY <1>1, <2>1 DEF Flow, RefreshFlow, OpenFlow, Complete, ReadCurrent
  <2>3. Scheduled'
    <3>1. ASSUME NEW q \in visible, Stale(q), FocusFinds(q) PROVE FocusFinds(q)'
      <4>1. panels # {} /\ disk # 0
        BY <1>0, <3>1 DEF Stale, Complete
      <4>2. q # p
        BY <1>3, <3>1, <4>1 DEF FocusChecked, FocusFinds
      <4>3. focus'[q] = focus[q]
        BY <1>0, <4>2 DEF FocusChecked
      <4> QED BY <1>1, <3>1, <4>3 DEF FocusFinds
    <3> QED BY <1>1, <2>1, <3>1 DEF Flow, Scheduled, LooksAgain, Stale, Complete
  <2> QED BY <2>2, <2>3 DEF Flow
<1> QED BY <1>2, <1>3

\* A refresh that goes on.
LEMMA FlowOn ==
  ASSUME OneOpening, Flow, refresh.at # "idle", refresh'.at # "idle",
         refresh'.revision = refresh.revision,
         UNCHANGED <<panels, changeRevision, lastRendered, opening, disk, torn, notify>>,
         refresh'.at = "compare" => refresh'.stat = lastRendered,
         Complete /\ ReadCurrent => ReadCurrent'
  PROVE  Flow'
<1>1. Complete' = Complete
  BY DEF Complete
<1>2. RefreshFlow'
  BY <1>1 DEF Flow, RefreshFlow
<1>3. OpenFlow'
  BY IdleShape DEF OneOpening, OpenFlow
<1>4. Scheduled'
  BY DEF Scheduled, LooksAgain
<1> QED BY <1>2, <1>3, <1>4 DEF Flow

\* A refresh that ends: unless it read the file as it is, the finally block
\* or the watcher makes another one.
LEMMA FlowEnd ==
  ASSUME DataOK, OneOpening, Flow, refresh.at # "idle", refresh' = Idle,
         refresh.revision # changeRevision => refreshDebounce',
         UNCHANGED <<panels, visible, opening, disk, torn, notify, dirty>>,
         ReadCurrent /\ Complete /\ ~dirty =>
           refreshDebounce' \/ \A p \in visible : shown'[p] \in {0, disk}
  PROVE  Flow'
<1>1. Complete' = Complete /\ (panels = {} => visible = {})
  BY DEF Complete, DataOK, TypeWindows
<1>2. RefreshFlow'
  BY IdleShape DEF RefreshFlow
<1>3. OpenFlow'
  BY IdleShape DEF OneOpening, OpenFlow
<1>4. Scheduled'
  BY <1>1 DEF Flow, RefreshFlow, Scheduled, LooksAgain, Stale
<1> QED BY <1>2, <1>3, <1>4 DEF Flow

LEMMA FlowSettle ==
  ASSUME DataOK, OneOpening, View, Flow,
         SettleBefore \/ SettleAfter \/ SettleRetry \/ Compare
  PROVE  Flow'
<1> USE DEF windows, world
<1>0. /\ refresh \in RefreshRecord /\ visible \subseteq panels
      /\ refresh.ans # Unanswered /\ refresh.at \notin {"idle", "posting"}
  BY DEF DataOK, TypeTasks, TypeWindows, SettleBefore, SettleAfter, SettleRetry,
     Compare, Answered
<1>1. UNCHANGED <<panels, visible, shown, lastRendered, changeRevision, opening,
                  disk, torn, dirty, notify>>
  BY DEF SettleBefore, SettleAfter, SettleRetry, Compare, FailRefresh
<1>2. ReadCurrent => refresh.ans = disk
  BY <1>0 DEF ReadCurrent
\* The answers that end a settling refresh early are not the file's.
<1>3. ASSUME EndRefresh(FALSE), ReadCurrent => refresh.ans = 0 \/ refresh.ans # disk
      PROVE  Flow'
  BY <1>0, <1>1, <1>2, <1>3, FlowEnd DEF EndRefresh, Complete
<1>4. ASSUME Unstable, ReadCurrent => refresh.ans = 0 \/ refresh.ans # disk
      PROVE  Flow'
  <2>1. CASE refresh' = [refresh EXCEPT !.at = "settleRetry",
                           !.ans = Unanswered, !.stat = settleRetries]
    <3>1. /\ refresh'.at = "settleRetry" /\ refresh'.ans = Unanswered
          /\ refresh'.revision = refresh.revision
      BY <1>0, <2>1 DEF RefreshRecord
    <3> QED BY <1>0, <1>1, <3>1, FlowOn DEF ReadCurrent
  <2>2. CASE EndRefresh(FALSE)
    BY <1>3, <1>4, <2>2
  <2> QED BY <1>4, <2>1, <2>2 DEF Unstable
<1>5. CASE SettleBefore
  <2>1. CASE refresh.ans = 0
    BY <1>4, <1>5, <2>1 DEF SettleBefore
  <2>2. CASE refresh.ans # 0
    <3>1. /\ refresh'.at = "settleAfter" /\ refresh'.ans = Unanswered
          /\ refresh'.revision = refresh.revision /\ refresh'.stat = refresh.ans
      BY <1>0, <1>5, <2>2 DEF SettleBefore, RefreshRecord
    <3> QED BY <1>0, <1>1, <1>2, <3>1, FlowOn DEF ReadCurrent
  <2> QED BY <2>1, <2>2
<1>6. CASE SettleAfter
  <2>1. CASE refresh.ans # refresh.stat
    <3>1. ReadCurrent => refresh.ans # disk
      BY <1>6, <2>1 DEF SettleAfter, Answered, ReadCurrent
    <3> QED BY <1>4, <1>6, <2>1, <3>1 DEF SettleAfter
  <2>2. CASE refresh.ans = refresh.stat
    <3>1. /\ refresh'.at = "compare" /\ refresh'.ans = Unanswered
          /\ refresh'.revision = refresh.revision /\ refresh'.stat = lastRendered
      BY <1>0, <1>6, <2>2 DEF SettleAfter, RefreshRecord
    <3> QED BY <1>0, <1>1, <3>1, FlowOn DEF ReadCurrent
  <2> QED BY <2>1, <2>2
<1>7. CASE SettleRetry
  BY <1>0, <1>1, <1>2, <1>7, FlowEnd DEF SettleRetry, EndRefresh, Complete
<1>8. CASE Compare
  <2>1. CASE refresh.ans = 0 /\ FailRefresh
    BY <1>3, <2>1 DEF FailRefresh
  <2>2. CASE refresh.ans # 0 /\ refresh.ans = refresh.stat /\ EndRefresh(FALSE)
    <3>1. ASSUME NEW p \in visible, ReadCurrent, shown[p] # 0 PROVE shown[p] = disk
      <4>1. lastRendered = disk /\ disk # 0
        BY <1>0, <1>2, <1>8, <2>2, <3>1 DEF Compare, Answered, Flow, RefreshFlow
      <4>2. p \in panels /\ ~Marked(p)
        BY <1>0 DEF Marked
      <4> QED BY <3>1, <4>1, <4>2, MarkerCurrent
    <3> QED BY <1>0, <1>1, <2>2, <3>1, FlowEnd DEF EndRefresh
  <2>3. CASE AwaitFs("stat")
    <3>1. /\ refresh'.at = "stat" /\ refresh'.ans = Unanswered
          /\ refresh'.revision = refresh.revision
      BY <1>0, <2>3 DEF AwaitFs, RefreshRecord
    <3> QED BY <1>0, <1>1, <3>1, FlowOn DEF ReadCurrent
  <2> QED BY <1>8, <2>1, <2>2, <2>3 DEF Compare
<1> QED BY <1>5, <1>6, <1>7, <1>8

LEMMA FlowBuild ==
  ASSUME DataOK, Order, OneOpening, Flow, BuildStat \/ BuildRead
  PROVE  Flow'
<1> USE DEF windows, world, provider
<1>0. /\ refresh \in RefreshRecord /\ fileCache \in [stat : Nat, body : Nat]
      /\ writes \in Nat /\ disk \in {0, writes}
      /\ refresh.ans # Unanswered /\ refresh.at \in {"stat", "read"}
  BY DEF DataOK, TypeTasks, TypeProvider, TypeWorld, BuildStat, BuildRead, Answered
<1>1. UNCHANGED <<panels, visible, shown, lastRendered, changeRevision, opening,
                  disk, torn, dirty, notify>>
  BY DEF BuildStat, BuildRead, FailRefresh
<1>2. ReadCurrent => refresh.ans = disk
  BY <1>0 DEF ReadCurrent
<1>3. CASE FailRefresh /\ (refresh.ans = 0 \/ refresh.ans \in torn)
  BY <1>0, <1>1, <1>2, <1>3, FlowEnd DEF FailRefresh, EndRefresh, Complete
<1>4. CASE BuildStat /\ refresh.ans # 0
  <2>1. CASE fileCache.stat = refresh.ans
    <3>1. /\ refresh'.at = "validate" /\ refresh'.ans = Unanswered
          /\ refresh'.revision = refresh.revision /\ refresh'.stat = refresh.ans
          /\ refresh'.body = fileCache.body
      BY <1>0, <1>4, <2>1 DEF BuildStat, RefreshRecord
    <3>2. refresh.ans = disk => fileCache.body = disk
      BY <1>0, <1>4, <2>1 DEF Order, CacheOrder
    <3> QED BY <1>0, <1>1, <1>2, <3>1, <3>2, FlowOn DEF ReadCurrent
  <2>2. CASE fileCache.stat # refresh.ans
    <3>1. /\ refresh'.at = "read" /\ refresh'.ans = Unanswered
          /\ refresh'.revision = refresh.revision /\ refresh'.stat = refresh.ans
      BY <1>0, <1>4, <2>2 DEF BuildStat, RefreshRecord
    <3> QED BY <1>0, <1>1, <1>2, <3>1, FlowOn DEF ReadCurrent
  <2> QED BY <2>1, <2>2
<1>5. CASE BuildRead /\ refresh.ans # 0 /\ ~(refresh.external /\ refresh.ans \in torn)
  <2>1. /\ refresh'.at = "validate" /\ refresh'.ans = Unanswered
        /\ refresh'.revision = refresh.revision /\ refresh'.stat = refresh.stat
        /\ refresh'.body = refresh.ans
    BY <1>0, <1>5 DEF BuildRead, RefreshRecord
  <2>2. ReadCurrent => refresh.stat = disk
    BY <1>5 DEF BuildRead, Answered, ReadCurrent
  <2> QED BY <1>0, <1>1, <1>2, <2>1, <2>2, FlowOn DEF ReadCurrent
<1> QED BY <1>3, <1>4, <1>5 DEF BuildStat, BuildRead

LEMMA FlowPublish ==
  ASSUME DataOK, Order, OneOpening, View, Flow,
         Validate \/ Published \/ \E p \in Panel : PostNext(p)
  PROVE  Flow'
<1> USE DEF windows, world
<1>0. /\ refresh \in RefreshRecord /\ visible \subseteq panels /\ panels \subseteq Panel
      /\ shown \in [Panel -> Nat] /\ writes \in Nat /\ disk \in {0, writes}
      /\ refresh.at \in {"validate", "posting"}
      /\ refresh.at = "validate" => refresh.ans # Unanswered
  BY DEF DataOK, TypeTasks, TypeWindows, TypeWorld, Validate, Published,
     PostNext, Answered
<1>1. UNCHANGED <<panels, visible, changeRevision, opening, disk, torn, dirty, notify>>
  BY DEF Validate, ReadAgain, Withhold, Publish, Published, PostNext,
     FailRefresh, provider
<1>2. CASE Validate
  <2>0. refresh.at = "validate"
    BY <1>2 DEF Validate, Answered
  <2>1. CASE refresh.ans = 0 /\ FailRefresh
    BY <1>0, <1>1, <2>0, <2>1, FlowEnd DEF FailRefresh, EndRefresh, Complete, ReadCurrent
  <2>2. CASE ReadAgain
    BY <1>0, <1>1, <2>0, <2>2, FlowEnd DEF ReadAgain, EndRefresh
  <2>3. CASE Withhold /\ (visible = {} \/ dirty)
    BY <1>0, <1>1, <1>2, <2>0, <2>3, FlowEnd DEF Withhold, EndRefresh
  <2>4. CASE Publish /\ refresh.ans # 0
    <3>1. /\ refresh'.at = "posting" /\ refresh'.revision = refresh.revision
          /\ refresh'.stat = refresh.stat
      BY <1>0, <2>4 DEF Publish, RefreshRecord
    <3>2. UNCHANGED lastRendered
      BY <1>2 DEF Validate, FailRefresh
    <3> QED BY <1>0, <1>1, <2>0, <3>1, <3>2, FlowOn DEF ReadCurrent
  <2> QED BY <1>2, <2>1, <2>2, <2>3, <2>4 DEF Validate
<1>3. ASSUME NEW p \in Panel, PostNext(p) PROVE Flow'
  <2>1. p \in panels /\ UNCHANGED lastRendered
    BY <1>3 DEF PostNext, View, Todo, provider
  <2>2. /\ refresh'.at = "posting" /\ refresh'.revision = refresh.revision
        /\ refresh'.stat = refresh.stat /\ refresh.at = "posting"
    BY <1>0, <1>3, <2>1 DEF PostNext, RefreshRecord
  <2> QED BY <1>1, <2>1, <2>2, FlowOn DEF ReadCurrent
<1>4. CASE Published
  <2>1. /\ refresh.at = "posting" /\ refresh.todo = {} /\ UNCHANGED shown
        /\ EndRefresh(FALSE)
    BY <1>4 DEF Published
  <2>2. ASSUME NEW p \in visible, ReadCurrent, Complete PROVE shown[p] \in {0, disk}
    <3>1. refresh.stat = disk /\ disk = writes
      BY <1>0, <2>1, <2>2 DEF ReadCurrent, Complete
    <3>2. ~Marked(p) /\ p \in panels
      BY <1>0 DEF Marked
    <3> QED BY <1>0, <2>1, <3>1, <3>2 DEF View, Posted, Versions
  <2> QED BY <1>1, <2>1, <2>2, FlowEnd DEF EndRefresh
<1> QED BY <1>2, <1>3, <1>4

LEMMA FlowStep ==
  ASSUME PromptOpen, AutoRefresh, ReliableWatcher, "discard" \notin UserMoves,
         Strengthened, Strengthened', OneOpening, View, Flow, [Next]_vars, Calm
  PROVE  Flow'
<1>1. DataOK /\ DataOK' /\ Order
  BY DEF Strengthened
<1>2. CASE World \/ UNCHANGED vars \/ \E p \in Panel : ReleaseCache(p)
  BY <1>1, <1>2, FlowWorld
<1>3. CASE User
  BY <1>1, <1>3, FlowUser DEF User
<1>4. CASE FileSystem
  BY <1>1, <1>4, FlowFileSystem
<1>5. CASE RefreshStep
  BY <1>1, <1>5, FlowSettle, FlowBuild, FlowPublish DEF RefreshStep
<1>6. CASE PanelStep
  BY <1>1, <1>6, FlowFocus, FlowOpen DEF PanelStep
<1>7. CASE EventStep
  BY <1>1, <1>7, FlowEvent
<1> QED BY <1>2, <1>3, <1>4, <1>5, <1>6, <1>7 DEF Next

\* In a calm use without lost events or discarded edits, every visible panel
\* with an image shows the file once nothing is in flight or scheduled.
THEOREM KeepsUpAlways ==
  ASSUME PromptOpen, AutoRefresh, ReliableWatcher, "discard" \notin UserMoves
  PROVE  Spec /\ [][Calm]_vars => []KeepsUp
<1>1. Init => Flow
  BY IdleShape DEF Init, Flow, RefreshFlow, OpenFlow, Scheduled
<1>2. ASSUME Strengthened, Strengthened', OneOpening, View, Flow, [Next]_vars,
             [Calm]_vars
      PROVE  Flow'
  <2>1. CASE UNCHANGED vars
    BY <1>2, <2>1, FlowWorld DEF Strengthened
  <2> QED BY <1>2, <2>1, FlowStep
<1>3. Strengthened /\ Flow => KeepsUp
  BY IdleShape DEF Flow, Scheduled, Stale, LooksAgain, FocusFinds, Complete,
     KeepsUp, Quiet, Strengthened, DataOK, TypeWindows
<1> QED BY <1>1, <1>2, <1>3, ViewAlways, PTL DEF Spec
=============================================================================
