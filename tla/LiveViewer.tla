------------------------------ MODULE LiveViewer ------------------------------
(* The live refresh of the KiCanvas custom editors                            *)
(* (providers/baseKiCanvasEditorProvider.ts), for one document.  Every field  *)
(* of the provider is a map keyed by the document, so one key is enough.      *)
(*                                                                            *)
(* The extension host is single threaded: an action is the code from one      *)
(* await to the next.  An answer of the file system is computed at one moment *)
(* (FsAnswer...) and the continuation that uses it runs later, so handlers    *)
(* and writes interleave between the two.                                     *)
(*                                                                            *)
(* A version number stands both for the bytes of the file and for the         *)
(* (mtime, size) pair that stat returns for them; 0 is "no such thing": no    *)
(* file, no image, no cache entry, no marker.                                 *)
EXTENDS Integers, FiniteSets

CONSTANTS
  Panel,             \* webview panels that can be opened on the document
  AutoRefresh,       \* the setting kicadstudio.viewer.autoRefresh
  ReliableWatcher,   \* watcher events are never lost (local file systems)
  PromptOpen,        \* timing: a first load overlaps no refresh and ends before
                     \* the user's next move
  SettleRetryLimit,  \* EXTERNAL_SETTLE_RETRY_LIMIT
  MaxWrites,         \* bound: writes of the file
  MaxMoves,          \* bound: panel events and edits by the user
  UserMoves          \* bound: the kinds of moves the user makes

ASSUME PanelAssumption == IsFiniteSet(Panel)
ASSUME SettingAssumption == {AutoRefresh, ReliableWatcher, PromptOpen} \subseteq BOOLEAN
ASSUME BoundAssumption ==
  /\ SettleRetryLimit \in Nat /\ MaxWrites \in Nat /\ MaxMoves \in Nat
  /\ UserMoves \subseteq {"open", "close", "hide", "show", "request", "edit",
                         "discard"}

VARIABLES
  panels,           \* panels tracked for the document
  visible,          \* of those, the visible ones
  pendingRefresh,   \* panels whose PanelInfo.pendingRefresh is set
  releaseTimer,     \* panels with a hidden-viewer cache release timer
  shown,            \* [Panel -> version the webview displays, 0 for none]
  refreshDebounce,  \* the debounce timer is armed
  fileCache,        \* the cached payload: label (stat) and content (body)
  lastRendered,     \* metadata of the last displayed file
  pendingExternal,  \* an external change waits to be displayed
  settleRetries,    \* retries spent on an unstable writer
  changeRevision,   \* counts the notifications
  refresh,          \* the refreshDocument call in flight
  opening,          \* [Panel -> the postFile call in flight]
  focus,            \* [Panel -> the checkForChangesOnFocus call in flight]
  disk,             \* version of the file, 0 when it is deleted
  writes,           \* number of the newest version ever written
  torn,             \* versions that are incomplete files
  dirty,            \* a text editor has unsaved changes for the file
  notify,           \* a watcher event waits to be delivered
  saveEvent,        \* an onDidSaveTextDocument event waits to be delivered
  moves             \* user moves so far

provider == <<pendingRefresh, releaseTimer, refreshDebounce, fileCache,
              lastRendered, pendingExternal, settleRetries, changeRevision>>
windows  == <<panels, visible, shown>>
tasks    == <<refresh, opening, focus>>
world    == <<disk, writes, torn, dirty, notify, saveEvent, moves>>
vars     == <<provider, windows, tasks, world>>

Unanswered == -1
Answer     == Nat \cup {Unanswered}
NoCache    == [stat |-> 0, body |-> 0]

(* Where a refresh in flight waits: "settleBefore", "settleAfter" and         *)
(* "settleRetry" for the stats of isStableFile and of the retry branch,       *)
(* "compare" for the stat of prepareExternalRefresh, "stat" and "read" for    *)
(* buildViewerPayload, "validate" for the stat of readRefreshPayload,         *)
(* "posting" for postMessage.                                                 *)
FsWaits == {"settleBefore", "settleAfter", "settleRetry", "compare", "stat",
            "read", "validate"}

RefreshRecord == [at : FsWaits \cup {"idle", "posting"}, external : BOOLEAN,
                  revision : Nat, ans : Answer, stat : Nat, body : Nat,
                  todo : SUBSET Panel]
OpenRecord    == [at : {"none", "stat", "read"}, stat : Nat, ans : Answer]
FocusRecord   == [on : BOOLEAN, rendered : Nat, ans : Answer]

Idle   == [at |-> "idle", external |-> FALSE, revision |-> 0,
           ans |-> Unanswered, stat |-> 0, body |-> 0, todo |-> {}]
NoOpen  == [at |-> "none", stat |-> 0, ans |-> Unanswered]
NoFocus == [on |-> FALSE, rendered |-> 0, ans |-> Unanswered]

\* The timing assumption of an instance with PromptOpen.
OpenInTime == PromptOpen => \A p \in Panel : opening[p] = NoOpen

\* One more move of the user, of a kind the instance allows.
UserMove(kind) ==
  /\ kind \in UserMoves
  /\ OpenInTime
  /\ moves < MaxMoves /\ moves' = moves + 1

Init ==
  /\ panels = {} /\ visible = {} /\ pendingRefresh = {} /\ releaseTimer = {}
  /\ shown = [p \in Panel |-> 0]
  /\ refreshDebounce = FALSE /\ fileCache = NoCache /\ lastRendered = 0
  /\ pendingExternal = FALSE /\ settleRetries = 0 /\ changeRevision = 0
  /\ refresh = Idle
  /\ opening = [p \in Panel |-> NoOpen]
  /\ focus = [p \in Panel |-> NoFocus]
  /\ disk = 1 /\ writes = 1 /\ torn = {}
  /\ dirty = FALSE /\ notify = FALSE /\ saveEvent = FALSE /\ moves = 0

-----------------------------------------------------------------------------
(* The world: writers of the file, the text editor, the file system.          *)

\* Another program writes the file, leaves it half written, or deletes it.
ExternalWrite ==
  /\ writes < MaxWrites
  /\ writes' = writes + 1
  /\ \/ disk' = writes' /\ UNCHANGED torn
     \/ disk' = writes' /\ torn' = torn \cup {writes'}
     \/ disk # 0 /\ disk' = 0 /\ UNCHANGED torn
  /\ notify' = (notify \/ panels # {})
  /\ UNCHANGED <<provider, windows, tasks, dirty, saveEvent, moves>>

\* A remote or network drive loses the notification.
LoseNotification ==
  /\ ~ReliableWatcher /\ notify
  /\ notify' = FALSE
  /\ UNCHANGED <<provider, windows, tasks, disk, writes, torn, dirty, saveEvent,
                 moves>>

EditorEdit ==
  /\ UserMove("edit")
  /\ ~dirty /\ dirty' = TRUE
  /\ UNCHANGED <<provider, windows, tasks, disk, writes, torn, notify, saveEvent>>

EditorDiscard ==
  /\ UserMove("discard")
  /\ dirty /\ dirty' = FALSE
  /\ UNCHANGED <<provider, windows, tasks, disk, writes, torn, notify, saveEvent>>

EditorSave ==
  /\ dirty /\ dirty' = FALSE
  /\ writes < MaxWrites /\ writes' = writes + 1 /\ disk' = writes'
  /\ notify' = (notify \/ panels # {}) /\ saveEvent' = TRUE
  /\ UNCHANGED <<provider, windows, tasks, torn, moves>>

\* The file system computes the answer of a pending stat or readFile; the
\* answer 0 is a rejected promise.
FsAnswerRefresh ==
  /\ refresh.at \in FsWaits /\ refresh.ans = Unanswered
  /\ refresh' = [refresh EXCEPT !.ans = disk]
  /\ UNCHANGED <<provider, windows, opening, focus, world>>

FsAnswerOpening(p) ==
  /\ opening[p].at # "none" /\ opening[p].ans = Unanswered
  /\ opening' = [opening EXCEPT ![p].ans = disk]
  /\ UNCHANGED <<provider, windows, refresh, focus, world>>

FsAnswerFocus(p) ==
  /\ focus[p].on /\ focus[p].ans = Unanswered
  /\ focus' = [focus EXCEPT ![p].ans = disk]
  /\ UNCHANGED <<provider, windows, refresh, opening, world>>

-----------------------------------------------------------------------------
(* Functions shared by the handlers.                                          *)

\* externalFileChanged
ExternalFileChanged ==
  IF panels # {} /\ AutoRefresh
  THEN /\ pendingExternal' = TRUE
       /\ settleRetries' = 0
       /\ changeRevision' = changeRevision + 1
       /\ refreshDebounce' = (refreshDebounce \/ visible # {})
       /\ pendingRefresh' = IF visible # {} THEN pendingRefresh ELSE panels
  ELSE UNCHANGED <<pendingExternal, settleRetries, changeRevision,
                   refreshDebounce, pendingRefresh>>

\* refreshDocument up to its first await; `seen` are the visible panels.
RefreshDocument(seen) ==
  IF seen = {} \/ refresh.at # "idle" \/ (pendingExternal /\ dirty)
  THEN UNCHANGED refresh
  ELSE refresh' = [Idle EXCEPT
                     !.at = IF pendingExternal THEN "settleBefore" ELSE "stat",
                     !.external = pendingExternal,
                     !.revision = changeRevision]

\* Mutant: the finally block forgets changes that came during the refresh.
EndRefreshUnchecked(scheduled) ==
  refresh' = Idle /\ refreshDebounce' = (refreshDebounce \/ scheduled)

\* The finally block; `scheduled` when the body already armed the timer.
EndRefresh(scheduled) ==
  /\ refresh' = Idle
  /\ refreshDebounce' = (\/ refreshDebounce \/ scheduled
                         \/ refresh.revision # changeRevision)

\* Mutant: a failed external read is retried.
FailRefreshRetries ==
  /\ EndRefresh(refresh.external)
  /\ fileCache' = IF refresh.external THEN NoCache ELSE fileCache
  /\ UNCHANGED <<pendingRefresh, releaseTimer, lastRendered, pendingExternal,
                 settleRetries, changeRevision, windows, opening, focus, world>>

\* The catch block, then finally.
FailRefresh ==
  /\ EndRefresh(FALSE)
  /\ fileCache' = IF refresh.external THEN NoCache ELSE fileCache
  /\ UNCHANGED <<pendingRefresh, releaseTimer, lastRendered, pendingExternal,
                 settleRetries, changeRevision, windows, opening, focus, world>>

Answered(at) == refresh.at = at /\ refresh.ans # Unanswered

\* Go on to the next await on the file system.
AwaitFs(at) == refresh' = [refresh EXCEPT !.at = at, !.ans = Unanswered]

-----------------------------------------------------------------------------
(* Handlers of VS Code events.                                                *)

\* The watcher's onDidChange, onDidCreate and onDidDelete.
WatcherEvent ==
  /\ notify /\ notify' = FALSE
  /\ ExternalFileChanged
  /\ UNCHANGED <<releaseTimer, fileCache, lastRendered, windows, tasks, disk,
                 writes, torn, dirty, saveEvent, moves>>

\* The onDidSaveTextDocument listener.
SaveHook ==
  /\ saveEvent /\ saveEvent' = FALSE
  /\ fileCache' = NoCache
  /\ refreshDebounce' = (refreshDebounce \/ AutoRefresh)
  /\ UNCHANGED <<pendingRefresh, releaseTimer, lastRendered, pendingExternal,
                 settleRetries, changeRevision, windows, tasks, disk, writes,
                 torn, dirty, notify, moves>>

\* The debounce timer of scheduleRefresh.
DebounceFires ==
  /\ OpenInTime
  /\ refreshDebounce /\ refreshDebounce' = FALSE
  /\ RefreshDocument(visible)
  /\ UNCHANGED <<pendingRefresh, releaseTimer, fileCache, lastRendered,
                 pendingExternal, settleRetries, changeRevision, windows,
                 opening, focus, world>>

\* resolveCustomEditor: trackPanel, then postFile up to its first await.
\* A panel value is used again once nothing of its former life is in flight.
OpenPanel(p) ==
  /\ UserMove("open")
  /\ PromptOpen => refresh = Idle
  /\ p \notin panels /\ opening[p] = NoOpen /\ ~focus[p].on
  /\ p \notin refresh.todo
  /\ panels' = panels \cup {p} /\ visible' = visible \cup {p}
  /\ opening' = [opening EXCEPT ![p].at = "stat"]
  /\ UNCHANGED <<provider, shown, refresh, focus, disk, writes, torn, dirty,
                 notify, saveEvent>>

\* onDidDispose: untrackPanel.  Calls in flight go on.
ClosePanel(p) ==
  /\ UserMove("close")
  /\ p \in panels
  /\ panels' = panels \ {p} /\ visible' = visible \ {p}
  /\ shown' = [shown EXCEPT ![p] = 0]
  /\ pendingRefresh' = pendingRefresh \ {p}
  /\ releaseTimer' = releaseTimer \ {p}
  /\ IF panels' = {}
     THEN /\ refreshDebounce' = FALSE /\ pendingExternal' = FALSE
          /\ settleRetries' = 0 /\ changeRevision' = 0
          /\ fileCache' = NoCache /\ lastRendered' = 0
          /\ notify' = FALSE
     ELSE UNCHANGED <<refreshDebounce, pendingExternal, settleRetries,
                      changeRevision, fileCache, lastRendered, notify>>
  /\ UNCHANGED <<tasks, disk, writes, torn, dirty, saveEvent>>

\* onDidChangeViewState of a panel that is now hidden.
HidePanel(p) ==
  /\ UserMove("hide")
  /\ p \in visible
  /\ visible' = visible \ {p}
  /\ releaseTimer' = releaseTimer \cup {p}
  /\ UNCHANGED <<panels, shown, pendingRefresh, refreshDebounce, fileCache,
                 lastRendered, pendingExternal, settleRetries, changeRevision,
                 tasks, disk, writes, torn, dirty, notify, saveEvent>>

\* onDidChangeViewState of a panel that is visible: revealed, or focused while
\* it was visible already.  One focus check is in flight per panel.
ShowPanel(p) ==
  /\ UserMove("show")
  /\ p \in panels /\ ~focus[p].on
  /\ visible' = visible \cup {p}
  /\ releaseTimer' = releaseTimer \ {p}
  /\ IF p \in pendingRefresh
     THEN /\ pendingRefresh' = pendingRefresh \ {p}
          /\ RefreshDocument(visible')
          /\ UNCHANGED focus
     ELSE /\ focus' = IF AutoRefresh
                      THEN [focus EXCEPT ![p] = [NoFocus EXCEPT
                              !.on = TRUE, !.rendered = lastRendered]]
                      ELSE focus
          /\ UNCHANGED <<pendingRefresh, refresh>>
  /\ UNCHANGED <<panels, shown, refreshDebounce, fileCache, lastRendered,
                 pendingExternal, settleRetries, changeRevision, opening, disk,
                 writes, torn, dirty, notify, saveEvent>>

\* The requestRefresh message (key R in a viewer that has an image).
RequestRefresh(p) ==
  /\ UserMove("request")
  /\ p \in visible /\ shown[p] # 0
  /\ fileCache' = NoCache
  /\ RefreshDocument(visible)
  /\ UNCHANGED <<pendingRefresh, releaseTimer, refreshDebounce, lastRendered,
                 pendingExternal, settleRetries, changeRevision, windows,
                 opening, focus, disk, writes, torn, dirty, notify, saveEvent>>

\* The release timer of a hidden viewer.
ReleaseCache(p) ==
  /\ p \in releaseTimer
  /\ releaseTimer' = releaseTimer \ {p}
  /\ fileCache' = NoCache
  /\ UNCHANGED <<pendingRefresh, refreshDebounce, lastRendered, pendingExternal,
                 settleRetries, changeRevision, windows, tasks, world>>

-----------------------------------------------------------------------------
(* Continuations of checkForChangesOnFocus and postFile.                      *)

\* Mutant: the focus check refreshes at once instead of counting a change, and
\* is refused while a refresh runs.
FocusCheckedAtOnce(p) ==
  /\ focus[p].on /\ focus[p].ans # Unanswered
  /\ focus' = [focus EXCEPT ![p] = NoFocus]
  /\ IF focus[p].ans # 0 /\ focus[p].rendered # focus[p].ans
     THEN RefreshDocument(visible) ELSE UNCHANGED refresh
  /\ UNCHANGED <<provider, windows, opening, world>>

FocusChecked(p) ==
  /\ focus[p].on /\ focus[p].ans # Unanswered
  /\ focus' = [focus EXCEPT ![p] = NoFocus]
  /\ IF focus[p].ans # 0 /\ focus[p].rendered # focus[p].ans
     THEN ExternalFileChanged
     ELSE UNCHANGED <<pendingExternal, settleRetries, changeRevision,
                      refreshDebounce, pendingRefresh>>
  /\ UNCHANGED <<releaseTimer, fileCache, lastRendered, windows, refresh,
                 opening, world>>

\* The end of postFile: the webview's html, then the marker when it is unset.
\* Setting the html of a disposed panel throws.
SetHtml(p, entry) ==
  /\ opening' = [opening EXCEPT ![p] = NoOpen]
  /\ shown' = IF p \in panels THEN [shown EXCEPT ![p] = entry.body] ELSE shown
  /\ lastRendered' = IF p \in panels /\ lastRendered = 0 THEN entry.stat
                     ELSE lastRendered

\* A rejected stat or readFile: the panel gets the error page.
OpenFails(p) ==
  /\ opening[p].ans = 0
  /\ opening' = [opening EXCEPT ![p] = NoOpen]
  /\ shown' = [shown EXCEPT ![p] = 0]
  /\ UNCHANGED <<fileCache, lastRendered>>

OpenStat(p) ==
  /\ opening[p].at = "stat" /\ opening[p].ans # Unanswered
  /\ \/ OpenFails(p)
     \/ /\ opening[p].ans # 0 /\ fileCache.stat = opening[p].ans
        /\ SetHtml(p, fileCache)
        /\ UNCHANGED fileCache
     \/ /\ opening[p].ans # 0 /\ fileCache.stat # opening[p].ans
        /\ opening' = [opening EXCEPT ![p] = [at |-> "read",
                         stat |-> opening[p].ans, ans |-> Unanswered]]
        /\ UNCHANGED <<shown, fileCache, lastRendered>>
  /\ UNCHANGED <<panels, visible, pendingRefresh, releaseTimer, refreshDebounce,
                 pendingExternal, settleRetries, changeRevision, refresh, focus,
                 world>>

\* Mutant: the metadata is taken after the bytes.
OpenReadThenStat(p) ==
  /\ opening[p].at = "read" /\ opening[p].ans # Unanswered
  /\ \/ OpenFails(p)
     \/ /\ opening[p].ans # 0
        /\ fileCache' = [stat |-> writes, body |-> opening[p].ans]
        /\ SetHtml(p, fileCache')
  /\ UNCHANGED <<panels, visible, pendingRefresh, releaseTimer, refreshDebounce,
                 pendingExternal, settleRetries, changeRevision, refresh, focus,
                 world>>

OpenRead(p) ==
  /\ opening[p].at = "read" /\ opening[p].ans # Unanswered
  /\ \/ OpenFails(p)
     \/ /\ opening[p].ans # 0
        /\ fileCache' = [stat |-> opening[p].stat, body |-> opening[p].ans]
        /\ SetHtml(p, fileCache')
  /\ UNCHANGED <<panels, visible, pendingRefresh, releaseTimer, refreshDebounce,
                 pendingExternal, settleRetries, changeRevision, refresh, focus,
                 world>>

-----------------------------------------------------------------------------
(* Continuations of refreshDocument.  The field stat of the refresh keeps     *)
(* what the next continuation compares with: the first stat of isStableFile,  *)
(* the retries counted so far, the marker, the label of the cache entry.      *)

\* Mutant: the retries have no limit.
UnstableForever ==
  /\ refresh' = [refresh EXCEPT !.at = "settleRetry", !.ans = Unanswered,
                                !.stat = settleRetries]
  /\ UNCHANGED refreshDebounce

\* isStableFile returned false: bounded retries.
Unstable ==
  IF settleRetries < SettleRetryLimit
  THEN /\ refresh' = [refresh EXCEPT !.at = "settleRetry", !.ans = Unanswered,
                                     !.stat = settleRetries]
       /\ UNCHANGED refreshDebounce
  ELSE EndRefresh(FALSE)

SettleBefore ==
  /\ Answered("settleBefore")
  /\ IF refresh.ans = 0
     THEN Unstable
     ELSE /\ refresh' = [refresh EXCEPT !.at = "settleAfter",
                           !.ans = Unanswered, !.stat = refresh.ans]
          /\ UNCHANGED refreshDebounce
  /\ UNCHANGED <<pendingRefresh, releaseTimer, fileCache, lastRendered,
                 pendingExternal, settleRetries, changeRevision, windows,
                 opening, focus, world>>

SettleAfter ==
  /\ Answered("settleAfter")
  /\ IF refresh.ans # refresh.stat
     THEN Unstable /\ UNCHANGED settleRetries
     ELSE /\ settleRetries' = 0
          /\ refresh' = [refresh EXCEPT !.at = "compare", !.ans = Unanswered,
                                        !.stat = lastRendered]
          /\ UNCHANGED refreshDebounce
  /\ UNCHANGED <<pendingRefresh, releaseTimer, fileCache, lastRendered,
                 pendingExternal, changeRevision, windows, opening, focus, world>>

\* A deleted source keeps the last image until another event.
SettleRetry ==
  /\ Answered("settleRetry")
  /\ settleRetries' = IF refresh.ans = 0 THEN settleRetries ELSE refresh.stat + 1
  /\ EndRefresh(refresh.ans # 0)
  /\ UNCHANGED <<pendingRefresh, releaseTimer, fileCache, lastRendered,
                 pendingExternal, changeRevision, windows, opening, focus, world>>

\* prepareExternalRefresh: an unchanged file does not redraw.
Compare ==
  /\ Answered("compare")
  /\ \/ refresh.ans = 0 /\ FailRefresh
     \/ /\ refresh.ans # 0
        /\ IF refresh.ans = refresh.stat
           THEN pendingExternal' = FALSE /\ EndRefresh(FALSE)
           ELSE AwaitFs("stat") /\ UNCHANGED <<pendingExternal, refreshDebounce>>
        /\ UNCHANGED <<pendingRefresh, releaseTimer, fileCache, lastRendered,
                       settleRetries, changeRevision, windows, opening, focus,
                       world>>

\* buildViewerPayload after its stat: a current cache entry is used as it is.
BuildStat ==
  /\ Answered("stat")
  /\ \/ refresh.ans = 0 /\ FailRefresh
     \/ /\ refresh.ans # 0
        /\ refresh' = IF fileCache.stat = refresh.ans
                      THEN [refresh EXCEPT !.at = "validate", !.ans = Unanswered,
                              !.stat = fileCache.stat, !.body = fileCache.body]
                      ELSE [refresh EXCEPT !.at = "read", !.ans = Unanswered,
                              !.stat = refresh.ans]
        /\ UNCHANGED <<provider, windows, opening, focus, world>>

\* buildViewerPayload after readFile: only an external refresh checks that the
\* file is complete.
BuildRead ==
  /\ Answered("read")
  /\ \/ refresh.ans = 0 /\ FailRefresh
     \/ refresh.external /\ refresh.ans \in torn /\ FailRefresh
     \/ /\ refresh.ans # 0 /\ ~(refresh.external /\ refresh.ans \in torn)
        /\ fileCache' = [stat |-> refresh.stat, body |-> refresh.ans]
        /\ refresh' = [refresh EXCEPT !.at = "validate", !.ans = Unanswered,
                                      !.body = refresh.ans]
        /\ UNCHANGED <<pendingRefresh, releaseTimer, refreshDebounce,
                       lastRendered, pendingExternal, settleRetries,
                       changeRevision, windows, opening, focus, world>>

\* Mutants: only the notification count, or only the metadata, is compared.
OutdatedByCount == refresh.revision # changeRevision
OutdatedByStat  == refresh.stat # refresh.ans

\* readRefreshPayload: the file or the notification count moved on.
Outdated == refresh.stat # refresh.ans \/ refresh.revision # changeRevision

ReadAgain ==
  /\ fileCache' = NoCache /\ pendingExternal' = TRUE
  /\ EndRefresh(TRUE)
  /\ UNCHANGED <<pendingRefresh, windows>>

\* publishRefresh when nothing may be posted.
Withhold ==
  /\ pendingRefresh' = panels
  /\ EndRefresh(FALSE)
  /\ UNCHANGED <<fileCache, pendingExternal, windows>>

\* The refresh message reaches the viewer page only: a panel that is loading
\* or holds the error page (its first load failed) has no script to take it.
Display(p) == IF p \in panels /\ shown[p] # 0
              THEN [shown EXCEPT ![p] = refresh.body] ELSE shown

\* Mutant: hidden siblings are not marked.
PublishVisibleOnly ==
  /\ \E p \in visible :
       /\ shown' = Display(p)
       /\ refresh' = [refresh EXCEPT !.at = "posting", !.todo = visible \ {p}]
  /\ UNCHANGED <<pendingRefresh, panels, visible, fileCache, pendingExternal,
                 refreshDebounce>>

\* publishRefresh up to its first postMessage.
Publish ==
  /\ pendingRefresh' = pendingRefresh \cup (panels \ visible)
  /\ \E p \in visible :
       /\ shown' = Display(p)
       /\ refresh' = [refresh EXCEPT !.at = "posting", !.todo = visible \ {p}]
  /\ UNCHANGED <<panels, visible, fileCache, pendingExternal, refreshDebounce>>

Validate ==
  /\ Answered("validate")
  /\ \/ refresh.ans = 0 /\ FailRefresh
     \/ /\ refresh.ans # 0
        /\ \/ Outdated /\ ReadAgain
           \/ /\ ~Outdated
              /\ IF visible = {} \/ (refresh.external /\ dirty)
                 THEN Withhold
                 ELSE Publish
        /\ UNCHANGED <<releaseTimer, lastRendered, settleRetries, changeRevision,
                       opening, focus, world>>

\* The loop over the panels that were visible; a disposed panel may throw.
PostNext(p) ==
  /\ refresh.at = "posting" /\ p \in refresh.todo
  /\ \/ p \notin panels /\ FailRefresh
     \/ /\ refresh' = [refresh EXCEPT !.todo = @ \ {p}]
        /\ shown' = Display(p)
        /\ UNCHANGED <<provider, panels, visible, opening, focus, world>>

Published ==
  /\ refresh.at = "posting" /\ refresh.todo = {}
  /\ lastRendered' = refresh.stat
  /\ pendingExternal' = (pendingExternal /\ refresh.revision # changeRevision)
  /\ EndRefresh(FALSE)
  /\ UNCHANGED <<pendingRefresh, releaseTimer, fileCache, settleRetries,
                 changeRevision, windows, opening, focus, world>>

-----------------------------------------------------------------------------
World == \/ ExternalWrite \/ LoseNotification \/ EditorEdit \/ EditorDiscard
         \/ EditorSave

User == \E p \in Panel : \/ OpenPanel(p) \/ ClosePanel(p) \/ HidePanel(p)
                         \/ ShowPanel(p) \/ RequestRefresh(p)

FileSystem == \/ FsAnswerRefresh
              \/ \E p \in Panel : FsAnswerOpening(p) \/ FsAnswerFocus(p)

RefreshStep == \/ SettleBefore \/ SettleAfter \/ SettleRetry \/ Compare
               \/ BuildStat \/ BuildRead \/ Validate \/ Published
               \/ \E p \in Panel : PostNext(p)

PanelStep == \E p \in Panel : FocusChecked(p) \/ OpenStat(p) \/ OpenRead(p)

EventStep == WatcherEvent \/ SaveHook \/ DebounceFires

Next == \/ World \/ User \/ FileSystem \/ RefreshStep \/ PanelStep \/ EventStep
        \/ \E p \in Panel : ReleaseCache(p)

Spec == Init /\ [][Next]_vars

\* Promises settle, timers fire and queued events are delivered; nothing makes
\* a user act or a program write.
FairSpec ==
  /\ Spec
  /\ WF_vars(FsAnswerRefresh) /\ WF_vars(RefreshStep)
  /\ WF_vars(WatcherEvent) /\ WF_vars(SaveHook) /\ WF_vars(DebounceFires)
  /\ \A p \in Panel : /\ WF_vars(FsAnswerOpening(p)) /\ WF_vars(FsAnswerFocus(p))
                      /\ WF_vars(FocusChecked(p))
                      /\ WF_vars(OpenStat(p) \/ OpenRead(p))

-----------------------------------------------------------------------------
(* Timing under which viewers keep up.                                        *)

\* Nobody reveals a panel that is marked as behind, which races the refresh
\* that marked it, nor closes one that a refresh in flight has yet to post to,
\* which makes the post throw and leaves the panels after it as they are.  A
\* panel alone does neither.
Calm ==
  \/ \A p, q \in Panel : p = q
  \/ /\ (visible' \ visible) \cap panels \cap pendingRefresh = {}
     /\ (panels \ panels') \cap refresh.todo = {}

-----------------------------------------------------------------------------
(* Properties.                                                                *)

\* TypeOK: every variable has its type, and the retries spent on an unstable writer
\* stay within their limit (EXTERNAL_SETTLE_RETRY_LIMIT) although the count is
\* read before an await and written after it.
TypeWindows ==
  /\ panels \subseteq Panel /\ visible \subseteq panels
  /\ shown \in [Panel -> Nat]

TypeProvider ==
  /\ pendingRefresh \subseteq panels /\ releaseTimer \subseteq panels
  /\ fileCache \in [stat : Nat, body : Nat] /\ lastRendered \in Nat
  /\ settleRetries \in 0..SettleRetryLimit /\ changeRevision \in Nat

TypeTasks == /\ refresh \in RefreshRecord
             /\ opening \in [Panel -> OpenRecord]
             /\ focus \in [Panel -> FocusRecord]

TypeWorld ==
  /\ writes \in Nat /\ disk \in {0, writes} /\ torn \subseteq Nat
  /\ moves \in Nat

TypeFlags ==
  /\ refreshDebounce \in BOOLEAN /\ pendingExternal \in BOOLEAN
  /\ dirty \in BOOLEAN /\ notify \in BOOLEAN /\ saveEvent \in BOOLEAN

TypeOK == TypeWindows /\ TypeProvider /\ TypeTasks /\ TypeWorld /\ TypeFlags

\* What a refresh posts is exactly the version it will record as last rendered:
\* however writes, other loads and cache releases interleave with its stat, its
\* read and its final stat, the image never carries another version's metadata.
PublishExact == refresh.at = "posting" => refresh.body = refresh.stat

\* The metadata kept with a cached payload, and the last-rendered marker, are
\* never newer than the bytes: comparing them with a fresh stat cannot mistake
\* an older image for the current file.
LabelNotNewer ==
  /\ fileCache.stat <= fileCache.body
  /\ \A p \in Panel : opening[p].at = "read" /\ opening[p].ans \notin {0, Unanswered}
                        => opening[p].stat <= opening[p].ans

\* The step in which a refresh starts to post its image.
Publishes == refresh.at = "validate" /\ refresh'.at = "posting"

\* While a text editor has unsaved changes, no refresh starts to post when the
\* host knows of an external change, also when that change or the edit came
\* after the refresh had started ("external refresh is held until the document
\* is saved").
HeldWhileUnsaved == [][Publishes /\ dirty => ~pendingExternal]_vars

\* Nothing is in flight and nothing is scheduled.
Quiet == /\ refresh = Idle /\ ~refreshDebounce /\ ~notify /\ ~saveEvent
         /\ \A p \in Panel : opening[p] = NoOpen /\ ~focus[p].on

\* An open, visible viewer follows the file: once everything has come to rest,
\* no visible panel with an image shows an older version of a complete file
\* that no editor holds dirty.
KeepsUp ==
  Quiet /\ ~dirty /\ disk \notin torn \cup {0}
    => \A p \in visible : shown[p] # 0 => shown[p] = disk

\* Once everything has come to rest, a panel that is behind the last displayed
\* version is marked, so that revealing it refreshes it.
BehindIsMarked ==
  Quiet => \A p \in panels : shown[p] # 0 /\ shown[p] < lastRendered
                               => p \in pendingRefresh

\* Refreshing never keeps itself busy: when writers and users stop, the retries,
\* rescheduled refreshes and focus checks all end.
Quiesces == <>[]Quiet

\* Focusing a viewer recovers from a lost watcher event: after the last write,
\* a focus check brings a panel that has an image to the file's version, unless
\* the panel is hidden again, the file is incomplete or missing, or an editor is
\* dirty.  A panel on its error page has no such promise: only opening it again
\* displays the file.
FocusRecovers ==
  \A p \in Panel :
    (/\ writes = MaxWrites /\ shown[p] # 0
     /\ focus[p].on /\ focus[p].ans = Unanswered)
      ~> \/ p \notin visible \/ shown[p] = disk
         \/ disk \in torn \cup {0} \/ dirty
=============================================================================
