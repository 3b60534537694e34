-------------------------- MODULE WorkspaceContext --------------------------
(* Discovery of the workspace's projects (WorkspaceContextController):        *)
(* refreshes with many awaits that are coalesced and debounced, the choice of *)
(* the active project, the context keys and the status bar made from them,    *)
(* while projects come and go, the user switches editors, changes the CLI     *)
(* setting and selects another project.                                       *)
EXTENDS Naturals

CONSTANTS
  MaxProject,  \* projects are 1 .. MaxProject, in the order of their paths
  MaxMoves     \* moves of the user and of other programs

ASSUME WorkspaceAssumption == MaxProject \in Nat \ {0} /\ MaxMoves \in Nat

Project == 1 .. MaxProject
NoProject == 0
Answer == {"yes", "no"}

VARIABLES
  onDisk,        \* the projects there are
  editor,        \* the project of the active resource
  capability,    \* whether a CLI is there that can import Allegro boards
  moves,
  projectTimer, contextTimer,  \* refreshProjectsTimer, contextRefreshTimer
  stage,         \* where the refresh in flight is, "idle" without one
  queued,        \* refreshQueued
  sawEditor, found, answer,    \* what that refresh has read
  probe,         \* allegroSupported, "unknown" if undefined
  known, active,               \* projects and activeProject of the store
  seen,          \* projects a list of the user may still offer
  persisted,     \* the active project in the workspace state
  selecting,     \* the project selectActiveProject is storing
  snapshot,      \* activeProject of the refresh's projectSnapshot
  shownEditor, shownAnswer,    \* the context keys
  bar,           \* the project the status bar names
  chosen,        \* history: the user's last selection that was found since
  lost           \* history: the last refresh failed

disk      == <<onDisk, editor, capability, moves>>
timers    == <<projectTimer, contextTimer>>
reading   == <<sawEditor, found, answer>>
store     == <<known, active, seen, persisted>>
shownState == <<shownEditor, shownAnswer, bar>>
workspaceVars == <<disk, timers, stage, queued, reading, probe, store,
                   selecting, snapshot, shownState, chosen, lost>>

WorkspaceInit ==
  /\ onDisk \in SUBSET Project
  /\ editor \in onDisk \cup {NoProject}
  /\ capability \in Answer
  /\ moves = 0
  /\ projectTimer = FALSE /\ contextTimer = FALSE
  /\ stage = "discovering" /\ queued = FALSE
  /\ sawEditor = editor /\ found = {} /\ answer = "no"
  /\ probe = "unknown"
  /\ known = {} /\ active = NoProject /\ seen = {}
  /\ persisted \in Project \cup {NoProject}
  /\ selecting = NoProject /\ snapshot = NoProject
  /\ shownEditor = NoProject /\ shownAnswer = "no" /\ bar = NoProject
  /\ chosen = persisted
  /\ lost = FALSE

(* pickActiveProject, from a set of projects that were found.                 *)
PickActiveProject(projects, previous, ofEditor) ==
  CASE previous \in projects -> previous
    [] previous \notin projects /\ persisted \in projects -> persisted
    [] {previous, persisted} \cap projects = {} /\ ofEditor \in projects -> ofEditor
    [] OTHER -> IF projects = {} THEN NoProject
                ELSE CHOOSE p \in projects : \A q \in projects : p <= q

Begin ==
  /\ stage' = "discovering"
  /\ sawEditor' = editor

(* refreshContexts, called by a timer or a command.                           *)
Refresh ==
  IF stage = "idle"
    THEN Begin /\ UNCHANGED queued
    ELSE queued' = TRUE /\ UNCHANGED <<stage, sawEditor>>

EndDropsQueue ==
  /\ queued' = FALSE
  /\ stage' = "idle"
  /\ UNCHANGED sawEditor

EndKeepsQueue ==
  IF queued
    THEN Begin /\ UNCHANGED queued
    ELSE stage' = "idle" /\ UNCHANGED <<queued, sawEditor>>

(* Its finally block.                                                         *)
End ==
  /\ queued' = FALSE
  /\ IF queued THEN Begin ELSE stage' = "idle" /\ UNCHANGED sawEditor

ProjectTimer ==
  /\ projectTimer /\ projectTimer' = FALSE
  /\ Refresh
  /\ UNCHANGED <<disk, contextTimer, found, answer, probe, store, selecting,
                 snapshot, shownState, chosen, lost>>

ContextTimer ==
  /\ contextTimer /\ contextTimer' = FALSE
  /\ Refresh
  /\ UNCHANGED <<disk, projectTimer, found, answer, probe, store, selecting,
                 snapshot, shownState, chosen, lost>>

Move == moves < MaxMoves /\ moves' = moves + 1

RefreshCommand ==
  /\ Move
  /\ Refresh
  /\ UNCHANGED <<onDisk, editor, capability, timers, found, answer, probe, store,
                 selecting, snapshot, shownState, chosen, lost>>

Discovered ==
  /\ stage = "discovering"
  /\ found' = onDisk
  /\ stage' = "detecting"
  /\ UNCHANGED <<disk, timers, queued, sawEditor, answer, probe, store,
                 selecting, snapshot, shownState, chosen, lost>>

(* detectAllegroImportSupport asks the CLI there is, unless it knows; without  *)
(* a CLI, or in Restricted Mode, the answer is no and nothing is remembered.   *)
AskProbe ==
  /\ stage = "detecting"
  /\ \/ capability = "no" /\ answer' = "no" /\ stage' = "ready"
     \/ probe = "unknown" /\ answer' = capability /\ stage' = "probing"
     \/ probe # "unknown" /\ answer' = probe /\ stage' = "ready"
  /\ UNCHANGED <<disk, timers, queued, sawEditor, found, probe, store,
                 selecting, snapshot, shownState, chosen, lost>>

ProbeAnswered ==
  /\ stage = "probing"
  /\ stage' = "ready"
  /\ \/ probe' = answer /\ UNCHANGED answer
     \/ answer' = "no" /\ UNCHANGED probe
  /\ UNCHANGED <<disk, timers, queued, sawEditor, found, store, selecting,
                 snapshot, shownState, chosen, lost>>

PublishOverSelection ==
  /\ stage = "ready"
  /\ stage' = "publishing"
  /\ known' = found /\ seen' = seen \cup found
  /\ active' = PickActiveProject(found, snapshot, sawEditor)
  /\ snapshot' = active'
  /\ chosen' = IF chosen \in found THEN chosen ELSE NoProject
  /\ UNCHANGED <<disk, timers, queued, reading, probe, persisted, selecting,
                 shownState, lost>>

(* What all the reads and probes gave becomes the state of the store.         *)
Publish ==
  /\ stage = "ready"
  /\ stage' = "publishing"
  /\ known' = found /\ seen' = seen \cup found
  /\ active' = PickActiveProject(found, active, sawEditor)
  /\ snapshot' = active'
  /\ chosen' = IF chosen \in found THEN chosen ELSE NoProject
  /\ UNCHANGED <<disk, timers, queued, reading, probe, persisted, selecting,
                 shownState, lost>>

(* The context keys are set one by one, the status bar last.                  *)
Published ==
  /\ stage = "publishing"
  /\ shownEditor' = sawEditor /\ shownAnswer' = answer
  /\ bar' = snapshot
  /\ lost' = FALSE
  /\ End
  /\ UNCHANGED <<disk, timers, found, answer, probe, store, selecting, snapshot,
                 chosen>>

FailsWithoutFinally ==
  /\ stage \in {"discovering", "detecting", "ready"}
  /\ lost' = TRUE
  /\ stage' = "idle"
  /\ UNCHANGED <<disk, timers, queued, reading, probe, store, selecting, snapshot,
                 shownState, chosen>>

(* A search of files, the provider or the CLI rejects.                        *)
RefreshFails ==
  /\ stage \in {"discovering", "detecting", "ready"}
  /\ lost' = TRUE
  /\ End
  /\ UNCHANGED <<disk, timers, found, answer, probe, store, selecting, snapshot,
                 shownState, chosen>>

(* selectActiveProject, with an await of the workspace state in between.  The *)
(* user picks from a list made earlier.                                       *)
Select(p) ==
  /\ selecting = NoProject /\ Move
  /\ p \in seen
  /\ selecting' = p
  /\ persisted' = p
  /\ UNCHANGED <<onDisk, editor, capability, timers, stage, queued, reading, probe,
                 known, active, seen, snapshot, shownState, chosen, lost>>

Selected ==
  /\ selecting # NoProject
  /\ active' = selecting
  /\ bar' = selecting
  /\ chosen' = selecting
  /\ selecting' = NoProject
  /\ UNCHANGED <<disk, timers, stage, queued, reading, probe, known, persisted,
                 seen, snapshot, shownEditor, shownAnswer, lost>>

(* The watcher of *.kicad_pro files.                                          *)
ProjectCreatedOrDeleted(p) ==
  /\ Move
  /\ onDisk' = IF p \in onDisk THEN onDisk \ {p} ELSE onDisk \cup {p}
  /\ projectTimer' = TRUE
  /\ UNCHANGED <<editor, capability, contextTimer, stage, queued, reading, probe,
                 store, selecting, snapshot, shownState, chosen, lost>>

SwitchEditor(p) ==
  /\ Move
  /\ editor' = p
  /\ contextTimer' = TRUE
  /\ UNCHANGED <<onDisk, capability, projectTimer, stage, queued, reading, probe,
                 store, selecting, snapshot, shownState, chosen, lost>>

(* The configuration listener, invalidateProbeCache included.                 *)
ChangeCli ==
  /\ Move
  /\ capability' = CHOOSE a \in Answer : a # capability
  /\ probe' = "unknown"
  /\ contextTimer' = TRUE
  /\ UNCHANGED <<onDisk, editor, projectTimer, stage, queued, reading, store,
                 selecting, snapshot, shownState, chosen, lost>>

RefreshStep ==
  Discovered \/ AskProbe \/ ProbeAnswered \/ Publish \/ Published \/ RefreshFails

WorkspaceNext ==
  \/ ProjectTimer \/ ContextTimer \/ RefreshStep \/ Selected
  \/ RefreshCommand \/ ChangeCli
  \/ \E p \in Project : Select(p) \/ ProjectCreatedOrDeleted(p)
  \/ \E p \in Project \cup {NoProject} : SwitchEditor(p)

(* Timers fire and every promise the code awaits settles.                     *)
WorkspaceFairness ==
  /\ WF_workspaceVars(ProjectTimer) /\ WF_workspaceVars(ContextTimer)
  /\ WF_workspaceVars(RefreshStep) /\ WF_workspaceVars(Selected)

WorkspaceSpec == WorkspaceInit /\ [][WorkspaceNext]_workspaceVars /\ WorkspaceFairness
-----------------------------------------------------------------------------
(* The types, and that a refresh is queued only behind one in flight, which   *)
(* will start it however it ends.                                             *)
WorkspaceTypeOK ==
  /\ onDisk \subseteq Project /\ found \subseteq Project /\ known \subseteq Project
  /\ known \subseteq seen /\ seen \subseteq Project
  /\ {editor, sawEditor, active, persisted, selecting, snapshot, shownEditor,
      bar, chosen} \subseteq Project \cup {NoProject}
  /\ {capability, answer, shownAnswer} \subseteq Answer
  /\ probe \in Answer \cup {"unknown"}
  /\ {projectTimer, contextTimer, queued, lost} \subseteq BOOLEAN
  /\ stage \in {"idle", "discovering", "detecting", "probing", "ready", "publishing"}
  /\ moves \in 0 .. MaxMoves
  /\ queued => stage # "idle"

AtRest == stage = "idle" /\ ~projectTimer /\ ~contextTimer /\ selecting = NoProject

(* No event is lost to the overlap guard and the two debounces: when nothing  *)
(* is under way the projects and the editor shown are those there are, unless *)
(* the last refresh failed.                                                   *)
ShowsWorkspace == AtRest /\ ~lost => known = onDisk /\ shownEditor = editor

(* The project the user selected, in this window or the last one, stays the   *)
(* active one, whatever a refresh under way had read before, until a          *)
(* discovery does not find it.                                                *)
SelectionSticks == chosen # NoProject /\ known # {} => active = chosen

(* Refreshes queued behind refreshes come to an end, and so do selections,    *)
(* once the user and the other programs stop.                                 *)
RefreshesSettle == <>[]AtRest

(* What getting-started.md says: the status bar names the active project.     *)
StatusShowsActive == AtRest /\ ~lost => bar = active

=============================================================================
