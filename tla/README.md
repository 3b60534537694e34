# Verification of KiCad Studio Kit

TLA+ modules about the VS Code extension in `apps/vscode-extension/src`, the
TLC configurations that check them on small instances, and proofs checked by
TLAPS. Paths below are relative to `apps/vscode-extension/src` unless they start
with `docs/`.

## 1. The system

The extension runs in VS Code's single-threaded extension host. Everything that
can go wrong between components comes from `await`: a handler runs alone up to
its next await, and any other handler may run before its continuation. Timers,
file-system answers, webviews, child processes and the MCP server answer when
they like.

| Component | State | Operations | Talks to |
|---|---|---|---|
| Live viewer refresh, `providers/baseKiCanvasEditorProvider.ts` | per document: panels and their visibility, pending marks, debounce timer, payload cache, last-rendered marker, external-change flag, settle retries, change revision | open, close, hide and reveal a panel, file and save events, refresh, focus check | file system, watcher, text editors, webviews |
| Studio context push, `activation/studioContextController.ts`, `mcp/contextBridge.ts` | last hash sent, pending context, flush and cursor timers | build, push (save, focus, cursor, drc), flush, dispose | MCP client, all state stores |
| MCP session and client, `mcp/mcpClient.ts`, `mcp/protocol`, `mcp/transport` | connection state, server card, discovery, test and requests in flight, their attempts and deadlines | ensureReady, rpc with retries, connection test, retry now, a change of the endpoint | MCP server over HTTP |
| kicad-cli runner, `cli/kicadCliRunner.ts` | running commands by key, abort controllers | run (joins an equal running command), cancel, cancel all, timeout | child processes |
| Validation results, `activation/saveCheckController.ts`, `state/diagnosticStateStore.ts` | DRC and ERC summaries and runs, global and per project, freshness | apply result, record failure, mark stale | runner, Problems view, context push |
| Document store, `language/kicadDocumentStore.ts` | parse cache, pending parses, debounce timers | parse, schedule, invalidate | language providers |
| Workspace context, `activation/workspaceContextController.ts` | refresh in flight and queued, active project, cached probe | refresh, schedule, select project | project and diagnostic stores, status bar |
| Quality gates, `providers/qualityGateProvider.ts` | the gates' results and their cache in the workspace state, the timer after a DRC | run all, one, or two after a DRC; refresh | MCP client |
| Fix queue, `mcp/fixQueueProvider.ts` | a list of fixes with a status each | refresh, apply one or all | MCP client |
| Chat panel, `ai/chatPanel.ts` | per panel: history, busy, abort controller; the stored history | prompt, cancel, clear, close, open | AI provider, webview, workspace state |
| Settings migrations, `settings/settingsMigrations.ts`, `utils/secrets.ts` | settings of the user and of each workspace, schema version in the global state, SecretStorage | three migrations and the move of a plaintext key, in every window that activates | other windows |
| Component search, `components/componentSearch*.ts` | the view and what its rows open, a limited cache of remote results, searches under way | search from the view, a command or the language model's tool; open a row | parts services, local libraries, package manager |
| Plugin and content manager, `library/pcm*.ts` | installed packages in memory, in the memento and in KiCad's `installed_packages.json`, files, library tables | install, update, remove, refresh | download, runner, library index |

The other parts (exports, tree views, variants, policy checks,
tooling) are listed in `PROJECT.json` with the reason they are not modelled;
section 8 says which of them are worth modelling.

What makes each component correct:

- *Viewer*: a visible viewer ends on the file's version; an image never carries
  another version's metadata; nothing is posted over unsaved edits once the host
  knows of an external change; half-written files do not replace an image;
  hidden panels catch up; retries end; a lost event is recovered by a focus.
- *Context push*: the server ends with the context pushed last and is not shown an
  older one after a newer; the settings promise it the active file and selection.
- *MCP session*: the state "Degraded" means that a server had answered; attempts
  are bounded, and every request and every test ends.
- *Workspace context*: no event is lost to the overlap guard and the debounces;
  the user's selection outlives refreshes under way; refreshes end.
- *Quality gates*: a gate shows what the last run that asked for it found.
- *Chat panel*: a panel with no prompt under way is not busy; the stored history
  is the one shown; every stream can be cancelled.
- *Migrations*: no theme or key of the user is lost; the schema version does not
  run ahead of the settings.
- *Runner*: one process per equal command.
- *Validation*: "fresh" is only shown for the file's present content; what the
  Problems view lists, the summaries and the files agree.
- *Document store*: a parse of an older version never replaces a newer one.
- *Component search*: a row opens what it shows; the cache stays near its limit.
- *Package manager*: what is installed, stored and told to KiCad agree when no
  write is under way; KiCad's own packages stay in its file; no files are left
  without a record.

## 2. Modules

| Module | Contents |
|---|---|
| `LiveViewer` | the refresh protocol of one document and its properties |
| `MCLiveViewer`, `MCLiveViewerAtRest` | TLC instances of `LiveViewer` (symmetry of panels; one panel or two) |
| `LiveViewerProofs` | the inductive invariants of `LiveViewer` and six theorems |
| `LatestValue` | abstract specification: what a publisher of a latest value promises |
| `StudioContext` | builds, debounces, hash, flushes and calls of the studio context push |
| `StudioContextProofs` | invariants of `StudioContext`, the refinement of `LatestValue` and that the server follows |
| `DiagnosticState` | the results of checks: summaries, latest runs, Problems entries |
| `Validation` | extends `DiagnosticState` with the checks, the commands of the runner, saves and viewer reloads |
| `ValidationProofs` | the inductive invariants of `Validation` and four theorems |
| `QualityGates` | overlapping runs of all gates, of one, and after a DRC |
| `MCDesign` | TLC instances of these three, side by side |
| `McpSession` | discovery, requests with retries and the connection test of the MCP client |
| `ChatPanel` | prompts that overlap, cancel, clear, the stored history, panels that come and go |
| `McpSessionProofs` | its invariants and two theorems |
| `ViewsProofs` | invariants of `ChatPanel` and `QualityGates` and four theorems |
| `MCClients` | TLC instance of these two, side by side |
| `Migrations` | the settings migrations and the move of the plaintext key, over windows |
| `WorkspaceContext` | coalesced refreshes, the active project, the context keys and the status bar |
| `PcmInstall` | installs, updates and uninstalls, and the three records of what is installed |
| `ComponentSearch` | searches that overlap, the cache of their answers, the view and its rows |
| `ActivationProofs` | invariants of `Migrations` and `WorkspaceContext` and seven theorems |
| `PcmInstallProofs` | its invariants and five theorems |
| `ComponentSearchProofs` | the invariants of the cache and of the view, and two theorems |
| `MCServices` | TLC instances of these four, side by side |

The `.cfg` files are the runs of section 5. Some definitions are variants of the
one that follows them, with one plausible mistake (`DrcGatesOnly`, `CopyThemeOver`,
`EndDropsQueue` and the like). No specification uses them: they show that each
property would notice the mistake.

## 3. LiveViewer and the code

Every field of `BaseKiCanvasEditorProvider` is a map or set keyed by the
document's URI, and no handler reads another document's entries, so the module
models one document. One action is the code from one await to the next:

| Code | Actions |
|---|---|
| `resolveCustomEditor`, `trackPanel`, `postFile`, `buildViewerPayload` | `OpenPanel`, `OpenStat`, `OpenRead` (with `SetHtml`, `OpenFails`) |
| `onDidDispose`, `untrackPanel` | `ClosePanel` |
| `onDidChangeViewState` | `HidePanel`, `ShowPanel`; the 30 s release timer is `ReleaseCache` |
| message `requestRefresh` | `RequestRefresh` |
| `onDidSaveTextDocument` listener | `SaveHook` |
| watcher listeners, `externalFileChanged` | `WatcherEvent`, `ExternalFileChanged` |
| `scheduleRefresh` | `refreshDebounce`, `DebounceFires` |
| `checkForChangesOnFocus` | `ShowPanel` starts it, `FocusChecked` ends it |
| `refreshDocument` | `RefreshDocument` up to the first await, `EndRefresh` and `FailRefresh` for finally and catch |
| `isStableFile`, `prepareExternalRefresh` | `SettleBefore`, `SettleAfter`, `Unstable`, `SettleRetry`, `Compare` |
| `readRefreshPayload` | `BuildStat`, `BuildRead`, `Validate` (`Outdated`, `ReadAgain`) |
| `publishRefresh` | `Publish`, `PostNext`, `Published`, `Withhold` |

A pending `stat` or `readFile` is answered in two steps: `FsAnswer...` records
what the disk holds at that moment, and the continuation runs later. So a write
may fall between the file system's answer and the handler that uses it.

Abstractions:

- A version number stands for a file's bytes and for its (mtime, size) pair,
  0 for "no such thing". Two versions never share a pair: a writer that changes
  the bytes within the clock's resolution and keeps the size is not modelled.
- `torn` are the versions that `isCompleteKiCadFile` rejects.
- The inline-size limit is not modelled: every file is small enough to inline.
  Above the limit the payload has no image and the completeness check is off.
- Base64, metadata, theme, restore state and reports to the viewer state store
  carry no control and are left out, as are the webview's other messages.
- A webview shows what it was given last. A `refresh` message is displayed by a
  page that has an image (`Display`): a panel that is still loading has no page
  yet, and one whose first load failed holds the error page
  (`providers/viewerHtml.ts:220-251`), which has no script. Posting to a disposed
  panel may throw (both outcomes are allowed); setting its html throws.
- A panel value is used again only when nothing of its former life is in flight,
  and one focus check is in flight per panel.
- `dispose` of the provider happens only when the extension host goes down.

`ExternalWrite`, `EditorEdit`, `EditorSave`, `EditorDiscard`, `LoseNotification`
and the `FsAnswer` actions are the environment.

### StudioContext and the code

| Code | Actions |
|---|---|
| a save and a DRC on save, another active text editor, a project the user selects, a variant: `pushStudioContext` up to the await of `buildStudioContext` | `Trigger` (`StartBuild`) |
| `schedulePushStudioContext('cursor')` and its timer | `CursorMoves`, `CursorTimerFires` |
| what changes without a push: another viewer tab (`extension.ts:419-421`), projects discovered anew, selections that viewers report, kicad-cli found | `SilentChange` |
| `buildStudioContext` after its awaits, `ContextBridge.pushContext`; a build that throws | `BuildEnds`, `PushContext`; `BuildFails` |
| `ContextBridge.flushPending`, called by a push, the timer or `dispose` | `Flush`, `FlushTimerFires`, `Dispose` |
| `McpClient.pushContext` and the transport's repeated attempts | `CallArrives`, `CallFails`, `AnswerLost` (`Shows`) |

The state of the editor is a history of contexts; a *moment* is an index into
it. A build reads the active editor when it starts and the DRC summary, the
cursor and the variant when it ends, so a snapshot is a pair of moments, one per
part. Hashes compare the contents at these moments, not the moments: a snapshot
mixed of two moments can equal an earlier context. Four variables only remember
what the properties speak of: `pushed` (what `pushContext` was last called with),
`shadowed` (it returned early while another context waited), `arrived` (the call
whose context the server holds) and `overtaken` (a build or a call was overtaken
by a later one, since something is on its way).

Abstractions: a context has two parts (what is read before the awaits, what is
read after them), each with two contents; the redaction of paths and
the cache of design blocks are left out; the workspace is trusted; a change of
the text editor and the event that reports it are one step, unless the change is a
`SilentChange`, which needs no event; the push at activation is a
`Trigger`. A call that the settings forbid is a `CallFails`.

### Validation and the code

| Code | Actions |
|---|---|
| commands `runDRC`, `runERC`: `runCheck` up to its first await | `RunCheck` (`Start`) |
| save of a document, `runConfiguredSaveChecks` up to its first await; a save by KiCad | `Save` |
| `KiCadCliRunner.run` after the detection: join or `executeCommand` | `Detected` (`Existing`) |
| events `close` and `error` of the process | `CliEnds`, `CliFails`; kicad-cli itself is `CliReads` |
| cancel button of the progress, timeout | `Cancel` |
| rest of `runCheck` and of its caller: read, apply or record, delete | `Returns` |
| what the handlers do with a good result, in the same `try` | `HandlerFails` |
| `publishRefresh` of a viewer, `markStaleForResource` | `Reload` (`MarkStale`) |
| `onDidCloseTextDocument` | `CloseDocument` |
| `WorkspaceContextController` finds the projects | `Discover` |

DRC and ERC share neither tables nor files, so the module models one of them.
Everything from the continuation of the command's promise to the update of the
store runs without another command's step that matters in between, so `Returns`
is one action.

`Scope` is the workspace or a project: the store keeps its tables once for the
workspace and once per project, writes both, and reads the project's entry or
else the workspace's (`Previous`, `Latest`). `version` is the content of a file
on disk. `commands[c]` is the command check `c` started, with the version its
process read; a check that joined has another one as `leader`. A command that
was aborted may still write its report (`alive` after the promise failed).
`outdated` only remembers the checks during which their file was saved.

Abstractions:

- A result is named by the number of its check; counts and messages are left
  out, and whether there were findings is a Boolean.
- Milliseconds are `now`; they pass only when a check has started in the
  present one. kicad-cli reads its file later than in the millisecond the check
  started in.
- The key of a command is its file and report name, which is what the arguments
  of two checks can differ in; the executable does not change. The entry leaves
  `runningCommands` with the promise's settlement.
- The projects are found once and do not change afterwards; the snapshot for the
  active project, `lastGoodCapturedAt` and the views are left out.

### McpSession and the code

| Code | Actions |
|---|---|
| `McpClient.rpc` up to its first await, for `callTool` and `readResource` | `Ask` (`JoinDiscovery` is `ensureReady`) |
| `testConnection`, `retryNow`; `runConnectionTest` after `detectInstall` | `StartTest`, `ProbeInstall` |
| the answer to discovery and the well-known server card | `DiscoveryAnswered` |
| `captureServerCard` and what resumes after it | `CardCaptured` (`Admits`, `Refuses`) |
| discovery's errors, and `finally` of `ensureReady` | `DiscoveryFails` |
| `HttpJsonRpcTransport.execute`: a transient failure, the pause, the next attempt | `Transient`, `Retry` |
| answers and errors of calls; `tools/list` in the test; the test's `catch` | `CallEnds`, `ToolsListAnswered`, `ToolsListFails`, `Catches` |
| `onDidChangeConfiguration` with another endpoint | `ChangeEndpoint` |

The extension speaks the stateless 2026 protocol, so every request asks for a
discovery first and shares the one in flight (`readyPromise`). A request may
time out and be repeated `maxRetries` times; `target` and `attempt` belong to a
message, not to a caller. `ReplaceServer` is the environment: the server at an
address is upgraded, downgraded or replaced.

Abstractions: two verdicts of compatibility; `Unset` is every address that
`getEndpoint` rejects; the workspace is trusted; "Disconnected" also stands for
"NotInstalled"; the traffic log, the tools found and the store that mirrors the
state for the views are left out.

### ChatPanel and the code

`runPrompt` is cut at its awaits: `Send`, `ProviderSelected`, `AnswerAnnounced`,
`BecomesBusy`, `StartsStreaming`, then `Chunk` and one of `StreamEnds`,
`StreamStops` with `Stopped`, or `StreamThrows`. `GivesUp` are its returns and
errors before the stream. `Cancel` and `Clear` are messages, `ClosePanel` is
`handleDisposed`, `OpenPanel` is `createOrShow` with `loadHistory`. A message is
a prompt's number and whether it is the prompt, the empty answer or a text: the
object is shared between the array and the stream, which changes it in place.

### QualityGates and the code

`RunAll`, `RunGate`, `ScheduleDrcRefresh` and `DrcTimer` start a run; the calls of
the MCP server are answered in any order (`GateAnswered`) for the design as it is
then; `RunEnds` and `RunFails` are what follows the awaits. A result is the
version of the design it is about, 0 for PENDING. The report of the project may
have a row for each of two gates (`Rows`, `FirstRow`); `OneGate` is
`runGate` with `mergeGates`, which takes the report's first row for whichever of
the two was asked. `misplaced` remembers the gates that this happened to since they were
last run. `ReadCache` is `refresh` and a new window.

### Migrations and the code

`Activate` to `MigrationsDone` are `runSettingsMigrations` with the three entries
of `DEFAULT_SETTINGS_MIGRATIONS`; `apply` is `Apply` up to its first await, then
`CopyTheme` and `ClearTheme` or `Replace` for each scope, `StoreVersion` for the
global state. `ReadKey` to `KeyDone` are `migratePlaintextSettingToSecret`. Every
window runs its own copy over shared settings, and `CloseWindow` ends it
anywhere. Settings of folders, which `inspect` also reports, are those of a
workspace here.

### WorkspaceContext and the code

`Refresh` is the entry of `refreshContexts` with its guard, `End` its `finally`.
`Discovered`, `AskProbe`, `ProbeAnswered`, `Publish`, `Published` and
`RefreshFails` are `doRefreshContexts` between its awaits; `Select` and `Selected`
are `selectActiveProject` before and after its write to the workspace state.
`PickActiveProject` is `pickActiveProject` over projects numbered in the order of
their paths. `seen` are the projects a list made earlier may still offer.

### PcmInstall and the code

`Pick` gives a command the package object of the list as it is; `StartInstall`,
`StartUpdate`, `Install`, `InstallFails` and `Uninstall` are the methods of
`PcmService` between their awaits, `WriteFile` is `PcmPersistence.write` after the
await of the global state, in the order the updates were asked for, and
`RefreshStates` is the rest. `Restart` reads the global state as it got to disk,
with any number of the writes under way. `KiCadInstalls` is KiCad's own manager.
Versions are numbers; an archive's content is its version.

### ComponentSearch and the code

`Command` and `Inline` are `search` (or the language model's tool) and
`runInlineSearch` up to their first await that matters. `Begins` and `NextSource`
are `searchComponentProviders`, which asks Octopart, LCSC, perhaps LCSC once more
and then the local libraries; `Hit`, `Miss` and `ExpiryFails` are
`ComponentSearchCache.get`; `Answered`, `EvictNext`, `Store` and `Stored` are
`set` with `evictOldEntries`, cut at each `storage.update`, which changes the
memory at once and is awaited for the disk. `Loaded`, `Rendered`, `BlankPage` and
`PageFails` are `renderSearchView` after its awaits, `Throws` the `catch` block.
An entry is its key, the cache the order of timestamps, and results are the name
of the search that found them. Any entry may be a day old when it is read.

## 4. Properties

Of `LiveViewer`:

- `TypeOK`: types, and `settleRetries` within its limit although it is read
  before an await and written after it.
- `PublishExact`: the posted image is the version recorded as last rendered.
- `LabelNotNewer`: cached metadata is never newer than the cached bytes, so a
  comparison with a fresh stat cannot take an older image for the current file.
- `HeldWhileUnsaved`: no refresh starts to post while a text editor is dirty and
  an external change is known, also when either came after the refresh started.
- `KeepsUp`: at rest, a visible viewer shows the complete file on disk.
- `BehindIsMarked`: at rest, a panel behind the last displayed version is marked.
- `Quiesces`: retries, rescheduled refreshes and focus checks end.
- `FocusRecovers`: a focus check brings a panel that has an image to the version on
  disk.

Of `StudioContext`:

- `ContextTypeOK`: types; no build, waiting context or call names a moment to come.
- `PendingHasTimer`: a context waits exactly when its timer is armed.
- `ServerFollows`: at rest, the server holds the context that was pushed last, also
  after a deactivation. The exceptions are the code's: the newest call was not the
  last to arrive (it failed, or an older one arrived after it), or the last push
  was taken for a repetition while an older context waited.
- `ServerMovesForward`: what the server is shown implements `LatestValue`, with
  `latest` the present moment and `shown` the server's snapshot: no part of it
  comes from the future or, unless a build or a call was overtaken, is older than
  what the server was shown before.
- `ServerHoldsActive`: at rest, with every call arrived in order, the server holds
  the context the editor is in (violated).

Of `Validation`:

- `ValidationTypeOK`: types; nothing is marked stale that was never a summary.
- `FreshMatchesProblems`: a fresh summary of any scope belongs to the run whose
  findings the Problems view lists for its file, or the file was closed.
- `OneProcess`: no two equal commands are pending.
- `FreshIsCurrent`: of a file whose viewer has reloaded, a fresh summary is about
  the content on disk. The exceptions are the code's: the file was saved during
  that check, or a check of another file, started in the same millisecond, shared
  its report file.
- `FreshAndStaleApart`: once no check of a file runs and its viewer has reloaded, a
  fresh summary is about the content on disk (violated).

Of `McpSession`:

- `SessionTypeOK`: types, and attempts within `maxRetries`.
- `DegradedAfterHandshake`: "Degraded" is only shown once a server has answered
  in this window; neither a stored card nor a stdio configuration causes it,
  although the test's `catch` judges by a state that other requests change.
- `SessionSettles`: every call and every test ends.

Of `ChatPanel`:

- `ChatTypeOK`: types, and histories within their limit, whoever adds to them.
- `StoredAtRest`: with no prompt under way, the stored history is the panel's.
- `BusyAtRest`: with no stream of a panel, it is not busy and has no controller.
- `StreamsCancellable`: cancel reaches every stream of an open panel (violated).

Of `QualityGates`: `GatesShowLastRun`, every gate shows what the last run that
asked for it found, so no run writes back what another gate had when it started.
The exception is the code's: the run of one gate was answered with another's row.

Of `Migrations`:

- `MigrationsTypeOK`: types; a window changes only scopes of its configuration.
- `ThemeKept`: a theme set under the new name stays; one under the old name is
  there under one of the two.
- `GlobalMigrated`: the stored version does not run ahead of the user's settings.
- `KeyKept`: plaintext keys are untouched until SecretStorage has a key.
- `CodexMigrated`: an activated window has no "codex" in effect (violated).

Of `WorkspaceContext`:

- `WorkspaceTypeOK`: types; a refresh waits only behind one in flight.
- `ShowsWorkspace`: at rest, the projects and the editor known are those there are.
- `SelectionSticks`: the user's selection stays active until it is not found.
- `RefreshesSettle`: once events stop, no refresh, timer or selection is left.
- `StatusShowsActive`: at rest the status bar names the active project (violated).

Of `PcmInstall`:

- `PcmTypeOK`: types; a command that stores waits for exactly one write, its own.
- `RecordsAgree`: with no write under way, the service, the global state and
  KiCad's file agree, but for packages a restart has cut off.
- `ForeignKept`: a package only KiCad installed stays in its file.
- `FilesAreRecorded`: files belong to the recorded version of an install.
- `ListShowsInstalled`: with no command under way the list shows what is installed.

Of `ComponentSearch`:

- `CacheBounded`: the cache exceeds its limit by less than the number of searches
  that may overlap, and has one entry for a key.
- `OpensWhatIsShown`: unless searches of the view overlapped, a row opens a
  result of the search it is listed for, or nothing.

## 5. Runs

| Run | Checks | Instance |
|---|---|---|
| `LiveViewer_interleavings` | `PublishExact`, `LabelNotNewer`, `HeldWhileUnsaved` | 2 panels, open, hide, request and edit, 2 writes, 3 moves, overlapping loads, lossy watcher |
| `LiveViewer_at_rest` | `TypeOK`, `KeepsUp`, `BehindIsMarked` | 1 panel, 3 writes, 2 moves, or 2 panels, `Calm`, 2 writes, 4 moves; retry limit 1, reliable watcher, `PromptOpen` |
| `LiveViewer_fair` | `Quiesces`, `FocusRecovers` | 1 panel, all moves, lossy watcher, 2 writes, 3 moves, `PromptOpen`, fairness |
| `LiveViewer_reveal_race` | `BehindIsMarked`, violated | 2 panels, with reveal |
| `Design_side_by_side` | the properties of `StudioContext`, `Validation` and `QualityGates` but the two violated ones | 2 x 2 contents, 3 moments, 3 triggers, 1 repeated delivery; 2 projects with a file each, 2 checks, 1 save; 2 runs, 2 versions |
| `Context_selection` | `ServerHoldsActive`, violated | 2 x 2 contents, 2 moments, 1 trigger |
| `Checks_save_during` | `FreshAndStaleApart`, violated | 1 file, 2 checks, 1 save |
| `Clients_side_by_side` | the properties of `McpSession` and of `ChatPanel` without `StreamsCancellable` | 2 endpoints, 2 calls, 2 attempts; 2 prompts, 2 panels, 3 messages |
| `Services_side_by_side` | the properties of `Migrations`, `WorkspaceContext`, `PcmInstall` and `ComponentSearch` but the two violated ones | 2 windows, 1 close; 2 projects, 3 moves; 2 packages, 2 commands, 2 versions, 1 restart; 2 searches, 2 queries, 2 entries |
| `ChatPanel_cancel` | `StreamsCancellable`, violated | 2 prompts, 1 panel |
| `Migrations_second_workspace` | `CodexMigrated`, violated | 2 windows with a workspace each |
| `WorkspaceContext_status_bar` | `StatusShowsActive`, violated | 2 projects, 3 moves |

Bounds of `LiveViewer`. `MaxWrites` is the number of the newest version; the
file starts as version 1, so an instance with `MaxWrites = 3` has two writes or
deletions. Two are needed for "changed during the read, and again before the
check" and for "deleted during a first load, then back"; three reach the retry
limit 1 plus a new event (the code's limit is 2; the proof is for every limit).
`MaxMoves` bounds panel events and edits. Two panels are needed for the effects
between siblings. Deadlock is not checked: writers and users stop at their
bounds, and then the system rests.

`PromptOpen` restricts timing: a panel's first load does not overlap a refresh
and ends before the user's next move. `KeepsUp`, `BehindIsMarked` and
`FocusRecovers` need it: `lastRendered` is one marker per document, set by
whichever first load ends first, so when two panels' loads straddle a write the
older load can show the older version after the newer one set the marker, and
the external refresh that follows finds nothing to do (`LiveViewer_interleavings`
allows it).

Bounds of `StudioContext`. Three moments and three triggers are enough for a
context that waits while a newer one is flushed at once, for a cursor push that
overtakes a save's build, for a snapshot mixed of two moments, and for a context
that changes and comes back. Builds end and calls arrive in any order. The
contents of a part are interchangeable, so one initial context stands for all.

Bounds of `Validation`. Two checks are the least that join, share a report or
overtake each other, and a file that is saved once has a result that is outdated.
Saves may fall into the file's own check and checks of both files may start in one
millisecond, as they do when several documents are saved at once. `OnlyWatched`:
only the file with a viewer is saved and closed; what is said of fresh results is
said of that one.

Two panels or one. In `LiveViewer_at_rest` a behaviour either has at most one
panel, on which every move is made and which sees three writes, or it has two,
more moves and two writes, and is `Calm`: no panel that is marked as behind is
revealed, and none is closed that a refresh in flight has yet to post to. The
first is what `LiveViewer_reveal_race` shows to fail; the second makes the post
throw, see below. A panel that is alone can do neither.

Side by side. `MCDesign`, `MCClients` and `MCServices` hold three, two and four
modules that share no state: in a behaviour one of them moves (`component` or
`part`) and the others stay as they are, so a run checks instances one by one and
no product of them. Bounds of the others:

- `McpSession`: two endpoints and an unset one, edited at any time, whose servers
  may change at any time; two calls and the test share discoveries, and each
  message has two attempts (the code's number is a setting, 3 by default).
- `ChatPanel`: two prompts are the least that overlap; the second panel opens
  after the first was closed with prompts under way; a history of 3 overflows.
- `QualityGates`: two runs, an edit between their calls. `GatesBound`: of the gates
  that can be run alone, "schematic" and "connectivity" are (`AloneHere`; the other
  three answer for themselves, as "schematic" does), and the timer after a DRC is
  armed only while a run is idle that it can start. The proof is for all gates.
- `Migrations`: two windows of two workspaces, one close. Users have old settings
  of one kind, since the migrations touch different settings; themes and keys are
  those of the user and of one workspace.
- `WorkspaceContext`: two projects; three moves among selecting, creating and
  deleting projects, switching editors, changing the CLI and asking for a refresh.
- `PcmInstall`: two packages, one of which (`a`) gets a second version and
  updates and is left alone by KiCad, while KiCad also installs the other; two
  commands; one restart. With installs by kicad-cli there are neither.
- `ComponentSearch`: two searches are the least that overlap. The cache is
  explored with commands, two queries and so four keys over a limit of 2 (100 in
  the code), which reaches one entry too many; the view with searches of its own,
  one query, and closing and opening at any time.

Deadlock is not checked in them: users stop at their bounds.

Fairness (`LiveViewer!FairSpec`): pending file-system answers, continuations, the
debounce timer, the watcher's and the save event's delivery are weakly fair,
because the host's event loop runs every settled promise, expired timer and
queued event. Writers, users, the loss of a notification and the release timer
are not fair. `McpSession!SessionFairness`: an attempt ends by its deadline
(`fetchWithTimeout` aborts it), a pause ends, a stored card or a file search
settles; no server need answer and no user need act. The fetch of the server card
has no deadline of its own (`mcp/serverMetadata.ts:25`); fairness takes it to
end, as a connection does. `WorkspaceContext!WorkspaceFairness`: timers fire and
searches, probes and updates of the workspace state settle.
`StudioContext` and `Validation` have no liveness property: `ServerFollows` and
`FreshIsCurrent` speak of the states at rest, or of those after a reload.

### Disagreements with the documentation

1. `LiveViewer_reveal_race`: open two panels, hide one and let another program
   save the file. The refresh marks the hidden panel and posts. Reveal the panel
   before the post is acknowledged: its mark is cleared, `refreshDocument`
   returns at once because a refresh is in flight (line 531), and that refresh
   posts only to the panels that were visible. The revealed panel keeps the old
   image, unmarked, until the next event for the file or a focus check refreshes it.
   The comment at lines 496-497 promises it the same revision when revealed.
2. `ChatPanel_cancel`: two prompts sent before the first is busy (a command is
   not kept back while the first waits for its provider) both pass the check at
   `ai/chatPanel.ts:214`. The second's controller replaces the first's
   (line 284), and whichever ends first clears it (line 343): cancel no longer
   reaches the other. The test at `test/unit/chatPanel.test.ts:170` has it abort
   the stream in flight.
3. `Migrations_second_workspace`: the schema version is in the global state of
   all windows (`settings/settingsMigrations.ts:211-213`), but the settings it
   speaks of are also those of each workspace. A workspace opened after another
   was migrated keeps "codex". `docs/AI_PROVIDERS.md:65` of the extension says
   that such settings are migrated.
4. `WorkspaceContext_status_bar`: a refresh takes its snapshot at
   `activation/workspaceContextController.ts:152` and shows it in the status bar
   at line 211, after the context keys were set with ten awaits. A project
   selected in between is active, but the bar names the earlier one until the
   next refresh. `docs/getting-started.md:49` says that it shows the active one.
5. `Context_selection`: `docs/extension/settings.md:48` says that the setting
   `mcp.pushContext` pushes the active file, the DRC summary and the selection.
   `buildStudioContext` reads them (`activation/studioContextController.ts:57-128`),
   but switching between viewer tabs only refreshes the workspace context
   (`extension.ts:419-421`), and a selection only updates the viewer state. What
   changes during or after a build stays unknown to the server until something
   else pushes.
6. `Checks_save_during`: a file is saved after kicad-cli read it and its viewer
   reloads before the check ends. The result of the old content is applied as
   fresh (`activation/saveCheckController.ts:61`; the freshness is fixed in
   `cli/checkCommands.ts:119`) and nothing marks it later. `README.md:85` of the
   extension says that the freshness state separates fresh failures from stale
   reports, `docs/extension/live-viewer-refresh.md:31` that findings are marked
   stale after a refresh.

### Also met

These come from the code and appear in the models, in larger instances or under
the timing named; no run is about them.

*Viewer.* A second panel opened while the file is half written caches that
payload; the external refresh takes the cache entry (line 643), skips the
completeness check (lines 686-694) and replaces the first panel's image, which
the comment at line 691 excludes. A panel that is closed while a refresh posts to
the panels before it makes the post throw (lines 508-519); the `catch` at line 549
leaves the marker as it was, and the panels after it keep the older image without
a mark, while those before it show the newer one, until the next event or focus
check. A panel whose first load failed keeps its error page: refreshes post to it
and set the document's marker, but only opening it again displays the file. Two
first loads that straddle a write may end in the other order, and the older image
stays.

*Context push.* The editor shows A, which was sent; then B, which waits for its
timer; then A again. `pushContext` finds A's hash equal to the last one sent and
returns (`mcp/contextBridge.ts:95`) without dropping B: B is sent and stays on the
server while the editor is in A (`shadowed` in `ServerFollows`). A slow build that
ends after a later one replaces the newer context, and calls may arrive in the
other order (`overtaken`). A context whose call failed is not sent again.

*Validation.* `markProblemsDiagnosticsStale` publishes the latest findings as
those of the file whose viewer reloaded (`state/diagnosticStateStore.ts:317`),
also when they are another sheet's. Checks of two files that start in one
millisecond name one report file (`cli/checkCommands.ts:36`): a check may read the
other file's findings as its own, or find its report deleted (`SharesReport`).

*MCP session.* The endpoint is read when a discovery starts and again when a
request leaves: where the setting is edited in between, a request reaches a server
nobody found compatible, although `docs/release-notes/1.0.0.md:14` of the extension
says that incompatible servers receive no context pushes or calls; and the
endpoint's change joins a test under way. A late answer to `tools/list`
shows "Connected" over an "Incompatible" found meanwhile. When the test's own
second discovery finds the server incompatible, the test's `catch` shows
"Disconnected". A request that is in a pause is sent again although a
concurrent discovery has found the server incompatible. A discovery that fails
outside the test leaves "Connecting".

*Chat.* A message appended when a panel has hydrated from the store may be there
twice; a prompt of a closed panel stores its history over the new panel's
(`late`); when the connection test rejects, the empty answer stays; when the
other prompt has cleared the controller, the next access to it throws.

*Quality gates.* `runGate("connectivity")` takes the report's first row, which is
the schematic's (`providers/qualityGateProvider.ts:178`), so that the schematic gate
has the new result and the connectivity gate is PENDING (`misplaced`); a run of
all gates overwrites a single gate's newer result when it ends later.

*Migrations.* With different plaintext keys in the user's and the workspace's
settings only the effective one is kept; the stored version may go back when two
windows migrate; a theme set between `inspect` and `update` is overwritten.

*Workspace context.* The probe of the earlier CLI that answers after
`invalidateProbeCache` is kept (line 233), against the comment at line 99;
`selectActiveProject` may activate a project that was removed.

*Component search.* Two searches of the view that overlap: the first to render
lists its results after the second has replaced `lastInlineResults`
(`components/componentSearch.ts:240`), so that a row opens another search's
result. A view closed while results are rendered throws and forgets them. After
overlapping writes the cache has one entry more than `MAX_CACHE_ENTRIES` until
the next write.

*Package manager.* An update removes the files before the download
(`library/pcmService.ts:160`), so that one that fails leaves a recorded package
without files, and one with an outdated package object removes them and installs
nothing. An install with such an object is a downgrade. A crash between the
extraction and the store leaves files without a record (`cutOff`); a package
uninstalled just before a restart may stay in KiCad's file; an identifier the
extension once managed is dropped from KiCad's file when KiCad installs it later.

## 6. Proofs

`LiveViewerProofs` proves, for every finite set of panels, every value of the
settings and bounds and every kind of moves,

- `TypeCorrect`: `Spec => []TypeOK`,
- `PublishExactAlways`: `Spec => []PublishExact`,
- `LabelNotNewerAlways`: `Spec => []LabelNotNewer`,
- `HeldWhileUnsavedAlways`: `"close" \notin UserMoves` implies
  `Spec => HeldWhileUnsaved`,
- `BehindIsMarkedAlways`: `PromptOpen` implies
  `Spec /\ [][Calm]_vars => []BehindIsMarked`,
- `KeepsUpAlways`: `PromptOpen`, `AutoRefresh`, `ReliableWatcher` and
  `"discard" \notin UserMoves` imply `Spec /\ [][Calm]_vars => []KeepsUp`.

None of these is inductive alone. The invariant is `Strengthened`, a conjunction
of named parts: `DataOK` (types, and that a retry in progress has room under the
limit), `TypeFlags` (the Boolean variables, kept apart because they need another
prover) and `Order`: every version number held anywhere (disk, cache, marker,
answers, the refresh's label and body) is at most `writes`, labels are at most
their bodies, and once the last stat has agreed with the label, the body, which
was read between the two, is that version too. Each part is shown to hold
initially and to be preserved by every action, one step per action.

`HeldWhileUnsaved` needs one more part, `Caught`: while a refresh that is not
external is in flight and an external change is pending, the revision has moved,
so that `Outdated` refuses to post. Closing the last panel resets the revision to
0 and a reopened document can count up to the same number again, which is why the
theorem excludes closing.

`BehindIsMarked` is about states in which nothing is being posted, and what holds
meanwhile is the invariant `View`: a panel with an image is behind the last
displayed version only if it is hidden and marked (`BehindHidden`); while a
refresh posts, a panel is posted to, still to come, or marked (`Posted`); and no
answer, read or post in flight goes back behind that version (`NewerTasks`), so
that what is shown next is not older than the marker. Both rest on `OneOpening`,
which is what `PromptOpen` gives: a first load runs by itself.

`KeepsUp` adds `Flow`. `Scheduled` says that a visible panel which shows another
version than the disk has a watcher event, a debounce, a refresh or a focus check
before it that finds the difference. For that a refresh must not end on what it
read too early: `RefreshFlow` says that what it has is the disk's version, or the
watcher has an event to deliver, or `changeRevision` has moved since the refresh
began, in which case it starts over; `OpenFlow` says the same of a first load.
The hypotheses are what the property needs: without `AutoRefresh`, or when events
are lost, nobody looks again (`FocusRecovers` is the property for that case), and
a discarded edit leaves the panel with what it showed.

Only the three assumptions of `LiveViewer` on the constants are used.

`StudioContextProofs` proves, for every set of contents and every bound, in any
order of builds and calls and without a hypothesis,

- `TypeCorrect`: `ContextSpec => []ContextTypeOK`,
- `PendingHasTimerAlways`: `ContextSpec => []PendingHasTimer`,
- `Forward`: `ContextSpec => ServerMovesForward`,
- `ServerFollowsAlways`: `ContextSpec => []ServerFollows`.

`Forward` is a refinement: every step maps to `Advance`, `Follow` or a stutter of
`LatestValue`. That the server never goes back is not inductive; the invariant
`InStep` is that, unless something was overtaken, the server, the calls in flight,
the waiting context and the builds form a chain (`Ordered`): what is nearer to the
server is older, part by part, and the numbers of calls and builds grow along it.
An element that leaves its queue before an older one breaks the chain and sets
`overtaken`; the chain is whole again when nothing is on its way.

`ServerFollows` needs `Follows`. `PushedNext` says where the content of the last
push is: in the context that waits, or else in the last one sent, unless the push
was `shadowed`. `PendingDiffers` says that a context waits only if it differs from
the last one sent, so that the flush which empties the queue sends it; and
`Delivered` that the newest call, or else the server it arrived at, has the last
one sent. The comparison is of hashes throughout, so the server may hold another
moment with the same content.

`ValidationProofs` proves, for every set of files and projects, every timing and
every bound,

- `TypeCorrect`: `ValidationSpec => []ValidationTypeOK`,
- `FreshMatchesProblemsAlways`: `ValidationSpec => []FreshMatchesProblems`,
- `OneProcessAlways`: `ValidationSpec => []OneProcess`,
- `FreshIsCurrentAlways`: `ValidationSpec => []FreshIsCurrent`.

The invariant has a part for the store and one for the runner. For the store,
`FreshMatchesProblems` needs `FreshInScope`: a project's fresh summary is about a
file of the project and came after the projects were known, so an operation on a
file writes to every scope that holds a fresh summary of it. For the runner,
`Started` says that a check has no command before its detection ended; since a
command is looked up and entered in one step, a new pending command is never
equal to another. `FreshIsCurrent` needs `ReadInv`: a command with the
arguments of a running check that is not `outdated` has read what the disk holds or
nothing yet (`CurrentRead`), it reads in a later millisecond than it starts in
(`ReadLater`), so that a check neither joins a command nor finds a report that read
before it began, and a result is of a command that has read (`HasRead`).
`FreshHasResult` then says of every scope that the fresh summary of a check that
nothing disturbed (`Undisturbed`: no save, no shared report) is of the version on
disk unless the viewer has a reload to do, after which it is stale. The
assumptions are those of `DiagnosticState` and `Validation` on their constants.

`McpSessionProofs` proves, for every set of requests and endpoints and every
bound,

- `SessionTypeCorrect`: `SessionSpec => []SessionTypeOK`,
- `DegradedAfterHandshakeAlways`: `SessionSpec => []DegradedAfterHandshake`.

The bound on attempts needs `RoomToRetry`: a pause is followed by one more
attempt, so there is one left. `DegradedAfterHandshake` needs `HandshakeInv`: the
connection test judges its failure by `connected`, which other requests set and
reset between its awaits; it is TRUE during a discovery only if `tools/list` was
answered or failed meanwhile, and `tools/list` is sent only behind a compatible
card.

`ViewsProofs` proves, for every set of prompts, number of panels and limit of the
history,

- `ChatTyped`: `ChatSpec => []ChatTypeOK`,
- `BusyAtRestAlways`, `StoredAtRestAlways`: the same of the two invariants,

and for every set of runs, whichever gates are run alone,

- `GatesShowLastRunAlways`: `GatesSpec => []GatesShowLastRun`.

`ChatTypeOK` is inductive: whatever a prompt makes of a history is trimmed when it
is stored, and what is not stored does not make it longer. `BusyAtRest` becomes
inductive with `Fresh`, which says that panels to come are as they will be made,
and that prompts belong to panels there are. `StoredAtRest` is false halfway: a
chunk changes the history and stores nothing. `StoredHeld` weakens it to prompts
that are not streaming, which every exit of `runPrompt` restores by storing.
`GatesShowLastRun` needs `GatesAgree`, which adds what the workspace state has,
since the view is read from there again.

`ActivationProofs` proves, for every set of workspaces, windows, themes and keys,

- `MigrationsTypeCorrect`: `MigrationsSpec => []MigrationsTypeOK`,
- `ThemeKeptAlways`, `GlobalMigratedAlways` and `KeyKeptAlways`: the same of
  `ThemeKept`, `GlobalMigrated` and `KeyKept`.

Each is about what a window read before an await and acts on after it.
`ThemesSeen` and `CopiedBeforeClear` say what of it can be stale: a new name once
set stays set, so a window that saw none may have missed one, but never one of
the user's, and the old name is cleared only where the new one is set.
`VersionSound` says that a window past a migration knows the user's settings are
migrated, and `KeyInv` that one that clears the plaintext saw or stored a key.

`ActivationProofs` also proves, for every set of projects and number of moves,

- `WorkspaceTypeCorrect`: `WorkspaceSpec => []WorkspaceTypeOK`,
- `SelectionSticksAlways`: `WorkspaceSpec => []SelectionSticks`,
- `ShowsWorkspaceAlways`: `WorkspaceSpec => []ShowsWorkspace`.

`SelectionHeld` adds the selection of the last window, which no discovery has
looked for yet. `DisksSeen` and `EditorSeen` say of every event that what it
changed was read since, or that a refresh which will read it is under way,
queued or behind a timer. That the projects have a first one is shown by
well-founded induction on the numbers.

`PcmInstallProofs` proves, for every set of packages and commands and every
number of versions and restarts,

- `PcmTypeCorrect`: if there is a package, `PcmSpec => []PcmTypeOK`,
- `RecordsAgreeAlways`, `ForeignKeptAlways`, `FilesAreRecordedAlways` and
  `ListShowsInstalledAlways`: the same of the four invariants, without the
  hypothesis.

All rest on `QueueInv`: a command is storing exactly while one write of it is
queued, and no two queued writes are of one command. `ManagedInv` says that what
any record has is managed and ever was. `AgreeInv` says that the map is what the
newest queued write will store, or what is stored, and that
`installed_packages.json` has nothing of the extension's that is not managed,
which is why writing the oldest of several writes takes nothing else away;
`FilesInv` that files and map change together or the files go; `ListInv` that the
list is behind only while a command is between its write and its refresh.

`ComponentSearchProofs` proves, for every finite set of searches, every set of
queries and every limit of the cache,

- `CacheBoundedAlways`: `SearchSpec => []CacheBounded`,
- `OpensWhatIsShownAlways`: `SearchSpec => []OpensWhatIsShown`.

That the cache is over its limit by less than the number of searches says nothing
of the step that adds an entry: a search chose what to delete before its awaits,
and others have added and deleted since. `Room` counts for every set `T` of
searches that make room: what is cached and none of them has still to delete,
together with one entry for each of them, stays below the limit and the number of
searches. A search that chooses leaves less than the limit by itself, whatever is
in `T` besides; one that deletes removes an entry which was not counted; one that
stores takes the place it was counted for; one that fails is counted no longer.
The empty set is the property. `Removing`, `Appending` and `HeadAndTail` are the
lemmas on sequences without repetitions. For the view, `ViewInv` says that from
its loading page to its own a search of the view leaves no rows there
(`NoRows`), and that what a row opens is of that search once it is remembered
(`Remembers`).

The assumptions are those the modules state on their constants, and the
hypotheses named above. With these every invariant and action property the
passing runs check is proved.
Liveness (`Quiesces`, `FocusRecovers`, `SessionSettles`, `RefreshesSettle`) stays
with TLC, since fairness and ENABLED are beyond these provers.

## 7. Not modelled

See the components of `PROJECT.json`. Inside the modelled ones:

- Viewer: the inline-size limit, the webview's other messages, disposal of the
  provider, and equal metadata for different bytes.
- Context push: the fields of a context beyond the two parts, path redaction, the
  design-block cache.
- Validation: the runner's bounded output, its redaction and its use by exports,
  `cancelAll`, the snapshot shown for the active project, the syntax diagnostics,
  and a run of the AI analysis, which may start a DRC whose result is not stored.
- MCP session: the adapter that keeps sessions, which the extension does not
  select; Restricted Mode; deactivation.
- Chat: analyses without a stream, tool calls offered in an answer, the choice of
  provider and model.
- Quality gates: details, reports, the check that blocks runs without HTTP.
- Workspace context: the keys and icons that depend on settings alone; the counts
  of violations in the bar, which keep the previous project's when the active one
  has none.
- Component search: the providers' HTTP clients, ranking and html, the details
  panel, the offer to install a package, the list of recent searches.
- Package manager: the library tables (identifiers whose names become equal or
  prefixes of each other there), disk errors, several repositories, a kicad-cli
  that gains or loses its install command, a lost index.

Most of the repository's lines are text processing (parsers, command lines,
reports), tables of tools and settings, html and scripts of webviews, dialogs and
build scripts. They hold no state that other handlers could meet half-way;
operators for them would restate them line by line.

## 8. Plan

1. `LiveViewer` (done, its invariants proved). Next: an abstract specification of
   a preview that it implements.
2. `StudioContext` with `LatestValue` (done, proved).
3. `Validation` with `DiagnosticState` (done, proved). Next: an abstract
   specification of a result store that `DiagnosticState` implements.
4. `McpSession`, `ChatPanel`, `QualityGates`, `Migrations`, `WorkspaceContext`,
   `PcmInstall`, `ComponentSearch` (done, their invariants proved). Next: the store
   that mirrors the session's state.
5. `FixQueue`: a list that may be replaced while its items are applied.
6. Candidates: variants, policy and scorecard as operators.
