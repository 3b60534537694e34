------------------------------ MODULE Validation ------------------------------
(* Checks of one kind from their start to the store: KiCadCheckService, the   *)
(* commands of KiCadCliRunner that serve them, and the handlers that apply    *)
(* the outcome to DiagnosticStateStore.                                       *)
(*                                                                            *)
(* A check names its report file by the millisecond it starts in, runs        *)
(* kicad-cli through the runner, which joins a running command that is equal, *)
(* reads the report when the command ends and deletes it.  Saves, reloads of  *)
(* the viewer, cancellations and other checks happen at any time in between.  *)
EXTENDS DiagnosticState

CONSTANTS
  Watched,      \* files with a visible viewer, which marks results stale
  MaxChecks,    \* bound: checks
  MaxVersion    \* bound: versions of a file

ASSUME WatchedAssumption == Watched \subseteq File
ASSUME CheckBoundAssumption == MaxChecks \in Nat /\ MaxVersion \in Nat

Check == 1..MaxChecks

VARIABLES
  version,    \* [File -> version on disk]
  reloadDue,  \* files saved whose viewer has not reloaded yet
  now,        \* Date.now()
  checks,     \* [Check -> the call of runCheck]
  commands,   \* [Check -> the command the check started, and its process]
  report,     \* [stamp -> check whose process wrote the report file, or 0]
  result      \* [Check -> check whose report it read, or 0]

\* What a property remembers of the past; no guard reads it.
VARIABLE
  outdated    \* checks of files that were saved while the check ran

validationVars == <<projectsKnown, store, version, reloadDue, now, checks, commands, report,
                    result, outdated>>

Stamp == 0..MaxChecks

(* A check awaits the detection of kicad-cli ("detect") or its command        *)
(* ("running"), which `leader` started; its handler may fail afterwards.      *)
CheckRecord == [at : {"none", "detect", "running", "done", "failed"}, file : File \cup {NoFile},
                stamp : Stamp, leader : 0..MaxChecks, cancelled : BOOLEAN]
NoCheck     == [at |-> "none", file |-> NoFile, stamp |-> 0, leader |-> 0,
                cancelled |-> FALSE]

(* The promise of the command and its process, with the version it read (0    *)
(* before) and whether it found violations.                                   *)
CommandRecord == [promise : {"none", "pending", "ok", "error"}, alive : BOOLEAN,
                  version : Nat, dirty : BOOLEAN]
NoCommand     == [promise |-> "none", alive |-> FALSE, version |-> 0, dirty |-> FALSE]

ValidationInit ==
  /\ StoreInit
  /\ version = [f \in File |-> 1] /\ reloadDue = {} /\ now = 0
  /\ checks = [c \in Check |-> NoCheck]
  /\ commands = [c \in Check |-> NoCommand]
  /\ report = [t \in Stamp |-> 0]
  /\ result = [c \in Check |-> 0] /\ outdated = {}

InFlight(c) == checks[c].at \in {"detect", "running"}

-----------------------------------------------------------------------------
(* Starting a check.                                                          *)

\* The name of the report file: the time of the start.
ReportStamp == now

\* runCheck up to its first await, for the check numbered c.
Start(f, c) ==
  /\ checks[c].at = "none" /\ \A d \in 1..(c - 1) : checks[d].at # "none"
  /\ checks' = [checks EXCEPT ![c] =
                  [at |-> "detect", file |-> f, stamp |-> ReportStamp, leader |-> 0,
                   cancelled |-> FALSE]]

\* The command runDRC or runERC, or a language model's tool.
RunCheck(f) ==
  /\ \E c \in Check : Start(f, c)
  /\ UNCHANGED <<projectsKnown, store, version, reloadDue, now, commands, report, result,
                 outdated>>

\* The file is saved, in VS Code or by KiCad; checks on save are configured
\* (`auto`) or not.
Save(f, auto) ==
  /\ version[f] < MaxVersion
  /\ version' = [version EXCEPT ![f] = @ + 1]
  /\ reloadDue' = reloadDue \cup ({f} \cap Watched)
  /\ IF auto THEN \E c \in Check : Start(f, c) ELSE UNCHANGED checks
  /\ outdated' = outdated \cup {c \in Check : InFlight(c) /\ checks[c].file = f}
  /\ UNCHANGED <<projectsKnown, store, now, commands, report, result>>

Tick ==
  /\ now < MaxChecks /\ now' = now + 1
  /\ \E c \in Check : checks[c].at # "none" /\ checks[c].stamp = now
  /\ UNCHANGED <<projectsKnown, store, version, reloadDue, checks, commands, report,
                 result, outdated>>

-----------------------------------------------------------------------------
(* The runner.                                                                *)

\* Mutant: the key of a command is different for each caller.
ExistingOfCaller(c) == {d \in {c} : commands[d].promise = "pending"}

\* runningCommands: the command with the same arguments that still runs.
Existing(c) == {d \in Check : /\ commands[d].promise = "pending"
                              /\ checks[d].file = checks[c].file
                              /\ checks[d].stamp = checks[c].stamp}

Settle(c, outcome) == IF commands[c].promise = "pending" THEN outcome ELSE commands[c].promise

\* run after detect: join, or spawn a process.  The command fails at once when
\* kicad-cli is missing or the caller cancelled in the meantime.
Detected(c) ==
  /\ checks[c].at = "detect"
  /\ \/ \E d \in Existing(c) :
          /\ checks' = [checks EXCEPT ![c].at = "running", ![c].leader = d]
          /\ UNCHANGED commands
     \/ /\ Existing(c) = {} /\ ~checks[c].cancelled
        /\ checks' = [checks EXCEPT ![c].at = "running", ![c].leader = c]
        /\ commands' = [commands EXCEPT ![c].promise = "pending", ![c].alive = TRUE]
     \/ /\ checks' = [checks EXCEPT ![c].at = "running", ![c].leader = c]
        /\ commands' = [commands EXCEPT ![c].promise = "error"]
  /\ UNCHANGED <<projectsKnown, store, version, reloadDue, now, report, result, outdated>>

\* kicad-cli reads the file, later than in the millisecond of its start.
CliReads(c) ==
  /\ commands[c].alive /\ commands[c].version = 0 /\ checks[c].stamp < now
  /\ \E dirty \in BOOLEAN :
       commands' = [commands EXCEPT ![c].version = version[checks[c].file], ![c].dirty = dirty]
  /\ UNCHANGED <<projectsKnown, store, version, reloadDue, now, checks, report, result,
                 outdated>>

\* It writes the report and exits; a command that was aborted may come that far.
CliEnds(c) ==
  /\ commands[c].alive /\ commands[c].version # 0
  /\ commands' = [commands EXCEPT ![c].alive = FALSE, ![c].promise = Settle(c, "ok")]
  /\ report' = [report EXCEPT ![checks[c].stamp] = c]
  /\ UNCHANGED <<projectsKnown, store, version, reloadDue, now, checks, result, outdated>>

\* It exits with an error, or dies of the abort.
CliFails(c) ==
  /\ commands[c].alive
  /\ commands' = [commands EXCEPT ![c].alive = FALSE, ![c].promise = Settle(c, "error")]
  /\ UNCHANGED <<projectsKnown, store, version, reloadDue, now, checks, report, result,
                 outdated>>

\* The user cancels the progress of check c, or its command times out: only the
\* command it started itself is aborted.
Cancel(c) ==
  /\ InFlight(c) /\ ~checks[c].cancelled
  /\ checks' = [checks EXCEPT ![c].cancelled = TRUE]
  /\ commands' = [commands EXCEPT ![c].promise = Settle(c, "error")]
  /\ UNCHANGED <<projectsKnown, store, version, reloadDue, now, report, result, outdated>>

-----------------------------------------------------------------------------
(* The outcome.                                                               *)

\* The rest of runCheck and of its caller: the report is read, applied and
\* deleted; a failed command and a missing report are failures.
Returns(c) ==
  LET leader == checks[c].leader
      found  == report[checks[c].stamp]
  IN /\ checks[c].at = "running" /\ commands[leader].promise # "pending"
     /\ checks' = [checks EXCEPT ![c].at = "done"]
     /\ report' = [report EXCEPT ![checks[c].stamp] = 0]
     /\ \/ /\ commands[leader].promise = "ok" /\ found # 0
           /\ result' = [result EXCEPT ![c] = found]
           /\ ApplyValidationResult(checks[c].file, c, commands[found].dirty)
        \/ /\ commands[leader].promise = "error" \/ found = 0
           /\ RecordValidationFailure(checks[c].file)
           /\ UNCHANGED result
     /\ UNCHANGED <<projectsKnown, version, reloadDue, now, commands, outdated>>

\* What the handler does with a good result (show the Problems view, offer an
\* analysis, push the context) is in the same try: its failure is recorded as
\* one of the check.
HandlerFails(c) ==
  /\ checks[c].at = "done" /\ result[c] # 0
  /\ checks' = [checks EXCEPT ![c].at = "failed"]
  /\ RecordValidationFailure(checks[c].file)
  /\ UNCHANGED <<projectsKnown, version, reloadDue, now, commands, report, result,
                 outdated>>

\* The viewer of f publishes a refresh, after a save or by hand.
Reload(f) ==
  /\ f \in Watched
  /\ reloadDue' = reloadDue \ {f}
  /\ \/ MarkStale(f)
     \/ Previous(f) = NoSummary /\ UNCHANGED store
  /\ UNCHANGED <<projectsKnown, version, now, checks, commands, report, result, outdated>>

CloseDocument(f) ==
  /\ DeleteProblems(f)
  /\ UNCHANGED <<projectsKnown, version, reloadDue, now, checks, commands, report,
                 result, outdated>>

\* WorkspaceContextController finds the projects.
Discover ==
  /\ ~projectsKnown /\ projectsKnown' = TRUE
  /\ UNCHANGED <<store, version, reloadDue, now, checks, commands, report, result,
                 outdated>>

ValidationNext ==
  \/ \E f \in File : \/ RunCheck(f) \/ Reload(f) \/ CloseDocument(f)
                     \/ \E auto \in BOOLEAN : Save(f, auto)
  \/ \E c \in Check : \/ Detected(c) \/ CliReads(c) \/ CliEnds(c) \/ CliFails(c)
                      \/ Cancel(c) \/ Returns(c) \/ HandlerFails(c)
  \/ Tick \/ Discover

ValidationSpec == ValidationInit /\ [][ValidationNext]_validationVars

-----------------------------------------------------------------------------
(* Properties.                                                                *)

\* Types of the store, of the checks and of their commands; in particular
\* nothing becomes stale that was never a summary.
ValidationTypeOK ==
  /\ StoreTypeOK
  /\ version \in [File -> Nat] /\ reloadDue \subseteq File /\ now \in Stamp
  /\ checks \in [Check -> CheckRecord] /\ commands \in [Check -> CommandRecord]
  /\ report \in [Stamp -> 0..MaxChecks] /\ result \in [Check -> 0..MaxChecks]
  /\ outdated \subseteq Check

\* Whatever order checks end in, files are reloaded and projects become known: a
\* summary shown as fresh, in any scope, belongs to the run whose findings the
\* Problems view lists for its file, unless the file's entries were deleted.
FreshMatchesProblems ==
  \A s \in Scope : summary[s].freshness = "fresh" =>
    problems[summary[s].file] \in {NoEntry, [check |-> summary[s].check, stale |-> FALSE]}

\* Two processes that were not aborted never write the same report: the second
\* of two equal commands joins the first, although the runner looks for it only
\* after an await.
OneProcess ==
  \A c, d \in Check :
    /\ commands[c].promise = "pending" /\ commands[d].promise = "pending"
    /\ checks[c].file = checks[d].file /\ checks[c].stamp = checks[d].stamp
    => c = d

\* A check of another file started in the same millisecond: both write and read
\* one report file.
SharesReport(c) ==
  \E d \in Check : /\ checks[d].at # "none" /\ checks[d].file # checks[c].file
                   /\ checks[d].stamp = checks[c].stamp

\* A summary shown as fresh, in any scope, is about the content on disk, once the
\* viewer of its file has reloaded, with two exceptions that are the code's: the
\* file was saved during the check, or the check shared its report file.
FreshIsCurrent ==
  \A s \in Scope :
    LET f == summary[s].file
        c == summary[s].check
    IN /\ summary[s].freshness = "fresh" /\ f \in Watched \ reloadDue
       /\ c \notin outdated /\ ~SharesReport(c)
       => commands[result[c]].version = version[f]

\* What README and the notes on the viewer's refresh say, that "fresh failures"
\* are separated from "stale reports" and findings are marked stale after a
\* refresh: once no check of the file runs and its viewer has reloaded, a summary
\* shown as fresh is about the content on disk.
FreshAndStaleApart ==
  \A s \in Scope :
    LET f == summary[s].file IN
    /\ summary[s].freshness = "fresh" /\ f \in Watched \ reloadDue
    /\ \A c \in Check : InFlight(c) => checks[c].file # f
    => commands[result[summary[s].check]].version = version[f]

=============================================================================
