--------------------------- MODULE ValidationProofs ---------------------------
(* Invariants of Validation for all files, projects, settings and bounds.     *)
EXTENDS Validation, TLAPS

-----------------------------------------------------------------------------
(* The store.                                                                 *)

\* The types of the store but for the Boolean projectsKnown.
TablesOK ==
  /\ summary \in [Scope -> Summary \cup {NoSummary}]
  /\ latestRun \in [Scope -> Run \cup {NoRun}]
  /\ problems \in [File -> Entry]

\* A fresh summary of a project is about a file of the project, and projects
\* were known when it came.
FreshInScope ==
  \A s \in Scope : s # Workspace /\ summary[s].freshness = "fresh"
    => projectsKnown /\ ProjectOf[summary[s].file] = s

\* Where two scopes hold fresh summaries of one file, they are the two scopes
\* every operation on the file writes to.
LEMMA ScopesOfFresh ==
  ASSUME FreshInScope, NEW f \in File, NEW s \in Scope,
         summary[s].freshness = "fresh", summary[s].file = f
  PROVE  s \in {Workspace, ScopeOf(f)}
BY DEF FreshInScope, ScopeOf

LEMMA ScopeType ==
  ASSUME NEW f \in File
  PROVE  ScopeOf(f) \in Scope /\ Workspace \in Scope
BY ProjectAssumption DEF ScopeOf, Scope

LEMMA NamesDiffer ==
  /\ NoSummary \notin Summary /\ NoSummary.freshness = "none"
  /\ NoRun \notin Run /\ NoRun.dirty = FALSE
BY NameAssumption DEF NoSummary, NoRun, Summary, Run

LEMMA PreviousType ==
  ASSUME TablesOK, NEW f \in File
  PROVE  /\ Previous(f) \in Summary \cup {NoSummary}
         /\ Latest(f) \in Run \cup {NoRun}
BY ScopeType DEF TablesOK, Previous, Latest

\* A new summary that is not fresh, with new entries for its file, keeps fresh
\* summaries and entries in step.
LEMMA NotFreshStep ==
  ASSUME TablesOK, FreshInScope, FreshMatchesProblems, NEW f \in File,
         NEW value \in Summary, value.freshness # "fresh",
         summary' = Store(f, summary, value),
         \A g \in File \ {f} : problems'[g] = problems[g],
         UNCHANGED projectsKnown
  PROVE  FreshInScope' /\ FreshMatchesProblems'
<1>1. \A s \in Scope : summary'[s] = IF s \in {Workspace, ScopeOf(f)} THEN value ELSE summary[s]
  BY DEF Store
<1>2. FreshInScope'
  BY <1>1 DEF FreshInScope
<1>3. ASSUME NEW s \in Scope, summary'[s].freshness = "fresh"
      PROVE  problems'[summary'[s].file]
               \in {NoEntry, [check |-> summary'[s].check, stale |-> FALSE]}
  <2>1. s \notin {Workspace, ScopeOf(f)} /\ summary'[s] = summary[s]
    BY <1>1, <1>3
  <2>2. summary[s] \in Summary
    BY <1>3, <2>1, NamesDiffer DEF TablesOK
  <2>3. summary[s].file \in File \ {f}
    BY <1>3, <2>1, <2>2, ScopesOfFresh DEF Summary
  <2> QED BY <1>3, <2>1, <2>3 DEF FreshMatchesProblems
<1> QED BY <1>2, <1>3 DEF FreshMatchesProblems

LEMMA ApplyStep ==
  ASSUME TablesOK, FreshInScope, FreshMatchesProblems,
         NEW f \in File, NEW c \in Nat, NEW dirty \in BOOLEAN,
         ApplyValidationResult(f, c, dirty), UNCHANGED projectsKnown
  PROVE  TablesOK' /\ FreshInScope' /\ FreshMatchesProblems'
<1> DEFINE new  == [file |-> f, check |-> c, freshness |-> "fresh"]
           run  == [file |-> f, check |-> c, dirty |-> dirty]
           mine == [check |-> c, stale |-> FALSE]
<1>1. new \in Summary /\ run \in Run /\ mine \in Entry
  BY DEF Summary, Run, Entry
<1>2. summary' = Store(f, summary, new) /\ latestRun' = Store(f, latestRun, run)
      /\ problems' = [problems EXCEPT ![f] = mine]
  BY DEF ApplyValidationResult
<1>3. new.file = f /\ new.check = c
  OBVIOUS
<1> HIDE DEF new, run
<1>4. TablesOK'
  BY <1>1, <1>2 DEF TablesOK, Store
<1>5. \A s \in Scope : summary'[s] = IF s \in {Workspace, ScopeOf(f)} THEN new ELSE summary[s]
  BY <1>2 DEF Store
<1>6. FreshInScope'
  BY <1>3, <1>5 DEF FreshInScope, ScopeOf
<1>7. ASSUME NEW s \in Scope, summary'[s].freshness = "fresh"
      PROVE  problems'[summary'[s].file]
               \in {NoEntry, [check |-> summary'[s].check, stale |-> FALSE]}
  <2>1. CASE s \in {Workspace, ScopeOf(f)}
    BY <1>2, <1>3, <1>5, <2>1 DEF TablesOK
  <2>2. CASE s \notin {Workspace, ScopeOf(f)}
    <3>1. summary'[s] = summary[s]
      BY <1>5, <2>2
    <3>2. summary[s] \in Summary
      BY <1>7, <3>1, NamesDiffer DEF TablesOK
    <3>3. summary[s].file \in File \ {f}
      BY <1>7, <2>2, <3>1, <3>2, ScopesOfFresh DEF Summary
    <3> QED BY <1>2, <1>7, <3>1, <3>3 DEF FreshMatchesProblems, TablesOK
  <2> QED BY <2>1, <2>2
<1> QED BY <1>4, <1>6, <1>7 DEF FreshMatchesProblems

LEMMA FailureStep ==
  ASSUME TablesOK, FreshInScope, FreshMatchesProblems, NEW f \in File,
         RecordValidationFailure(f), UNCHANGED projectsKnown
  PROVE  TablesOK' /\ FreshInScope' /\ FreshMatchesProblems'
<1> DEFINE new == IF Previous(f) = NoSummary
                  THEN [file |-> f, check |-> 0, freshness |-> "failed"]
                  ELSE [Previous(f) EXCEPT !.freshness = "failed"]
<1>1. new \in Summary /\ new.freshness # "fresh"
  BY PreviousType DEF Summary
<1>2. summary' = Store(f, summary, new) /\ UNCHANGED <<latestRun, problems>>
  BY DEF RecordValidationFailure
<1> HIDE DEF new
<1>3. TablesOK'
  BY <1>1, <1>2 DEF TablesOK, Store
<1> QED BY <1>1, <1>2, <1>3, NotFreshStep

LEMMA StaleStep ==
  ASSUME TablesOK, FreshInScope, FreshMatchesProblems, NEW f \in File,
         MarkStale(f), UNCHANGED projectsKnown
  PROVE  TablesOK' /\ FreshInScope' /\ FreshMatchesProblems'
<1> DEFINE new  == [Previous(f) EXCEPT !.freshness = "stale"]
           mine == [check |-> Latest(f).check, stale |-> TRUE]
<1>1. new \in Summary /\ new.freshness # "fresh"
  BY PreviousType DEF Summary, MarkStale
<1>2. summary' = Store(f, summary, new) /\ UNCHANGED latestRun
      /\ problems' = IF Latest(f).dirty THEN [problems EXCEPT ![f] = mine] ELSE problems
  BY DEF MarkStale
<1>3. mine \in Entry
  BY PreviousType DEF Entry, Run, NoRun
<1> HIDE DEF new, mine
<1>4. problems' \in [File -> Entry] /\ \A g \in File \ {f} : problems'[g] = problems[g]
  BY <1>2, <1>3 DEF TablesOK
<1>5. TablesOK'
  BY <1>1, <1>2, <1>4 DEF TablesOK, Store
<1> QED BY <1>1, <1>2, <1>4, <1>5, NotFreshStep

\* The entries of a file are deleted.
LEMMA DeleteStep ==
  ASSUME TablesOK, FreshInScope, FreshMatchesProblems, NEW f \in File,
         DeleteProblems(f), UNCHANGED projectsKnown
  PROVE  TablesOK' /\ FreshInScope' /\ FreshMatchesProblems'
<1>1. NoEntry \in Entry
  BY DEF NoEntry, Entry
<1>2. TablesOK' /\ FreshInScope'
  BY <1>1 DEF DeleteProblems, TablesOK, FreshInScope
<1>3. ASSUME NEW s \in Scope, summary[s].freshness = "fresh"
      PROVE  problems'[summary[s].file]
               \in {NoEntry, [check |-> summary[s].check, stale |-> FALSE]}
  <2>1. summary[s].file \in File
    BY <1>3, NamesDiffer DEF TablesOK, Summary
  <2> QED BY <1>3, <2>1 DEF DeleteProblems, FreshMatchesProblems, TablesOK
<1> QED BY <1>2, <1>3 DEF DeleteProblems, FreshMatchesProblems

-----------------------------------------------------------------------------
(* The checks and their commands.                                             *)

RunnerOK ==
  /\ version \in [File -> Nat] /\ reloadDue \subseteq File /\ now \in Stamp
  /\ checks \in [Check -> CheckRecord] /\ commands \in [Check -> CommandRecord]
  /\ report \in [Stamp -> 0..MaxChecks] /\ result \in [Check -> 0..MaxChecks]

\* A check that started has a file, and no command before its detection ended.
Started ==
  \A c \in Check :
    /\ checks[c].at # "none" => checks[c].file \in File
    /\ checks[c].at \in {"none", "detect"} => commands[c].promise = "none" /\ ~commands[c].alive

\* What a step does to check c and its command: it starts it with a file, moves
\* it on, or leaves it alone.
StartsOnly(c, f) ==
  /\ checks[c].at = "none"
  /\ checks' = [checks EXCEPT ![c] =
                  [at |-> "detect", file |-> f, stamp |-> now, leader |-> 0,
                   cancelled |-> FALSE]]
  /\ UNCHANGED commands

LEMMA StartStep ==
  ASSUME RunnerOK, Started, OneProcess, NEW f \in File, NEW c \in Check, StartsOnly(c, f)
  PROVE  /\ checks' \in [Check -> CheckRecord] /\ commands' \in [Check -> CommandRecord]
         /\ Started' /\ OneProcess'
<1> DEFINE new == [at |-> "detect", file |-> f, stamp |-> now, leader |-> 0,
                   cancelled |-> FALSE]
<1>1. new \in CheckRecord /\ new.at = "detect" /\ new.file = f
  <2>1. 0 \in 0..MaxChecks /\ now \in Stamp
    BY CheckBoundAssumption DEF RunnerOK
  <2> QED BY <2>1 DEF CheckRecord
<1> HIDE DEF new
<1>2. checks' = [checks EXCEPT ![c] = new] /\ commands' = commands /\ checks[c].at = "none"
  BY DEF StartsOnly, new
<1>3. \A d \in Check : checks'[d] = IF d = c THEN new ELSE checks[d]
  BY <1>2 DEF RunnerOK
<1>4. Started'
  BY <1>1, <1>2, <1>3 DEF Started
<1>5. commands[c].promise = "none"
  BY <1>2 DEF Started
<1>6. OneProcess'
  BY <1>2, <1>3, <1>5 DEF OneProcess
<1>7. checks' \in [Check -> CheckRecord]
  BY <1>1, <1>2 DEF RunnerOK
<1> QED BY <1>2, <1>4, <1>6, <1>7 DEF RunnerOK

\* Any other step of check c and of its command: a new command becomes pending
\* only where no equal one is.
LEMMA CommandStep ==
  ASSUME RunnerOK, Started, OneProcess, NEW c \in Check,
         NEW check \in CheckRecord, NEW command \in CommandRecord,
         checks' = [checks EXCEPT ![c] = check],
         commands' = [commands EXCEPT ![c] = command],
         check.file = checks[c].file, check.stamp = checks[c].stamp,
         checks[c].at # "none", check.at # "none",
         check.at = "detect" => command.promise = "none" /\ ~command.alive,
         command.promise = "pending" => commands[c].promise = "pending" \/ Existing(c) = {}
  PROVE  /\ checks' \in [Check -> CheckRecord] /\ commands' \in [Check -> CommandRecord]
         /\ Started' /\ OneProcess'
<1>1. checks' \in [Check -> CheckRecord] /\ commands' \in [Check -> CommandRecord]
  BY DEF RunnerOK
<1>2. /\ \A d \in Check : checks'[d] = IF d = c THEN check ELSE checks[d]
      /\ \A d \in Check : commands'[d] = IF d = c THEN command ELSE commands[d]
  BY DEF RunnerOK
<1>3. Started'
  BY <1>2 DEF Started
<1>4. \A d \in Check \ {c} : commands[d].promise = "pending" /\ command.promise = "pending"
        => checks[d].file # checks[c].file \/ checks[d].stamp # checks[c].stamp
  BY DEF OneProcess, Existing
<1>5. OneProcess'
  BY <1>2, <1>4 DEF OneProcess
<1> QED BY <1>1, <1>3, <1>5

\* A command alone changes.
LEMMA ProcessStep ==
  ASSUME RunnerOK, Started, OneProcess, NEW c \in Check, NEW command \in CommandRecord,
         UNCHANGED checks, commands' = [commands EXCEPT ![c] = command],
         checks[c].at \notin {"none", "detect"},
         command.promise = "pending" => commands[c].promise = "pending"
  PROVE  /\ checks' \in [Check -> CheckRecord] /\ commands' \in [Check -> CommandRecord]
         /\ Started' /\ OneProcess'
<1>1. checks[c] \in CheckRecord /\ checks' = [checks EXCEPT ![c] = checks[c]]
  BY DEF RunnerOK
<1> QED BY <1>1, CommandStep

-----------------------------------------------------------------------------
(* One lemma per action: the runner's part of the invariant.                  *)

RunnerInv == RunnerOK /\ Started /\ OneProcess

LEMMA StartsIsStart ==
  ASSUME NEW f \in File, NEW c \in Check, Start(f, c), UNCHANGED commands
  PROVE  StartsOnly(c, f)
BY DEF Start, StartsOnly, ReportStamp

LEMMA RunCheckRunner ==
  ASSUME RunnerInv, NEW f \in File, RunCheck(f)
  PROVE  RunnerInv'
<1>1. PICK c \in Check : Start(f, c)
  BY DEF RunCheck
<1>2. StartsOnly(c, f)
  BY <1>1, StartsIsStart DEF RunCheck
<1> QED BY <1>2, StartStep DEF RunnerInv, RunnerOK, RunCheck

LEMMA SaveRunner ==
  ASSUME RunnerInv, NEW f \in File, NEW auto \in BOOLEAN, Save(f, auto)
  PROVE  RunnerInv'
<1>1. version' \in [File -> Nat] /\ reloadDue' \subseteq File /\ UNCHANGED <<now, report, result>>
  BY DEF Save, RunnerInv, RunnerOK
<1>2. /\ checks' \in [Check -> CheckRecord] /\ commands' \in [Check -> CommandRecord]
      /\ Started' /\ OneProcess'
  <2>1. CASE auto
    <3>1. PICK c \in Check : Start(f, c)
      BY <2>1 DEF Save
    <3>2. StartsOnly(c, f)
      BY <3>1, StartsIsStart DEF Save
    <3> QED BY <3>2, StartStep DEF RunnerInv
  <2>2. CASE ~auto
    BY <2>2 DEF Save, RunnerInv, RunnerOK, Started, OneProcess
  <2> QED BY <2>1, <2>2
<1> QED BY <1>1, <1>2 DEF RunnerInv, RunnerOK

\* Steps that leave the checks and the commands alone.
LEMMA IdleRunner ==
  ASSUME RunnerInv, UNCHANGED <<checks, commands, version, report, result>>,
         reloadDue' \subseteq File, now' \in Stamp
  PROVE  RunnerInv'
BY DEF RunnerInv, RunnerOK, Started, OneProcess

LEMMA DetectedRunner ==
  ASSUME RunnerInv, NEW c \in Check, Detected(c)
  PROVE  RunnerInv'
<1> USE DEF RunnerInv
<1>1. /\ checks[c] \in CheckRecord /\ commands[c] \in CommandRecord
      /\ checks[c].at = "detect" /\ commands[c].promise = "none"
  BY DEF RunnerOK, Started, Detected
<1>2. /\ checks' \in [Check -> CheckRecord] /\ commands' \in [Check -> CommandRecord]
      /\ Started' /\ OneProcess'
  <2>1. ASSUME NEW d \in Check,
               checks' = [checks EXCEPT ![c].at = "running", ![c].leader = d],
               UNCHANGED commands
        PROVE  /\ checks' \in [Check -> CheckRecord] /\ commands' \in [Check -> CommandRecord]
               /\ Started' /\ OneProcess'
    <3> DEFINE check == [checks[c] EXCEPT !.at = "running", !.leader = d]
    <3>1. check \in CheckRecord /\ check.file = checks[c].file
          /\ check.stamp = checks[c].stamp /\ check.at = "running"
      <4>1. d \in 0..MaxChecks
        BY CheckBoundAssumption DEF Check
      <4> QED BY <1>1, <4>1 DEF CheckRecord
    <3>2. checks' = [checks EXCEPT ![c] = check] /\ commands' = [commands EXCEPT ![c] = commands[c]]
      BY <2>1 DEF RunnerOK
    <3> HIDE DEF check
    <3> QED BY <1>1, <3>1, <3>2, CommandStep
  <2>2. ASSUME NEW command \in CommandRecord,
               checks' = [checks EXCEPT ![c].at = "running", ![c].leader = c],
               commands' = [commands EXCEPT ![c] = command],
               command.promise = "pending" => Existing(c) = {}
        PROVE  /\ checks' \in [Check -> CheckRecord] /\ commands' \in [Check -> CommandRecord]
               /\ Started' /\ OneProcess'
    <3> DEFINE check == [checks[c] EXCEPT !.at = "running", !.leader = c]
    <3>1. check \in CheckRecord /\ check.file = checks[c].file
          /\ check.stamp = checks[c].stamp /\ check.at = "running"
      <4>1. c \in 0..MaxChecks
        BY CheckBoundAssumption DEF Check
      <4> QED BY <1>1, <4>1 DEF CheckRecord
    <3>2. checks' = [checks EXCEPT ![c] = check]
      BY <2>2 DEF RunnerOK
    <3> HIDE DEF check
    <3> QED BY <1>1, <2>2, <3>1, <3>2, CommandStep
  <2>3. CASE \E d \in Existing(c) :
               /\ checks' = [checks EXCEPT ![c].at = "running", ![c].leader = d]
               /\ UNCHANGED commands
    BY <2>1, <2>3 DEF Existing
  <2>4. CASE /\ Existing(c) = {} /\ ~checks[c].cancelled
             /\ checks' = [checks EXCEPT ![c].at = "running", ![c].leader = c]
             /\ commands' = [commands EXCEPT ![c].promise = "pending", ![c].alive = TRUE]
    <3> DEFINE command == [commands[c] EXCEPT !.promise = "pending", !.alive = TRUE]
    <3>1. command \in CommandRecord
      BY <1>1 DEF CommandRecord
    <3>2. commands' = [commands EXCEPT ![c] = command]
      BY <2>4 DEF RunnerOK
    <3> HIDE DEF command
    <3> QED BY <2>2, <2>4, <3>1, <3>2
  <2>5. CASE /\ checks' = [checks EXCEPT ![c].at = "running", ![c].leader = c]
             /\ commands' = [commands EXCEPT ![c].promise = "error"]
    <3> DEFINE command == [commands[c] EXCEPT !.promise = "error"]
    <3>1. command \in CommandRecord /\ command.promise = "error"
      BY <1>1 DEF CommandRecord
    <3>2. commands' = [commands EXCEPT ![c] = command]
      BY <2>5 DEF RunnerOK
    <3> HIDE DEF command
    <3> QED BY <2>2, <2>5, <3>1, <3>2
  <2> QED BY <2>3, <2>4, <2>5 DEF Detected
<1> QED BY <1>2 DEF RunnerOK, Detected

LEMMA CliReadsRunner ==
  ASSUME RunnerInv, NEW c \in Check, CliReads(c)
  PROVE  RunnerInv'
<1> USE DEF RunnerInv
<1>1. PICK dirty \in BOOLEAN :
        commands' = [commands EXCEPT ![c].version = version[checks[c].file], ![c].dirty = dirty]
  BY DEF CliReads
<1>2. /\ commands[c] \in CommandRecord /\ checks[c] \in CheckRecord
      /\ checks[c].at \notin {"none", "detect"} /\ version[checks[c].file] \in Nat
  BY DEF CliReads, RunnerOK, Started
<1> DEFINE command == [commands[c] EXCEPT !.version = version[checks[c].file], !.dirty = dirty]
<1>3. command \in CommandRecord /\ command.promise = commands[c].promise
  BY <1>2 DEF CommandRecord
<1>4. commands' = [commands EXCEPT ![c] = command]
  BY <1>1 DEF RunnerOK
<1> HIDE DEF command
<1> QED BY <1>2, <1>3, <1>4, ProcessStep DEF CliReads, RunnerOK

LEMMA SettleType ==
  ASSUME RunnerInv, NEW c \in Check, NEW outcome \in {"ok", "error"}
  PROVE  Settle(c, outcome) \in {"none", "ok", "error"}
BY DEF Settle, RunnerInv, RunnerOK, CommandRecord

\* The process of c ends, whatever the outcome.
LEMMA ExitStep ==
  ASSUME RunnerInv, NEW c \in Check, NEW outcome \in {"ok", "error"},
         commands[c].alive, UNCHANGED checks,
         commands' = [commands EXCEPT ![c].alive = FALSE, ![c].promise = Settle(c, outcome)]
  PROVE  /\ checks' \in [Check -> CheckRecord] /\ commands' \in [Check -> CommandRecord]
         /\ Started' /\ OneProcess'
<1> USE DEF RunnerInv
<1>1. commands[c] \in CommandRecord /\ checks[c].at \notin {"none", "detect"}
  BY DEF RunnerOK, Started
<1> DEFINE command == [commands[c] EXCEPT !.alive = FALSE, !.promise = Settle(c, outcome)]
<1>2. command \in CommandRecord /\ command.promise # "pending"
  BY <1>1, SettleType DEF CommandRecord
<1>3. commands' = [commands EXCEPT ![c] = command]
  BY DEF RunnerOK
<1> HIDE DEF command
<1> QED BY <1>1, <1>2, <1>3, ProcessStep

LEMMA CliEndsRunner ==
  ASSUME RunnerInv, NEW c \in Check, CliEnds(c)
  PROVE  RunnerInv'
<1>1. /\ checks' \in [Check -> CheckRecord] /\ commands' \in [Check -> CommandRecord]
      /\ Started' /\ OneProcess'
  BY ExitStep DEF CliEnds
<1>2. report' \in [Stamp -> 0..MaxChecks]
  <2>1. c \in 0..MaxChecks
    BY CheckBoundAssumption DEF Check
  <2> QED BY <2>1 DEF CliEnds, RunnerInv, RunnerOK
<1> QED BY <1>1, <1>2 DEF CliEnds, RunnerInv, RunnerOK

LEMMA CliFailsRunner ==
  ASSUME RunnerInv, NEW c \in Check, CliFails(c)
  PROVE  RunnerInv'
<1>1. /\ checks' \in [Check -> CheckRecord] /\ commands' \in [Check -> CommandRecord]
      /\ Started' /\ OneProcess'
  BY ExitStep DEF CliFails
<1> QED BY <1>1 DEF CliFails, RunnerInv, RunnerOK

LEMMA CancelRunner ==
  ASSUME RunnerInv, NEW c \in Check, Cancel(c)
  PROVE  RunnerInv'
<1> USE DEF RunnerInv
<1>1. /\ commands[c] \in CommandRecord /\ checks[c] \in CheckRecord
      /\ checks[c].at \in {"detect", "running"}
      /\ checks[c].at = "detect" => commands[c].promise = "none" /\ ~commands[c].alive
  BY DEF RunnerOK, Started, Cancel, InFlight
<1> DEFINE check   == [checks[c] EXCEPT !.cancelled = TRUE]
           command == [commands[c] EXCEPT !.promise = Settle(c, "error")]
<1>2. check \in CheckRecord /\ check.file = checks[c].file /\ check.stamp = checks[c].stamp
      /\ check.at = checks[c].at
  BY <1>1 DEF CheckRecord
<1>3. command \in CommandRecord /\ command.promise # "pending"
  BY <1>1, SettleType DEF CommandRecord
<1>4. checks[c].at = "detect" => command.promise = "none" /\ ~command.alive
  BY <1>1 DEF Settle, CommandRecord
<1>5. checks' = [checks EXCEPT ![c] = check] /\ commands' = [commands EXCEPT ![c] = command]
  BY DEF Cancel, RunnerOK
<1> HIDE DEF check, command
<1>6. /\ checks' \in [Check -> CheckRecord] /\ commands' \in [Check -> CommandRecord]
      /\ Started' /\ OneProcess'
  BY <1>1, <1>2, <1>3, <1>4, <1>5, CommandStep
<1> QED BY <1>6 DEF Cancel, RunnerOK

LEMMA ReturnsRunner ==
  ASSUME RunnerInv, NEW c \in Check, Returns(c)
  PROVE  RunnerInv'
<1> USE DEF RunnerInv
<1>1. /\ commands[c] \in CommandRecord /\ checks[c] \in CheckRecord
      /\ checks[c].at = "running" /\ UNCHANGED <<commands, version, reloadDue, now>>
  BY DEF RunnerOK, Returns
<1> DEFINE check == [checks[c] EXCEPT !.at = "done"]
<1>2. check \in CheckRecord /\ check.file = checks[c].file /\ check.stamp = checks[c].stamp
      /\ check.at = "done"
  BY <1>1 DEF CheckRecord
<1>3. checks' = [checks EXCEPT ![c] = check] /\ commands' = [commands EXCEPT ![c] = commands[c]]
  BY <1>1 DEF Returns, RunnerOK
<1> HIDE DEF check
<1>4. /\ checks' \in [Check -> CheckRecord] /\ commands' \in [Check -> CommandRecord]
      /\ Started' /\ OneProcess'
  BY <1>1, <1>2, <1>3, CommandStep
<1>5. checks[c].stamp \in Stamp
  BY <1>1 DEF CheckRecord
<1>6. report' \in [Stamp -> 0..MaxChecks]
  <2>1. 0 \in 0..MaxChecks
    BY CheckBoundAssumption
  <2>2. report' = [report EXCEPT ![checks[c].stamp] = 0]
    BY DEF Returns
  <2> QED BY <2>1, <2>2 DEF RunnerOK
<1>7. report[checks[c].stamp] \in 0..MaxChecks
  BY <1>5 DEF RunnerOK
<1>8. result' \in [Check -> 0..MaxChecks]
  BY <1>7 DEF Returns, RunnerOK
<1> QED BY <1>1, <1>4, <1>6, <1>8 DEF RunnerOK

LEMMA HandlerFailsRunner ==
  ASSUME RunnerInv, NEW c \in Check, HandlerFails(c)
  PROVE  RunnerInv'
<1> USE DEF RunnerInv
<1>1. /\ commands[c] \in CommandRecord /\ checks[c] \in CheckRecord
      /\ checks[c].at = "done"
      /\ UNCHANGED <<commands, version, reloadDue, now, report, result>>
  BY DEF RunnerOK, HandlerFails
<1> DEFINE check == [checks[c] EXCEPT !.at = "failed"]
<1>2. check \in CheckRecord /\ check.file = checks[c].file /\ check.stamp = checks[c].stamp
      /\ check.at = "failed"
  BY <1>1 DEF CheckRecord
<1>3. checks' = [checks EXCEPT ![c] = check] /\ commands' = [commands EXCEPT ![c] = commands[c]]
  BY <1>1 DEF HandlerFails, RunnerOK
<1> HIDE DEF check
<1>4. /\ checks' \in [Check -> CheckRecord] /\ commands' \in [Check -> CommandRecord]
      /\ Started' /\ OneProcess'
  BY <1>1, <1>2, <1>3, CommandStep
<1> QED BY <1>1, <1>4 DEF RunnerOK

-----------------------------------------------------------------------------
(* The store's part.                                                          *)

StoreInv == TablesOK /\ FreshInScope /\ FreshMatchesProblems

LEMMA SameStore ==
  ASSUME StoreInv, UNCHANGED store, UNCHANGED projectsKnown
  PROVE  StoreInv'
BY DEF StoreInv, store, TablesOK, FreshInScope, FreshMatchesProblems

LEMMA ReturnsStore ==
  ASSUME RunnerInv, StoreInv, NEW c \in Check, Returns(c)
  PROVE  StoreInv'
<1>1. checks[c].file \in File /\ checks[c].stamp \in Stamp /\ c \in Nat
  BY CheckBoundAssumption DEF Returns, RunnerInv, RunnerOK, Started, CheckRecord, Check
<1>2. UNCHANGED projectsKnown
  BY DEF Returns
<1> DEFINE found == report[checks[c].stamp]
<1>3. CASE found # 0 /\ ApplyValidationResult(checks[c].file, c, commands[found].dirty)
  <2>1. found \in Check
    BY <1>1, <1>3, CheckBoundAssumption DEF RunnerInv, RunnerOK, Check
  <2>2. commands[found].dirty \in BOOLEAN
    BY <2>1 DEF RunnerInv, RunnerOK, CommandRecord
  <2> QED BY <1>1, <1>2, <1>3, <2>2, ApplyStep DEF StoreInv
<1>4. CASE RecordValidationFailure(checks[c].file)
  BY <1>1, <1>2, <1>4, FailureStep DEF StoreInv
<1> QED BY <1>3, <1>4 DEF Returns

LEMMA HandlerFailsStore ==
  ASSUME RunnerInv, StoreInv, NEW c \in Check, HandlerFails(c)
  PROVE  StoreInv'
<1>1. checks[c].file \in File
  BY DEF HandlerFails, RunnerInv, Started
<1> QED BY <1>1, FailureStep DEF HandlerFails, StoreInv

\* Before the projects are known only the workspace holds a fresh summary, so
\* their discovery changes the scope of no fresh summary.
LEMMA DiscoverStore ==
  ASSUME StoreInv, Discover
  PROVE  StoreInv'
BY DEF StoreInv, Discover, store, TablesOK, FreshInScope, FreshMatchesProblems

-----------------------------------------------------------------------------
(* Whose report a check finds.                                                *)

\* A report is that of a check that started with its stamp.
ReportHasStamp ==
  \A t \in Stamp : report[t] # 0 =>
    checks[report[t]].at # "none" /\ checks[report[t]].stamp = t

\* What started stays started, with its file and its stamp.
StaysStarted ==
  \A d \in Check : checks[d].at # "none" =>
    /\ checks'[d].at # "none"
    /\ checks'[d].file = checks[d].file /\ checks'[d].stamp = checks[d].stamp

LEMMA StartStays ==
  ASSUME RunnerInv, NEW f \in File, NEW c \in Check, Start(f, c)
  PROVE  StaysStarted
BY DEF Start, RunnerInv, RunnerOK, StaysStarted

\* Steps that write no report.
LEMMA StampMove ==
  ASSUME RunnerInv, ReportHasStamp, StaysStarted,
         \A t \in Stamp : report'[t] \in {0, report[t]}
  PROVE  ReportHasStamp'
<1>1. \A t \in Stamp : report[t] # 0 => report[t] \in Check
  BY CheckBoundAssumption DEF RunnerInv, RunnerOK, Check
<1> QED BY <1>1 DEF ReportHasStamp, StaysStarted

LEMMA StampCliEnds ==
  ASSUME RunnerInv, ReportHasStamp, NEW c \in Check, CliEnds(c)
  PROVE  ReportHasStamp'
<1>1. checks[c].at # "none" /\ checks[c].stamp \in Stamp
  BY DEF CliEnds, RunnerInv, RunnerOK, Started, CheckRecord
<1>2. /\ UNCHANGED checks
      /\ \A t \in Stamp : report'[t] = IF t = checks[c].stamp THEN c ELSE report[t]
  BY DEF CliEnds, RunnerInv, RunnerOK
<1> QED BY <1>1, <1>2 DEF ReportHasStamp

-----------------------------------------------------------------------------
(* The invariant.                                                             *)

IInv == RunnerInv /\ StoreInv /\ projectsKnown \in BOOLEAN /\ outdated \subseteq Check

LEMMA InitInv == ValidationInit => IInv /\ ReportHasStamp
<1> SUFFICES ASSUME ValidationInit PROVE IInv /\ ReportHasStamp
  OBVIOUS
<1>1. 0 \in 0..MaxChecks
  BY CheckBoundAssumption
<1>2. NoCheck \in CheckRecord /\ NoCommand \in CommandRecord
  BY <1>1 DEF NoCheck, CheckRecord, NoCommand, CommandRecord, Stamp
<1>3. NoCheck.at = "none" /\ NoCommand.promise = "none" /\ ~NoCommand.alive
  BY DEF NoCheck, NoCommand
<1>4. /\ version \in [File -> Nat] /\ reloadDue = {} /\ now = 0
      /\ checks = [c \in Check |-> NoCheck] /\ commands = [c \in Check |-> NoCommand]
      /\ report = [t \in Stamp |-> 0] /\ result = [c \in Check |-> 0] /\ outdated = {}
  BY DEF ValidationInit
<1> HIDE DEF NoCheck, NoCommand
<1>5. RunnerOK
  BY <1>1, <1>2, <1>4 DEF RunnerOK, Stamp
<1>6. Started /\ OneProcess /\ ReportHasStamp
  BY <1>3, <1>4 DEF Started, OneProcess, ReportHasStamp
<1>7. NoEntry \in Entry
  BY DEF NoEntry, Entry
<1>8. TablesOK /\ projectsKnown \in BOOLEAN
  BY <1>7 DEF ValidationInit, StoreInit, TablesOK
<1>9. FreshInScope /\ FreshMatchesProblems
  <2>1. \A s \in Scope : summary[s].freshness = "none"
    BY NamesDiffer DEF ValidationInit, StoreInit
  <2> QED BY <2>1 DEF FreshInScope, FreshMatchesProblems
<1> QED BY <1>4, <1>5, <1>6, <1>8, <1>9 DEF IInv, RunnerInv, StoreInv

LEMMA NextInv == IInv /\ [ValidationNext]_validationVars => IInv'
<1> SUFFICES ASSUME IInv, [ValidationNext]_validationVars PROVE IInv'
  OBVIOUS
<1>15. outdated' \subseteq Check
  BY DEF IInv, ValidationNext, validationVars, RunCheck, Save, Reload, CloseDocument,
         Detected, CliReads, CliEnds, CliFails, Cancel, Returns, HandlerFails, Tick, Discover
<1> USE <1>15 DEF IInv
<1>1. ASSUME NEW f \in File, RunCheck(f) PROVE IInv'
  BY <1>1, RunCheckRunner, SameStore DEF RunCheck
<1>2. ASSUME NEW f \in File, NEW auto \in BOOLEAN, Save(f, auto) PROVE IInv'
  BY <1>2, SaveRunner, SameStore DEF Save
<1>3. ASSUME NEW f \in File, Reload(f) PROVE IInv'
  <2>1. RunnerInv'
    BY <1>3, IdleRunner DEF Reload, RunnerInv, RunnerOK
  <2>2. CASE MarkStale(f)
    BY <1>3, <2>1, <2>2, StaleStep DEF Reload, StoreInv
  <2>3. CASE UNCHANGED store
    BY <1>3, <2>1, <2>3, SameStore DEF Reload
  <2> QED BY <1>3, <2>2, <2>3 DEF Reload
<1>4. ASSUME NEW f \in File, CloseDocument(f) PROVE IInv'
  <2>1. RunnerInv'
    BY <1>4, IdleRunner DEF CloseDocument, RunnerInv, RunnerOK
  <2> QED BY <1>4, <2>1, DeleteStep DEF CloseDocument, StoreInv
<1>5. ASSUME NEW c \in Check, Detected(c) PROVE IInv'
  BY <1>5, DetectedRunner, SameStore DEF Detected
<1>6. ASSUME NEW c \in Check, CliReads(c) PROVE IInv'
  BY <1>6, CliReadsRunner, SameStore DEF CliReads
<1>7. ASSUME NEW c \in Check, CliEnds(c) PROVE IInv'
  BY <1>7, CliEndsRunner, SameStore DEF CliEnds
<1>8. ASSUME NEW c \in Check, CliFails(c) PROVE IInv'
  BY <1>8, CliFailsRunner, SameStore DEF CliFails
<1>9. ASSUME NEW c \in Check, Cancel(c) PROVE IInv'
  BY <1>9, CancelRunner, SameStore DEF Cancel
<1>10. ASSUME NEW c \in Check, Returns(c) PROVE IInv'
  BY <1>10, ReturnsRunner, ReturnsStore DEF Returns
<1>14. ASSUME NEW c \in Check, HandlerFails(c) PROVE IInv'
  BY <1>14, HandlerFailsRunner, HandlerFailsStore DEF HandlerFails
<1>11. CASE Tick
  <2>1. now' \in Stamp
    BY <1>11, CheckBoundAssumption DEF Tick, Stamp, RunnerInv, RunnerOK
  <2>2. RunnerInv'
    BY <1>11, <2>1, IdleRunner DEF Tick, RunnerInv, RunnerOK
  <2> QED BY <1>11, <2>2, SameStore DEF Tick
<1>12. CASE Discover
  <2>1. RunnerInv'
    BY <1>12, IdleRunner DEF Discover, RunnerInv, RunnerOK
  <2>2. projectsKnown' \in BOOLEAN
    BY <1>12 DEF Discover
  <2> QED BY <1>12, <2>1, <2>2, DiscoverStore
<1>13. CASE UNCHANGED validationVars
  <2>1. RunnerInv'
    BY <1>13, IdleRunner DEF validationVars, RunnerInv, RunnerOK
  <2>2. StoreInv'
    BY <1>13, SameStore DEF validationVars
  <2> QED BY <1>13, <2>1, <2>2 DEF validationVars
<1> QED BY <1>1, <1>2, <1>3, <1>4, <1>5, <1>6, <1>7, <1>8, <1>9, <1>10, <1>11, <1>12, <1>13, <1>14
        DEF ValidationNext

\* The types hold for every set of files and projects, every timing and every
\* bound.
THEOREM TypeCorrect == ValidationSpec => []ValidationTypeOK
<1>1. IInv => ValidationTypeOK
  BY DEF IInv, RunnerInv, StoreInv, RunnerOK, TablesOK, ValidationTypeOK, StoreTypeOK
<1> QED BY InitInv, NextInv, <1>1, PTL DEF ValidationSpec

\* Fresh summaries and the Problems view agree in every scope, also when a file
\* is saved during its check and when checks share a report.
THEOREM FreshMatchesProblemsAlways == ValidationSpec => []FreshMatchesProblems
<1>1. IInv => FreshMatchesProblems
  BY DEF IInv, StoreInv
<1> QED BY InitInv, NextInv, <1>1, PTL DEF ValidationSpec

\* No two equal commands are pending, whatever the timing.
THEOREM OneProcessAlways == ValidationSpec => []OneProcess
<1>1. IInv => OneProcess
  BY DEF IInv, RunnerInv
<1> QED BY InitInv, NextInv, <1>1, PTL DEF ValidationSpec

LEMMA NextStamp == IInv /\ ReportHasStamp /\ [ValidationNext]_validationVars
                     => StaysStarted /\ ReportHasStamp'
<1> SUFFICES ASSUME IInv, ReportHasStamp, [ValidationNext]_validationVars
             PROVE  StaysStarted /\ ReportHasStamp'
  OBVIOUS
<1> USE DEF IInv
<1>1. ASSUME UNCHANGED <<checks, report>> PROVE StaysStarted /\ ReportHasStamp'
  BY <1>1, StampMove DEF StaysStarted
<1>2. ASSUME NEW f \in File, NEW c \in Check, Start(f, c), UNCHANGED report
      PROVE  StaysStarted /\ ReportHasStamp'
  BY <1>2, StartStays, StampMove
<1>3. ASSUME NEW f \in File, RunCheck(f) PROVE StaysStarted /\ ReportHasStamp'
  BY <1>2, <1>3 DEF RunCheck
<1>4. ASSUME NEW f \in File, NEW auto \in BOOLEAN, Save(f, auto)
      PROVE  StaysStarted /\ ReportHasStamp'
  BY <1>1, <1>2, <1>4 DEF Save
<1>5. ASSUME NEW c \in Check, Detected(c) PROVE StaysStarted /\ ReportHasStamp'
  <2>1. PICK d \in Check : checks' = [checks EXCEPT ![c].at = "running", ![c].leader = d]
    BY <1>5 DEF Detected, Existing
  <2>2. StaysStarted
    BY <2>1 DEF RunnerInv, RunnerOK, CheckRecord, StaysStarted
  <2> QED BY <1>5, <2>2, StampMove DEF Detected
<1>6. ASSUME NEW c \in Check, Cancel(c) PROVE StaysStarted /\ ReportHasStamp'
  <2>1. StaysStarted
    BY <1>6 DEF Cancel, RunnerInv, RunnerOK, CheckRecord, StaysStarted
  <2> QED BY <1>6, <2>1, StampMove DEF Cancel
<1>7. ASSUME NEW c \in Check, CliReads(c) \/ CliFails(c) PROVE StaysStarted /\ ReportHasStamp'
  BY <1>1, <1>7 DEF CliReads, CliFails
<1>8. ASSUME NEW c \in Check, CliEnds(c) PROVE StaysStarted /\ ReportHasStamp'
  BY <1>8, StampCliEnds DEF CliEnds, StaysStarted
<1>9. ASSUME NEW c \in Check, Returns(c) PROVE StaysStarted /\ ReportHasStamp'
  <2>1. StaysStarted
    BY <1>9 DEF Returns, RunnerInv, RunnerOK, CheckRecord, StaysStarted
  <2>2. \A t \in Stamp : report'[t] \in {0, report[t]}
    BY <1>9 DEF Returns, RunnerInv, RunnerOK
  <2> QED BY <2>1, <2>2, StampMove
<1>10. ASSUME NEW f \in File, Reload(f) \/ CloseDocument(f) PROVE StaysStarted /\ ReportHasStamp'
  BY <1>1, <1>10 DEF Reload, CloseDocument
<1>11. ASSUME NEW c \in Check, HandlerFails(c) PROVE StaysStarted /\ ReportHasStamp'
  <2>1. StaysStarted
    BY <1>11 DEF HandlerFails, RunnerInv, RunnerOK, CheckRecord, StaysStarted
  <2> QED BY <1>11, <2>1, StampMove DEF HandlerFails
<1>12. CASE Tick \/ Discover \/ UNCHANGED validationVars
  BY <1>1, <1>12 DEF Tick, Discover, validationVars
<1> QED BY <1>3, <1>4, <1>5, <1>6, <1>7, <1>8, <1>9, <1>10, <1>11, <1>12 DEF ValidationNext

-----------------------------------------------------------------------------
(* Fresh summaries are about the content on disk.                             *)

\* What commands with the arguments of a running check have read is what the
\* disk holds, unless the file was saved since the check began; nothing reads in
\* the millisecond it starts in, so that a check never joins or meets a report
\* of a command that read before it began.
CurrentRead ==
  \A c, d \in Check :
    InFlight(c) /\ c \notin outdated /\ checks[c].file = checks[d].file /\ checks[c].stamp = checks[d].stamp
    => commands[d].version \in {0, version[checks[c].file]}
ReadLater ==
  \A d \in Check : commands[d].version # 0 => checks[d].at # "none" /\ checks[d].stamp < now
HasRead ==
  /\ \A t \in Stamp : report[t] # 0 => commands[report[t]].version # 0
  /\ \A c \in Check : result[c] # 0 =>
       checks[c].at \in {"done", "failed"} /\ commands[result[c]].version # 0

\* No save and no other check can have spoilt the result of check c.
Undisturbed(c) == c \notin outdated /\ ~SharesReport(c)

\* A fresh summary is that of a check with a report; if nothing disturbed the
\* check, the version the report is about is the current one unless the viewer
\* has a reload to do.
FreshHasResult ==
  \A s \in Scope : summary[s].freshness = "fresh" =>
    /\ summary[s].check \in Check /\ result[summary[s].check] # 0
    /\ summary[s].file \in Watched \ reloadDue /\ Undisturbed(summary[s].check) =>
         commands[result[summary[s].check]].version = version[summary[s].file]

ReadInv == CurrentRead /\ ReadLater /\ HasRead

LEMMA Indices ==
  ASSUME RunnerInv
  PROVE  /\ \A t \in Stamp : report[t] # 0 => report[t] \in Check
         /\ \A d \in Check : result[d] # 0 => result[d] \in Check
         /\ \A d \in Check : commands[d].version \in Nat /\ checks[d].stamp \in Nat
         /\ now \in Nat
<1>1. /\ checks \in [Check -> CheckRecord] /\ commands \in [Check -> CommandRecord]
      /\ now \in Stamp /\ report \in [Stamp -> 0..MaxChecks] /\ result \in [Check -> 0..MaxChecks]
  BY DEF RunnerInv, RunnerOK
<1>2. /\ \A t \in Stamp : report[t] # 0 => report[t] \in Check
      /\ \A d \in Check : result[d] # 0 => result[d] \in Check
  BY <1>1, CheckBoundAssumption DEF Check
<1>3. \A d \in Check : commands[d].version \in Nat
  BY <1>1 DEF CommandRecord
<1>4. \A d \in Check : checks[d].stamp \in Stamp
  BY <1>1 DEF CheckRecord
<1> QED BY <1>1, <1>2, <1>3, <1>4, CheckBoundAssumption DEF Stamp

\* The running checks of a file whose content changes become outdated.
SaveIsNoted ==
  /\ outdated \subseteq outdated'
  /\ \A g \in File : \/ version'[g] = version[g]
                     \/ \A d \in Check : InFlight(d) /\ checks[d].file = g => d \in outdated'

LEMMA ReadStart ==
  ASSUME RunnerInv, ReadInv, NEW f \in File, NEW c \in Check, Start(f, c), SaveIsNoted,
         UNCHANGED <<now, commands, report, result>>
  PROVE  ReadInv'
<1> DEFINE new == [at |-> "detect", file |-> f, stamp |-> now, leader |-> 0,
                   cancelled |-> FALSE]
<1>1. new.at = "detect" /\ new.file = f /\ new.stamp = now
  OBVIOUS
<1>2. checks' = [checks EXCEPT ![c] = new] /\ checks[c].at = "none"
  BY DEF Start, ReportStamp
<1> HIDE DEF new
<1>3. \A d \in Check : checks'[d] = IF d = c THEN new ELSE checks[d]
  BY <1>2 DEF RunnerInv, RunnerOK
<1>5. ASSUME NEW d \in Check, NEW e \in Check, InFlight(d)', d \notin outdated',
             checks'[d].file = checks'[e].file, checks'[d].stamp = checks'[e].stamp
      PROVE  commands[e].version \in {0, version'[checks'[d].file]}
  <2>1. CASE e = c
    BY <1>2, <2>1 DEF ReadInv, ReadLater
  <2>2. CASE d = c /\ e # c
    <3>1. checks[e].stamp = now
      BY <1>1, <1>3, <1>5, <2>2
    <3> QED BY <3>1, Indices DEF ReadInv, ReadLater
  <2>3. CASE d # c /\ e # c
    <3>1. checks'[d] = checks[d] /\ checks'[e] = checks[e] /\ InFlight(d) /\ d \notin outdated
      BY <1>3, <1>5, <2>3 DEF InFlight, SaveIsNoted
    <3>2. checks[d].file \in File
      BY <3>1 DEF RunnerInv, Started, InFlight
    <3>3. version'[checks[d].file] = version[checks[d].file]
      BY <1>5, <3>1, <3>2 DEF SaveIsNoted
    <3> QED BY <1>5, <3>1, <3>3 DEF ReadInv, CurrentRead
  <2> QED BY <2>1, <2>2, <2>3
<1>6. CurrentRead' /\ ReadLater'
  BY <1>2, <1>3, <1>5 DEF CurrentRead, ReadInv, ReadLater
<1>7. HasRead'
  BY <1>2, <1>3 DEF ReadInv, HasRead
<1> QED BY <1>6, <1>7 DEF ReadInv

\* Any other step of the checks but a read: no check starts, a report is
\* written and taken over once its command has read.
LEMMA ReadMove ==
  ASSUME RunnerInv, ReadInv, SaveIsNoted, now' >= now, now' \in Nat,
         \A d \in Check : /\ checks'[d].file = checks[d].file
                          /\ checks'[d].stamp = checks[d].stamp
                          /\ checks[d].at # "none" => checks'[d].at # "none"
                          /\ InFlight(d)' => InFlight(d)
                          /\ checks[d].at \in {"done", "failed"} => checks'[d].at \in {"done", "failed"}
                          /\ commands'[d].version = commands[d].version,
         \A t \in Stamp : \/ report'[t] \in {0, report[t]}
                          \/ report'[t] \in Check /\ commands[report'[t]].version # 0,
         \A d \in Check : \/ result'[d] = result[d]
                          \/ /\ result'[d] \in Check /\ commands[result'[d]].version # 0
                             /\ checks'[d].at \in {"done", "failed"}
  PROVE  ReadInv'
<1>1. ASSUME NEW d \in Check, NEW e \in Check, InFlight(d)', d \notin outdated',
             checks'[d].file = checks'[e].file, checks'[d].stamp = checks'[e].stamp
      PROVE  commands'[e].version \in {0, version'[checks'[d].file]}
  <2>1. InFlight(d) /\ checks[d].file = checks[e].file /\ checks[d].stamp = checks[e].stamp
        /\ d \notin outdated
    BY <1>1 DEF SaveIsNoted
  <2>2. checks[d].file \in File
    BY <2>1 DEF RunnerInv, Started, InFlight
  <2>3. version'[checks[d].file] = version[checks[d].file]
    BY <1>1, <2>1, <2>2 DEF SaveIsNoted
  <2> QED BY <2>1, <2>3 DEF ReadInv, CurrentRead
<1>2. CurrentRead'
  BY <1>1 DEF CurrentRead
<1>3. ReadLater'
  BY Indices DEF ReadInv, ReadLater
<1>4. HasRead'
  BY Indices DEF ReadInv, HasRead
<1> QED BY <1>2, <1>3, <1>4 DEF ReadInv

LEMMA ReadCliReads ==
  ASSUME RunnerInv, ReadInv, NEW c \in Check, CliReads(c)
  PROVE  ReadInv'
<1>1. /\ UNCHANGED <<version, now, checks, report, result, outdated>>
      /\ commands[c].version = 0 /\ commands[c].alive /\ checks[c].stamp < now
  BY DEF CliReads
<1>2. PICK dirty \in BOOLEAN :
        commands' = [commands EXCEPT ![c].version = version[checks[c].file], ![c].dirty = dirty]
  BY DEF CliReads
<1>3. /\ commands'[c].version = version[checks[c].file]
      /\ \A d \in Check \ {c} : commands'[d] = commands[d]
  BY <1>2 DEF RunnerInv, RunnerOK, CommandRecord
<1>4. checks[c].at # "none"
  BY <1>1 DEF RunnerInv, Started
<1>5. CurrentRead'
  BY <1>1, <1>3 DEF ReadInv, CurrentRead, InFlight
<1>6. ReadLater'
  BY <1>1, <1>3, <1>4 DEF ReadInv, ReadLater
<1>7. HasRead'
  BY <1>1, <1>3, Indices DEF ReadInv, HasRead
<1> QED BY <1>5, <1>6, <1>7 DEF ReadInv

\* No step but a good return makes a summary fresh.
OldFresh == \A s \in Scope : summary'[s].freshness = "fresh" => summary'[s] = summary[s]

LEMMA OldFreshFailure ==
  ASSUME TablesOK, NEW f \in File, RecordValidationFailure(f)
  PROVE  OldFresh
<1> DEFINE new == IF Previous(f) = NoSummary
                  THEN [file |-> f, check |-> 0, freshness |-> "failed"]
                  ELSE [Previous(f) EXCEPT !.freshness = "failed"]
<1>1. new.freshness # "fresh"
  BY PreviousType DEF Summary
<1>2. summary' = Store(f, summary, new)
  BY DEF RecordValidationFailure
<1> HIDE DEF new
<1> QED BY <1>1, <1>2 DEF OldFresh, Store

\* After a reload no summary of the file is fresh.
LEMMA OldFreshReload ==
  ASSUME StoreInv, NEW f \in File, Reload(f)
  PROVE  OldFresh /\ \A s \in Scope : summary'[s].freshness = "fresh" => summary[s].file # f
<1> USE DEF StoreInv
<1>1. CASE MarkStale(f)
  <2> DEFINE new == [Previous(f) EXCEPT !.freshness = "stale"]
  <2>1. new.freshness # "fresh"
    BY <1>1, PreviousType DEF Summary, MarkStale
  <2>2. summary' = Store(f, summary, new)
    BY <1>1 DEF MarkStale
  <2> HIDE DEF new
  <2>3. \A s \in Scope : summary'[s] = IF s \in {Workspace, ScopeOf(f)} THEN new ELSE summary[s]
    BY <2>2 DEF Store
  <2> QED BY <2>1, <2>3, ScopesOfFresh DEF OldFresh
<1>2. CASE Previous(f) = NoSummary /\ UNCHANGED store
  <2>1. summary[Workspace] = NoSummary /\ summary[ScopeOf(f)] = NoSummary
    BY <1>2 DEF Previous
  <2> QED BY <1>2, <2>1, ScopesOfFresh, NamesDiffer DEF OldFresh, store
<1> QED BY <1>1, <1>2 DEF Reload

LEMMA FreshMove ==
  ASSUME RunnerInv, ReadInv, StoreInv, FreshHasResult, OldFresh, StaysStarted,
         outdated \subseteq outdated',
         \A d \in Check : /\ result[d] # 0 => result'[d] = result[d]
                          /\ commands[d].version # 0 => commands'[d].version = commands[d].version,
         \A s \in Scope : summary'[s].freshness = "fresh" /\ summary[s].file \in Watched \ reloadDue'
           => /\ summary[s].file \in Watched \ reloadDue
              /\ version'[summary[s].file] = version[summary[s].file]
  PROVE  FreshHasResult'
<1>1. ASSUME NEW s \in Scope, summary'[s].freshness = "fresh", NEW e, e = summary'[s].check
      PROVE  /\ e \in Check /\ result'[e] # 0
             /\ summary'[s].file \in Watched \ reloadDue' /\ Undisturbed(e)' =>
                  commands'[result'[e]].version = version'[summary'[s].file]
  <2>1. summary'[s] = summary[s]
    BY <1>1 DEF OldFresh
  <2> DEFINE d == summary[s].check
             f == summary[s].file
  <2>2. d \in Check /\ result[d] # 0 /\ result[d] \in Check
    BY <1>1, <2>1, Indices DEF FreshHasResult
  <2>5. checks[d].at # "none"
    BY <2>2 DEF ReadInv, HasRead
  <2>3. commands'[result'[d]].version = commands[result[d]].version /\ result'[d] = result[d]
    BY <2>2 DEF ReadInv, HasRead
  <2>6. e = d /\ (Undisturbed(e)' => Undisturbed(d))
    BY <1>1, <2>1, <2>2, <2>5 DEF Undisturbed, SharesReport, StaysStarted
  <2>4. f \in Watched \ reloadDue' /\ Undisturbed(d)
          => commands[result[d]].version = version'[f]
    BY <1>1, <2>1 DEF FreshHasResult
  <2> QED BY <2>1, <2>2, <2>3, <2>4, <2>6
<1> QED BY <1>1 DEF FreshHasResult, Undisturbed, SharesReport

\* The report a check finds is of a command with its arguments, which read what
\* the disk still holds.
LEMMA ReturnsCurrent ==
  ASSUME RunnerInv, ReportHasStamp, ReadInv, StoreInv, FreshHasResult, StaysStarted, NEW c \in Check, Returns(c)
  PROVE  ReadInv' /\ FreshHasResult'
<1> DEFINE found == report[checks[c].stamp]
           f     == checks[c].file
<1>1. /\ checks[c] \in CheckRecord /\ checks[c].at = "running" /\ f \in File
      /\ checks[c].stamp \in Stamp /\ InFlight(c)
  BY DEF Returns, RunnerInv, RunnerOK, Started, CheckRecord, InFlight
<1>2. /\ checks' = [checks EXCEPT ![c].at = "done"]
      /\ report' = [report EXCEPT ![checks[c].stamp] = 0]
      /\ UNCHANGED <<projectsKnown, version, reloadDue, now, commands, outdated>>
  BY DEF Returns
<1>3. \A d \in Check : /\ checks'[d].file = checks[d].file
                       /\ checks'[d].stamp = checks[d].stamp
                       /\ checks'[d].at = IF d = c THEN "done" ELSE checks[d].at
  BY <1>2 DEF RunnerInv, RunnerOK, CheckRecord
<1>4. found # 0 => /\ found \in Check /\ commands[found].version # 0
                   /\ Undisturbed(c) => commands[found].version = version[f]
  <2> SUFFICES ASSUME found # 0
               PROVE  /\ found \in Check /\ commands[found].version # 0
                      /\ Undisturbed(c) => commands[found].version = version[f]
    OBVIOUS
  <2>1. /\ found \in Check /\ commands[found].version # 0 /\ checks[found].at # "none"
        /\ checks[found].stamp = checks[c].stamp
    BY <1>1, Indices DEF ReadInv, HasRead, ReportHasStamp
  <2>2. Undisturbed(c) => checks[found].file = f /\ c \notin outdated
    BY <2>1 DEF Undisturbed, SharesReport
  <2> QED BY <1>1, <2>1, <2>2 DEF ReadInv, CurrentRead
<1>5. \/ /\ found # 0 /\ result' = [result EXCEPT ![c] = found]
         /\ ApplyValidationResult(f, c, commands[found].dirty)
      \/ RecordValidationFailure(f) /\ UNCHANGED result
  BY DEF Returns
<1>6. result[c] = 0
  BY <1>1 DEF ReadInv, HasRead
<1>8. \A d \in Check : \/ result'[d] = result[d]
                       \/ d = c /\ found # 0 /\ result'[d] = found
  BY <1>5 DEF RunnerInv, RunnerOK
<1>9. \A t \in Stamp : report'[t] \in {0, report[t]}
  BY <1>2 DEF RunnerInv, RunnerOK
<1>10. now' >= now /\ now' \in Nat
  BY <1>2, Indices
<1> HIDE DEF found, f
<1>11. ReadInv'
  <2>1. SaveIsNoted
    BY <1>2 DEF SaveIsNoted
  <2>2. \A d \in Check : \/ result'[d] = result[d]
                         \/ /\ result'[d] \in Check /\ commands[result'[d]].version # 0
                            /\ checks'[d].at \in {"done", "failed"}
    BY <1>3, <1>4, <1>8
  <2>3. \A d \in Check : /\ checks'[d].file = checks[d].file
                         /\ checks'[d].stamp = checks[d].stamp
                         /\ checks[d].at # "none" => checks'[d].at # "none"
                         /\ InFlight(d)' => InFlight(d)
                         /\ checks[d].at \in {"done", "failed"} => checks'[d].at \in {"done", "failed"}
                         /\ commands'[d].version = commands[d].version
    BY <1>2, <1>3 DEF InFlight
  <2> QED BY <1>9, <1>10, <2>1, <2>2, <2>3, ReadMove
<1>12. CASE RecordValidationFailure(f) /\ UNCHANGED result
  <2>1. OldFresh
    BY <1>1, <1>12, OldFreshFailure DEF StoreInv, f
  <2> QED BY <1>2, <1>11, <1>12, <2>1, FreshMove
<1>13. CASE found # 0 /\ result' = [result EXCEPT ![c] = found]
            /\ ApplyValidationResult(f, c, commands[found].dirty)
  <2> DEFINE new == [file |-> f, check |-> c, freshness |-> "fresh"]
  <2>1. new.file = f /\ new.check = c
    OBVIOUS
  <2>2. summary' = Store(f, summary, new)
    BY <1>13 DEF ApplyValidationResult
  <2> HIDE DEF new
  <2>3. \A s \in Scope : summary'[s] = new \/ summary'[s] = summary[s]
    BY <2>2 DEF Store
  <2>4. result'[c] = found /\ \A d \in Check \ {c} : result'[d] = result[d]
    BY <1>13 DEF RunnerInv, RunnerOK
  <2>6. \A d \in Check : checks[d].at # "none" /\ Undisturbed(d)' => Undisturbed(d)
    BY <1>2 DEF Undisturbed, SharesReport, StaysStarted
  <2>5. ASSUME NEW s \in Scope, summary'[s].freshness = "fresh", NEW e, e = summary'[s].check
        PROVE  /\ e \in Check /\ result'[e] # 0
               /\ summary'[s].file \in Watched \ reloadDue' /\ Undisturbed(e)' =>
                    commands'[result'[e]].version = version'[summary'[s].file]
    <3>1. CASE summary'[s] = new
      BY <1>1, <1>2, <1>4, <1>13, <2>1, <2>4, <2>5, <2>6, <3>1
    <3>2. CASE summary'[s] = summary[s]
      <4>1. summary[s].check \in Check /\ result[summary[s].check] # 0
        BY <2>5, <3>2 DEF FreshHasResult
      <4>2. summary[s].check # c
        BY <1>6, <4>1
      <4>3. checks[summary[s].check].at # "none"
        BY <4>1 DEF ReadInv, HasRead
      <4> QED BY <1>2, <2>4, <2>5, <2>6, <3>2, <4>1, <4>2, <4>3 DEF FreshHasResult
    <3> QED BY <2>3, <3>1, <3>2
  <2> QED BY <1>11, <2>5 DEF FreshHasResult, Undisturbed, SharesReport
<1> QED BY <1>5, <1>11, <1>12, <1>13

LEMMA NextCurrent ==
  IInv /\ ReportHasStamp /\ ReadInv /\ FreshHasResult /\ [ValidationNext]_validationVars
    => ReadInv' /\ FreshHasResult'
<1> SUFFICES ASSUME IInv, ReportHasStamp, ReadInv, FreshHasResult,
                    [ValidationNext]_validationVars
             PROVE  ReadInv' /\ FreshHasResult'
  OBVIOUS
<1> USE DEF IInv
<1>0. StaysStarted
  BY NextStamp
<1>1. now \in Nat /\ now >= now
  BY Indices
<1>2. UNCHANGED <<version, outdated>> => SaveIsNoted
  BY DEF SaveIsNoted
<1>3. UNCHANGED summary => OldFresh
  BY DEF OldFresh
\* A step that leaves the results, the files and what commands read alone.
<1>4. ASSUME UNCHANGED <<version, reloadDue, result, outdated>>, now' >= now, now' \in Nat, OldFresh,
             \A d \in Check : /\ checks'[d].file = checks[d].file
                              /\ checks'[d].stamp = checks[d].stamp
                              /\ checks[d].at # "none" => checks'[d].at # "none"
                              /\ InFlight(d)' => InFlight(d)
                              /\ checks[d].at \in {"done", "failed"}
                                   => checks'[d].at \in {"done", "failed"}
                              /\ commands'[d].version = commands[d].version,
             \A t \in Stamp : \/ report'[t] \in {0, report[t]}
                              \/ report'[t] \in Check /\ commands[report'[t]].version # 0
      PROVE  ReadInv' /\ FreshHasResult'
  <2>1. ReadInv'
    BY <1>2, <1>4, ReadMove
  <2> QED BY <1>0, <1>4, <2>1, FreshMove
<1>5. ASSUME NEW f \in File, RunCheck(f) PROVE ReadInv' /\ FreshHasResult'
  <2>1. PICK c \in Check : Start(f, c)
    BY <1>5 DEF RunCheck
  <2>2. ReadInv'
    BY <1>2, <1>5, <2>1, ReadStart DEF RunCheck
  <2>3. UNCHANGED <<summary, version, reloadDue, result, commands, outdated>>
    BY <1>5 DEF RunCheck, store
  <2> QED BY <1>0, <1>3, <2>2, <2>3, FreshMove
<1>6. ASSUME NEW f \in File, NEW auto \in BOOLEAN, Save(f, auto)
      PROVE  ReadInv' /\ FreshHasResult'
  <2>1. /\ version' = [version EXCEPT ![f] = @ + 1]
        /\ outdated' = outdated \cup {c \in Check : InFlight(c) /\ checks[c].file = f}
    BY <1>6 DEF Save
  <2>2. SaveIsNoted
    BY <2>1 DEF SaveIsNoted, RunnerInv, RunnerOK
  <2>3. ReadInv'
    <3>1. CASE auto
      <4>1. PICK c \in Check : Start(f, c)
        BY <1>6, <3>1 DEF Save
      <4> QED BY <1>6, <2>2, <4>1, ReadStart DEF Save
    <3>2. CASE ~auto
      <4>1. UNCHANGED <<now, checks, commands, report, result>>
        BY <1>6, <3>2 DEF Save
      <4> QED BY <1>1, <2>2, <4>1, ReadMove DEF InFlight
    <3> QED BY <3>1, <3>2
  <2>4. UNCHANGED <<summary, result, commands>> /\ reloadDue' = reloadDue \cup ({f} \cap Watched)
    BY <1>6 DEF Save, store
  <2>5. \A g \in Watched \ reloadDue' : g \in Watched \ reloadDue /\ version'[g] = version[g]
    BY <2>1, <2>4, WatchedAssumption DEF RunnerInv, RunnerOK
  <2> QED BY <1>0, <1>3, <2>1, <2>3, <2>4, <2>5, FreshMove
<1>7. ASSUME NEW f \in File, Reload(f) PROVE ReadInv' /\ FreshHasResult'
  <2>1. /\ UNCHANGED <<version, now, checks, commands, report, result, outdated>>
        /\ reloadDue' = reloadDue \ {f}
    BY <1>7 DEF Reload
  <2>2. ReadInv'
    BY <1>1, <1>2, <2>1, ReadMove DEF InFlight
  <2>3. OldFresh /\ \A s \in Scope : summary'[s].freshness = "fresh" => summary[s].file # f
    BY <1>7, OldFreshReload
  <2> QED BY <1>0, <2>1, <2>2, <2>3, FreshMove
<1>8. ASSUME NEW f \in File, CloseDocument(f) PROVE ReadInv' /\ FreshHasResult'
  BY <1>1, <1>3, <1>4, <1>8 DEF CloseDocument, DeleteProblems, InFlight
<1>9. ASSUME NEW c \in Check, Detected(c) PROVE ReadInv' /\ FreshHasResult'
  <2>1. PICK d \in Check : checks' = [checks EXCEPT ![c].at = "running", ![c].leader = d]
    BY <1>9 DEF Detected, Existing
  <2>2. checks[c] \in CheckRecord /\ checks[c].at = "detect"
    BY <1>9 DEF Detected, RunnerInv, RunnerOK
  <2>3. /\ checks'[c] = [checks[c] EXCEPT !.at = "running", !.leader = d]
        /\ \A e \in Check \ {c} : checks'[e] = checks[e]
    BY <2>1 DEF RunnerInv, RunnerOK
  <2>4. /\ checks'[c].file = checks[c].file /\ checks'[c].stamp = checks[c].stamp
        /\ checks'[c].at = "running"
    BY <2>2, <2>3 DEF CheckRecord
  <2>5. \A e \in Check : commands'[e].version = commands[e].version
    <3>1. commands \in [Check -> CommandRecord]
      BY DEF RunnerInv, RunnerOK
    <3>2. \/ UNCHANGED commands
          \/ commands' = [commands EXCEPT ![c].promise = "pending", ![c].alive = TRUE]
          \/ commands' = [commands EXCEPT ![c].promise = "error"]
      BY <1>9 DEF Detected
    <3> QED BY <3>1, <3>2 DEF CommandRecord
  <2>6. UNCHANGED <<summary, version, reloadDue, result, report, now, outdated>>
    BY <1>9 DEF Detected, store
  <2> QED BY <1>1, <1>3, <1>4, <2>2, <2>3, <2>4, <2>5, <2>6 DEF InFlight
<1>10. ASSUME NEW c \in Check, CliReads(c) PROVE ReadInv' /\ FreshHasResult'
  <2>1. UNCHANGED <<summary, version, reloadDue, result, outdated>>
    BY <1>10 DEF CliReads, store
  <2>2. \A d \in Check : commands[d].version # 0 => commands'[d].version = commands[d].version
    BY <1>10 DEF CliReads, RunnerInv, RunnerOK
  <2> QED BY <1>0, <1>3, <1>10, <2>1, <2>2, ReadCliReads, FreshMove
<1>11. ASSUME NEW c \in Check, CliEnds(c) PROVE ReadInv' /\ FreshHasResult'
  <2>1. UNCHANGED <<summary, version, reloadDue, result, outdated, checks, now>> /\ commands[c].version # 0
    BY <1>11 DEF CliEnds, store
  <2>2. \A d \in Check : commands'[d].version = commands[d].version
    BY <1>11 DEF CliEnds, RunnerInv, RunnerOK, CommandRecord
  <2>3. \A t \in Stamp : report'[t] \in {report[t], c}
    BY <1>11 DEF CliEnds, RunnerInv, RunnerOK
  <2> QED BY <1>1, <1>3, <1>4, <2>1, <2>2, <2>3 DEF InFlight
<1>12. ASSUME NEW c \in Check, CliFails(c) PROVE ReadInv' /\ FreshHasResult'
  <2>1. UNCHANGED <<summary, version, reloadDue, result, outdated, checks, now, report>>
    BY <1>12 DEF CliFails, store
  <2>2. \A d \in Check : commands'[d].version = commands[d].version
    BY <1>12 DEF CliFails, RunnerInv, RunnerOK, CommandRecord
  <2> QED BY <1>1, <1>3, <1>4, <2>1, <2>2 DEF InFlight
<1>13. ASSUME NEW c \in Check, Cancel(c) PROVE ReadInv' /\ FreshHasResult'
  <2>1. UNCHANGED <<summary, version, reloadDue, result, outdated, now, report>>
    BY <1>13 DEF Cancel, store
  <2>2. \A d \in Check : /\ checks'[d].file = checks[d].file /\ checks'[d].at = checks[d].at
                         /\ checks'[d].stamp = checks[d].stamp
                         /\ commands'[d].version = commands[d].version
    BY <1>13 DEF Cancel, RunnerInv, RunnerOK, CheckRecord, CommandRecord
  <2> QED BY <1>1, <1>3, <1>4, <2>1, <2>2 DEF InFlight
<1>14. ASSUME NEW c \in Check, Returns(c) PROVE ReadInv' /\ FreshHasResult'
  BY <1>0, <1>14, ReturnsCurrent
<1>15. ASSUME NEW c \in Check, HandlerFails(c) PROVE ReadInv' /\ FreshHasResult'
  <2>1. checks[c].file \in File /\ checks[c].at = "done"
    BY <1>15 DEF HandlerFails, RunnerInv, Started
  <2>2. OldFresh
    BY <1>15, <2>1, OldFreshFailure DEF HandlerFails, StoreInv
  <2>3. \A d \in Check : /\ checks'[d].file = checks[d].file
                         /\ checks'[d].at = IF d = c THEN "failed" ELSE checks[d].at
                         /\ checks'[d].stamp = checks[d].stamp
    BY <1>15 DEF HandlerFails, RunnerInv, RunnerOK, CheckRecord
  <2>4. UNCHANGED <<version, reloadDue, result, outdated, now, report, commands>>
    BY <1>15 DEF HandlerFails
  <2> QED BY <1>1, <1>4, <2>1, <2>2, <2>3, <2>4 DEF InFlight
<1>16. CASE Tick
  <2>1. now' >= now /\ now' \in Nat
    BY <1>1, <1>16 DEF Tick
  <2> QED BY <1>3, <1>4, <1>16, <2>1 DEF Tick, InFlight, store
<1>17. CASE Discover \/ UNCHANGED validationVars
  BY <1>1, <1>3, <1>4, <1>17 DEF Discover, validationVars, InFlight, store
<1> QED BY <1>5, <1>6, <1>7, <1>8, <1>9, <1>10, <1>11, <1>12, <1>13, <1>14, <1>15, <1>16, <1>17
        DEF ValidationNext

\* A summary shown as fresh is about the content on disk, unless the file was
\* saved during the check or a check of another file shared its report: joining
\* a running command, a late report of a cancelled one, a reload and the discovery
\* of projects never present an older version as fresh.
THEOREM FreshIsCurrentAlways == ValidationSpec => []FreshIsCurrent
<1>2. ValidationInit => ReadInv /\ FreshHasResult
  <2> SUFFICES ASSUME ValidationInit PROVE ReadInv /\ FreshHasResult
    OBVIOUS
  <2>1. /\ checks = [c \in Check |-> NoCheck] /\ commands = [c \in Check |-> NoCommand]
        /\ report = [t \in Stamp |-> 0] /\ result = [c \in Check |-> 0]
        /\ summary = [s \in Scope |-> NoSummary]
    BY DEF ValidationInit, StoreInit
  <2>2. NoCheck.at = "none" /\ NoCommand.version = 0 /\ NoSummary.freshness = "none"
    BY NamesDiffer DEF NoCheck, NoCommand
  <2> QED BY <2>1, <2>2 DEF ReadInv, CurrentRead, ReadLater, HasRead, FreshHasResult, InFlight
<1>3. FreshHasResult => FreshIsCurrent
  BY DEF FreshHasResult, FreshIsCurrent, Undisturbed
<1>4. IInv /\ ReportHasStamp /\ [ValidationNext]_validationVars => ReportHasStamp'
  BY NextStamp
<1>5. IInv /\ ReportHasStamp /\ ReadInv /\ FreshHasResult /\ [ValidationNext]_validationVars
        => ReadInv' /\ FreshHasResult'
  BY NextCurrent
<1> QED BY InitInv, NextInv, <1>2, <1>3, <1>4, <1>5, PTL DEF ValidationSpec
=============================================================================
