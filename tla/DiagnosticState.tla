--------------------------- MODULE DiagnosticState ---------------------------
(* The results of one kind of check (ERC or DRC; the two share no state):     *)
(* DiagnosticStateStore with the Problems entries it publishes.               *)
(*                                                                            *)
(* The store keeps everything twice, for the whole workspace and for each     *)
(* project; Workspace stands for the former.  A result is named by the        *)
(* number of the check that produced it; counts and messages are left out.    *)
EXTENDS Naturals

CONSTANTS
  File,       \* files that can be checked
  NoFile,
  Project,
  Workspace,  \* the scope of files that belong to no project
  ProjectOf   \* [File -> the project of a file, or Workspace]

Scope == Project \cup {Workspace}

ASSUME NameAssumption == NoFile \notin File /\ Workspace \notin Project
ASSUME ProjectAssumption == ProjectOf \in [File -> Scope]

VARIABLES
  projectsKnown,  \* the projects of the workspace were discovered
  summary,        \* [Scope -> the summary shown]
  latestRun,      \* [Scope -> the last successful run]
  problems        \* [File -> its entry in the Problems view]

store == <<summary, latestRun, problems>>

NoSummary == [file |-> NoFile, check |-> 0, freshness |-> "none"]
NoRun     == [file |-> NoFile, check |-> 0, dirty |-> FALSE]
NoEntry   == [check |-> 0, stale |-> FALSE]

Summary == [file : File, check : Nat, freshness : {"fresh", "stale", "failed"}]
Run     == [file : File, check : Nat, dirty : BOOLEAN]
Entry   == [check : Nat, stale : BOOLEAN]

StoreInit ==
  /\ projectsKnown = FALSE
  /\ summary = [s \in Scope |-> NoSummary]
  /\ latestRun = [s \in Scope |-> NoRun]
  /\ problems = [f \in File |-> NoEntry]

\* findProjectForResource.
ScopeOf(f) == IF projectsKnown THEN ProjectOf[f] ELSE Workspace

\* What the project of f holds, or else what the workspace holds.
Previous(f) == IF summary[ScopeOf(f)] # NoSummary
               THEN summary[ScopeOf(f)] ELSE summary[Workspace]
Latest(f)   == IF latestRun[ScopeOf(f)] # NoRun
               THEN latestRun[ScopeOf(f)] ELSE latestRun[Workspace]

\* A new value for the workspace and for the project of f.
Store(f, table, value) ==
  [s \in Scope |-> IF s \in {Workspace, ScopeOf(f)} THEN value ELSE table[s]]

\* Mutant: a clean result leaves the findings of the previous run.
ApplyOnlyFindings(f, c, dirty) ==
  /\ problems' = IF dirty THEN [problems EXCEPT ![f] = [check |-> c, stale |-> FALSE]]
                 ELSE problems
  /\ summary' = Store(f, summary, [file |-> f, check |-> c, freshness |-> "fresh"])
  /\ latestRun' = Store(f, latestRun, [file |-> f, check |-> c, dirty |-> dirty])

ApplyValidationResult(f, c, dirty) ==
  /\ problems' = [problems EXCEPT ![f] = [check |-> c, stale |-> FALSE]]
  /\ summary' = Store(f, summary, [file |-> f, check |-> c, freshness |-> "fresh"])
  /\ latestRun' = Store(f, latestRun, [file |-> f, check |-> c, dirty |-> dirty])

RecordValidationFailure(f) ==
  /\ summary' = Store(f, summary,
       IF Previous(f) = NoSummary
       THEN [file |-> f, check |-> 0, freshness |-> "failed"]
       ELSE [Previous(f) EXCEPT !.freshness = "failed"])
  /\ UNCHANGED <<latestRun, problems>>

\* Mutant: the summary of the project is forgotten.
MarkStaleWorkspace(f) ==
  /\ Previous(f) # NoSummary
  /\ summary' = [summary EXCEPT ![Workspace] = [Previous(f) EXCEPT !.freshness = "stale"]]
  /\ problems' = IF Latest(f).dirty
                 THEN [problems EXCEPT ![f] = [check |-> Latest(f).check, stale |-> TRUE]]
                 ELSE problems
  /\ UNCHANGED latestRun

\* Mutant: a scope without a summary is marked too.
MarkStaleAlways(f) ==
  /\ summary' = Store(f, summary, [Previous(f) EXCEPT !.freshness = "stale"])
  /\ UNCHANGED <<latestRun, problems>>

\* markStaleForResource of a file that was checked, or whose scope was: the
\* findings of the latest run of the scope become the file's stale entries.
MarkStale(f) ==
  /\ Previous(f) # NoSummary
  /\ summary' = Store(f, summary, [Previous(f) EXCEPT !.freshness = "stale"])
  /\ problems' = IF Latest(f).dirty
                 THEN [problems EXCEPT ![f] = [check |-> Latest(f).check, stale |-> TRUE]]
                 ELSE problems
  /\ UNCHANGED latestRun

\* onDidCloseTextDocument: the file's entries are deleted.
DeleteProblems(f) ==
  /\ problems' = [problems EXCEPT ![f] = NoEntry]
  /\ UNCHANGED <<summary, latestRun>>

StoreTypeOK ==
  /\ projectsKnown \in BOOLEAN
  /\ summary \in [Scope -> Summary \cup {NoSummary}]
  /\ latestRun \in [Scope -> Run \cup {NoRun}]
  /\ problems \in [File -> Entry]
=============================================================================
