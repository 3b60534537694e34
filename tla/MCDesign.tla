------------------------------ MODULE MCDesign ------------------------------
(* Instances for TLC of three components that share no state and say          *)
(* something about the design: the studio context pushed to the MCP server,   *)
(* the validation of files and the Quality Gates.  One of them moves in a     *)
(* behaviour while the others stay as they are.                               *)
EXTENDS StudioContext, Validation, QualityGates

CONSTANTS
  Component,                    \* the components that may move
  e1, e2, r1, r2,               \* contents of the parts of a context
  root, other, p1, p2           \* two files, each of its own project

VARIABLE component

TwoProjects == [f \in File |-> IF f = root THEN p1 ELSE p2]

\* Bound: only the files with a viewer are saved and closed.
OnlyWatched ==
  \A f \in File \ Watched :
    version'[f] = version[f] /\ (problems'[f] = NoEntry => problems[f] = NoEntry)

\* Bound: the gates run on their own.  The others answer for themselves, as
\* "schematic" does.
AloneHere == {"schematic", "connectivity"}

\* The refresh after a DRC is scheduled only while there is a run for it to
\* start, which it waits for otherwise.
GatesBound ==
  /\ \A r \in GateRun : asked'[r] \in AloneHere \cup {"none", "all", "drc"}
  /\ armed' => \E r \in GateRun : asked'[r] = "none"

\* The contents of a context are interchangeable: one initial context stands for
\* the others.
MCInit ==
  /\ component \in Component
  /\ ContextInit /\ ValidationInit /\ GatesInit
  /\ history = <<[editor |-> e1, results |-> r1]>>

MCNext ==
  \/ /\ component = "context" /\ ContextNext
     /\ UNCHANGED <<component, validationVars, gatesVars>>
  \/ /\ component = "checks" /\ ValidationNext /\ OnlyWatched
     /\ UNCHANGED <<component, contextVars, gatesVars>>
  \/ /\ component = "gates" /\ GatesNext /\ GatesBound
     /\ UNCHANGED <<component, contextVars, validationVars>>

MCSpec == MCInit /\ [][MCNext]_<<component, contextVars, validationVars, gatesVars>>
=============================================================================
