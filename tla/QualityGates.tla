---------------------------- MODULE QualityGates ----------------------------
(* The Quality Gates view (QualityGateProvider): runs of all gates, of one    *)
(* gate and the delayed refresh after a DRC, each with its own calls of the   *)
(* MCP server, which end in any order while the design changes.               *)
EXTENDS Naturals

CONSTANTS
  GateRun,     \* runs that may be under way
  Rows,        \* the gates the server's project report has a row for
  FirstRow,    \* the first of them
  MaxDesign    \* edits of the design

ProjectGates == {"schematic", "connectivity"}
Gate == ProjectGates \cup {"placement", "transfer", "manufacturing"}
GateCall == (Gate \ ProjectGates) \cup {"project"}

ASSUME GatesAssumption ==
  /\ Rows \subseteq ProjectGates /\ FirstRow \in Rows
  /\ MaxDesign \in Nat

VARIABLES
  design,    \* the version of the design
  gates,     \* the version each gate's result is about, 0 for PENDING
  cached,    \* the gates in the workspace state
  asked,     \* what each run asked for: "none", "all", "drc" or a gate
  answers,   \* the version each call of a run was answered for, 0 before
  armed,     \* drcTimer
  ended,     \* history: what the run that ended last says of each gate
  misplaced  \* history: gates since whose last result a run of one gate was
             \*   given the row of another

gatesVars == <<design, gates, cached, asked, answers, armed, ended, misplaced>>

NoAnswers == [c \in GateCall |-> 0]

GatesInit ==
  /\ design = 1
  /\ gates = [g \in Gate |-> 0] /\ cached = gates /\ ended = gates
  /\ asked = [r \in GateRun |-> "none"]
  /\ answers = [r \in GateRun |-> NoAnswers]
  /\ armed = FALSE /\ misplaced = {}

CallFor(g) == IF g \in ProjectGates THEN "project" ELSE g
Calls(what) ==
  CASE what = "none" -> {}
    [] what = "all"  -> GateCall
    [] what = "drc"  -> {"placement", "transfer"}
    [] what \in Gate -> {CallFor(what)}

StartRun(r, what) ==
  /\ asked[r] = "none"
  /\ asked' = [asked EXCEPT ![r] = what]
  /\ UNCHANGED <<design, gates, cached, answers, ended, misplaced>>

RunAll(r) == StartRun(r, "all") /\ UNCHANGED armed
RunGate(r) == (\E g \in Gate : StartRun(r, g)) /\ UNCHANGED armed

(* A check on save replaces the timer, which later starts the refresh.        *)
ScheduleDrcRefresh ==
  /\ ~armed /\ armed' = TRUE
  /\ UNCHANGED <<design, gates, cached, asked, answers, ended, misplaced>>

DrcTimer(r) ==
  /\ armed /\ armed' = FALSE
  /\ StartRun(r, "drc")

GateAnswered(r, c) ==
  /\ c \in Calls(asked[r]) /\ answers[r][c] = 0
  /\ answers' = [answers EXCEPT ![r][c] = design]
  /\ UNCHANGED <<design, gates, cached, asked, armed, ended, misplaced>>

(* A run of all gates gives every gate a result or makes it PENDING again.    *)
AllGates(got) ==
  [g \in Gate |-> IF g \in ProjectGates \ Rows THEN 0 ELSE got[CallFor(g)]]

DrcGatesOnly(got) ==
  [g \in Gate |-> IF g \in Calls("drc") THEN got[g] ELSE 0]

(* The refresh replaces two of the gates there are by now.                    *)
DrcGates(got) ==
  [g \in Gate |-> IF g \in Calls("drc") THEN got[g] ELSE gates[g]]

(* So does the run of one gate.  A gate of the project report gets its first  *)
(* row, whichever that is about; mergeGates then keeps the later of two       *)
(* entries of one gate, and the gate without an entry is PENDING again.       *)
OneGate(g, got) ==
  LET next == got[CallFor(g)]
  IN CASE g \notin ProjectGates \/ g = FirstRow -> [gates EXCEPT ![g] = next]
       [] g = "connectivity" /\ FirstRow = "schematic" ->
            [gates EXCEPT !["schematic"] = next, !["connectivity"] = 0]
       [] g = "schematic" /\ FirstRow = "connectivity" ->
            [gates EXCEPT !["schematic"] = 0]

(* The row of the project report is not the one of the gate that was run.      *)
Misplaces(what) == what \in ProjectGates \ {FirstRow}

RunEnds(r) ==
  LET what == asked[r]
      got  == answers[r]
  IN /\ what # "none" /\ \A c \in Calls(what) : got[c] # 0
     /\ gates' = CASE what = "all"  -> AllGates(got)
                   [] what = "drc"  -> DrcGates(got)
                   [] what \in Gate -> OneGate(what, got)
     /\ cached' = gates'
     /\ ended' = [g \in Gate |->
                    IF what = "all" THEN AllGates(got)[g]
                    ELSE IF what = g \/ (what = "drc" /\ g \in Calls("drc"))
                      THEN got[CallFor(g)]
                      ELSE ended[g]]
     /\ misplaced' = IF what = "all" THEN {}
                     ELSE IF Misplaces(what) THEN misplaced \cup {what, FirstRow}
                     ELSE misplaced \ {what}
     /\ asked' = [asked EXCEPT ![r] = "none"]
     /\ answers' = [answers EXCEPT ![r] = NoAnswers]
     /\ UNCHANGED <<design, armed>>

(* A call fails and with it the run, whatever its other calls answer.         *)
RunFails(r) ==
  /\ \E c \in Calls(asked[r]) : answers[r][c] = 0
  /\ asked' = [asked EXCEPT ![r] = "none"]
  /\ answers' = [answers EXCEPT ![r] = NoAnswers]
  /\ UNCHANGED <<design, gates, cached, armed, ended, misplaced>>

(* refresh, or a new window.                                                  *)
ReadCache ==
  /\ gates' = cached
  /\ UNCHANGED <<design, cached, asked, answers, armed, ended, misplaced>>

EditDesign ==
  /\ design <= MaxDesign
  /\ design' = design + 1
  /\ UNCHANGED <<gates, cached, asked, answers, armed, ended, misplaced>>

GatesNext ==
  \/ \E r \in GateRun :
       \/ RunAll(r) \/ RunGate(r) \/ DrcTimer(r) \/ RunEnds(r) \/ RunFails(r)
       \/ \E c \in GateCall : GateAnswered(r, c)
  \/ ScheduleDrcRefresh \/ ReadCache \/ EditDesign

GatesSpec == GatesInit /\ [][GatesNext]_gatesVars
-----------------------------------------------------------------------------
(* Every gate shows what the last run that asked for it found, however runs   *)
(* of other gates, of all gates and the refresh after a DRC overlap: none     *)
(* brings back what it started from.  The exception is the code's: a later    *)
(* row of the project report run alone is answered with the first row, which  *)
(* replaces that of its own gate, until the gate is run again.                *)
GatesShowLastRun ==
  \A g \in Gate \ misplaced : gates[g] = ended[g] /\ cached[g] = ended[g]
=============================================================================
