-------------------------- MODULE MCLiveViewerAtRest --------------------------
(* Instances of LiveViewer for the properties at rest: behaviours of a single *)
(* panel and behaviours of two, each with its own bounds.                     *)
EXTENDS MCLiveViewer

VARIABLE alone   \* whether the behaviour is one of a single panel

aloneVars == <<alone, vars>>

AloneInit == alone \in BOOLEAN /\ Init

\* A panel alone may be revealed at any time, and sees a fourth write; two
\* panels take more moves.
AloneNext ==
  /\ Next
  /\ IF alone
       THEN moves' <= 2 /\ \A p, q \in panels' : p = q
       ELSE writes' <= 3 /\ Calm
  /\ UNCHANGED alone

AloneSpec == AloneInit /\ [][AloneNext]_aloneVars
=============================================================================
