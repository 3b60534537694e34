---------------------------- MODULE MCLiveViewer -----------------------------
(* Instances of LiveViewer for TLC: the panels are model values given by the  *)
(* configurations.                                                            *)
EXTENDS LiveViewer, TLC

\* The panels are interchangeable (runs without a liveness property).
PanelSymmetry == Permutations(Panel)
=============================================================================
