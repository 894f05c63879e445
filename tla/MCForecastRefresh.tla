-------------------------- MODULE MCForecastRefresh --------------------------
(* ForecastRefresh with two refreshes and two workers of one workspace.       *)
EXTENDS ForecastRefresh, TLC

Symmetry == Permutations(Refreshes) \cup Permutations(Workers)
==============================================================================
