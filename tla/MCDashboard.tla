---------------------------- MODULE MCDashboard ----------------------------
(* Instance of Dashboard for TLC: two toxicity alerts and another one,     *)
(* two clients and two requests that may overlap.                          *)
EXTENDS Dashboard, TLC

CONSTANTS c1, c2, r1, r2

MCClients == {c1, c2}
MCRequests == {r1, r2}
MCAlerts == <<"toxicity", "other", "toxicity">>
MCSymmetry == Permutations(MCClients) \cup Permutations(MCRequests)
=============================================================================
