------------------------------ MODULE MCUiLoads ------------------------------
(* Values for UiLoads: two agents, one with two sessions and one with none. *)
EXTENDS UiLoads, TLC

CONSTANTS f1, f2, s1, s2

SessionsOf == f1 :> {s1, s2} @@ f2 :> {}
=============================================================================
