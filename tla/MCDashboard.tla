----------------------------- MODULE MCDashboard -----------------------------
(* One configured remote camera, and another whose frames arrive unasked. *)
EXTENDS Dashboard
CONSTANTS c1, c2
MCRegistered == <<c1>>
==============================================================================
