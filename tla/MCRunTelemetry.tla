--------------------------- MODULE MCRunTelemetry ---------------------------
(***************************************************************************)
(* Finite instances of RunTelemetry.  Ids are numbers because the run      *)
(* takes the oldest first.  Every run either takes all that is pending     *)
(* (cap 0) or one report (cap 1).                                          *)
(***************************************************************************)
EXTENDS RunTelemetry

MCCaps == {0, 1}
=============================================================================
