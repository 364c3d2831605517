----------------------------- MODULE MCSchedule -----------------------------
(***************************************************************************)
(* Twenty-eight years in a row: every weekday the first of January can     *)
(* fall on, in common and in leap years.                                   *)
(***************************************************************************)
EXTENDS Schedule

MCYears == 2024..2051
=============================================================================
