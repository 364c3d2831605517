---------------------------- MODULE MCReportApi ----------------------------
(***************************************************************************)
(* Finite instances of ReportApi: two requests in the isolate and the      *)
(* weekly run in another, over one report.                                 *)
(***************************************************************************)
EXTENDS ReportApi
=============================================================================
