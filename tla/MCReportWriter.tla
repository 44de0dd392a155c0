--------------------------- MODULE MCReportWriter ---------------------------
(***************************************************************************)
(* A small report: the reporter of an instance, which may be killed, and   *)
(* another one, a list or of the kinds that keep their data.               *)
(***************************************************************************)
EXTENDS ReportFiles, TLC

CONSTANTS r1, r2

MCWriter == {r1, r2}
MCKinds == r1 :> {"columns"} @@ r2 :> {"list", "sums", "averages", "snapshot"}
=============================================================================
