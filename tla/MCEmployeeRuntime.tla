------------------------- MODULE MCEmployeeRuntime -------------------------
(* Small instance of EmployeeRuntime for TLC.                              *)
EXTENDS EmployeeRuntime
=============================================================================
