--------------------------- MODULE MCEventHistory ---------------------------
(***************************************************************************)
(* Values for TLC: a request without a limit, and one for more than a page *)
(* may hold.                                                               *)
(***************************************************************************)
EXTENDS EventHistory

PageSizes == {0, 3}
=============================================================================
