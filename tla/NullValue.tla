-------------------------------- MODULE NullValue -------------------------------
(* What a table, or a request, holds where there is no row: one constant,   *)
(* for the modules that are checked together.                               *)
CONSTANT Null
=============================================================================
