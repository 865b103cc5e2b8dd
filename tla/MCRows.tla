--------------------------------- MODULE MCRows ---------------------------------
(* An instance of Rows: limits that fall back to the default and limits that the
   results reach, miss and exceed. *)
EXTENDS Rows

MCLimits == {-1, 0, 1, 4}
=============================================================================
