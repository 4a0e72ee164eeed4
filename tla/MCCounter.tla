----------------------------- MODULE MCCounter ------------------------------
(***************************************************************************)
(* Counter for TLC: a .cfg cannot hold a negative number.                  *)
(***************************************************************************)
EXTENDS Counter

\* Both ends of an i32 that is three bits wide, and values between them.
CountsOfRun == {-4, -1, 0, 1, 3}

=============================================================================
