---------------------------- MODULE MCEnrollment ----------------------------
(* Enrollment on a small instance *)
EXTENDS Enrollment
=============================================================================
