----------------------------- MODULE MCEnrolment -----------------------------
(* Instances of Enrolment for TLC. *)
EXTENDS Enrolment

CONSTANTS n1, n2, manager, a1
=============================================================================
