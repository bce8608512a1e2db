---------------------------- MODULE MCAdmission ----------------------------
(* Values of the constants for model checking Admission. *)
EXTENDS Admission

=============================================================================
