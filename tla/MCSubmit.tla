------------------------------ MODULE MCSubmit ------------------------------
(* Instances of Submit for TLC. *)
EXTENDS Submit
=============================================================================
