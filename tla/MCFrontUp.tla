------------------------------ MODULE MCFrontUp ------------------------------
(* The small instance of FrontUp that MCFrontUp.cfg checks.                 *)
EXTENDS FrontUp
=============================================================================
