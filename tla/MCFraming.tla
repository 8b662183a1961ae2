------------------------------ MODULE MCFraming ------------------------------
(* The instance of Framing that MCFraming.cfg checks.                      *)
EXTENDS Framing

MCBuckets == <<2, 4, 5>>
=============================================================================
