------------------------------ MODULE MCRelay ------------------------------
\* One address, so that its cap and the permits run out.
EXTENDS Relay, TLC

MCBucket == "a" :> "a"

=============================================================================
