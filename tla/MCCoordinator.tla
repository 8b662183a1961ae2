--------------------------- MODULE MCCoordinator ---------------------------
\* The control plane with few starts and methods; the cfg files say which.
EXTENDS Coordinator
=============================================================================
