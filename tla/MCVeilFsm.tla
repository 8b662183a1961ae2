----------------------------- MODULE MCVeilFsm -----------------------------
\* The reducer under every sequence of events.
EXTENDS VeilFsm
=============================================================================
