------------------------------ MODULE MCTunnel ------------------------------
(* Instances of Tunnel: see the configurations MCTunnel*.cfg.              *)
EXTENDS Tunnel
=============================================================================
