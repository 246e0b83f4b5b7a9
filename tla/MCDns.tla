-------------------------------- MODULE MCDns ---------------------------------
(* Instances of Dns for TLC. *)
EXTENDS Dns
================================================================================
