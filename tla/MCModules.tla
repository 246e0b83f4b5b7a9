---- MODULE MCModules ----
(* Instances of Modules for TLC. *)
EXTENDS Modules
====
