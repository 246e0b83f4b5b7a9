----------------------------- MODULE MCUserRecords -----------------------------
(* Instances of UserRecords for TLC: two hosts in different countries. *)
EXTENDS UserRecords

CONSTANTS h1, h2

MCCode == [h \in {h1, h2} |-> IF h = h1 THEN "us" ELSE "de"]
================================================================================
