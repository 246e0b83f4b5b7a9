----------------------------- MODULE MCServers -----------------------------
(* Instances of module Servers for TLC: two chains at first, so that nine  *)
(* users double a table twice, after which it may be halved; hash values   *)
(* that put servers in one chain and users in all.                         *)
EXTENDS Servers, TLC

CONSTANTS hub, leaf, sub, u1, u2, u3, u4, u5, u6, u7, u8, u9

MCArrivals == <<u1, u2, u3, u4, u5, u6, u7, u8, u9, u4>>
MCFewArrivals == <<u1, u3>>

\* The users of the leaf are spread over the chains between the others.
MCHome == [u \in User |-> IF u \in {u3, u7} THEN hub ELSE leaf]

MCHKey == (me :> 1) @@ (hub :> 3) @@ (leaf :> 4) @@ (sub :> 5)
          @@ [u \in User |-> CHOOSE i \in 1 .. 9 : MCArrivals[i] = u]
=============================================================================
