------------------------------ MODULE MCNetwork ------------------------------
(***************************************************************************)
(* What follows the network in one run: Channels, with the persistent bots *)
(* of TextServ, and Servers.  They share no variable; part, chosen at the  *)
(* start, is the one that moves.                                           *)
(***************************************************************************)
EXTENDS TextServ, Servers

CONSTANTS c1, b2, hub, leaf, sub, w1, w2, w3, w4, w5, w6, w7, w8, w9

\* Two chains at first, so that nine users double a table twice, after which it
\* may be halved; w4 signs on a second time.
SignOns == <<w1, w2, w3, w4, w5, w6, w7, w8, w9, w4>>
Servers4 == {me, hub, leaf, sub}
Names == {SignOns[i] : i \in 1 .. 9}

\* Hash values that put servers in one chain and users in all.
Key == [x \in Servers4 \cup Names |->
          IF x = me THEN 1 ELSE IF x = hub THEN 3 ELSE IF x = leaf THEN 4 ELSE IF x = sub THEN 5
          ELSE CHOOSE i \in 1 .. 9 : SignOns[i] = x]

\* The users of the leaf are spread over the chains between the others.
Homes == [x \in Names |-> IF x \in {w3, w7} THEN hub ELSE leaf]

\* The main channel of the bot of TextServ.
MainChan == [x \in {b2} |-> c1]

VARIABLE part
-----------------------------------------------------------------------------
NetworkInit == part \in {"channels", "servers"} /\ TsInit /\ ServersInit

NetworkNext ==
  /\ UNCHANGED part
  /\ \/ part = "channels" /\ TsNext /\ UNCHANGED servervars
     \/ part = "servers" /\ ServersNext /\ UNCHANGED <<vars, tsvars>>

\* The fairness of Servers.
NetworkSpec ==
  /\ NetworkInit /\ [][NetworkNext]_<<part, vars, tsvars, servervars>>
  /\ WF_<<part, vars, tsvars, servervars>>(part = "servers" /\ DelServer /\ UNCHANGED <<part, vars, tsvars>>)
==============================================================================
