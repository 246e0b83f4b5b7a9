-------------------------------- MODULE MCUsers --------------------------------
(***************************************************************************)
(* The records of users and the lookups of their addresses in one run:      *)
(* UserRecords and Dns, with the names they have there.  UserRecords takes  *)
(* of Dns only that an answer comes at any later time, so that they share   *)
(* no variable; part, chosen at the start, is the one that moves.           *)
(***************************************************************************)
EXTENDS UserRecords, Dns

CONSTANTS h1, h2

VARIABLE part

\* Two hosts in different countries.
CountryOf == [h \in {h1, h2} |-> IF h = h1 THEN "us" ELSE "de"]

-----------------------------------------------------------------------------
UsersInit == part \in {"users", "dns"} /\ Init /\ DnsInit

UsersNext ==
  /\ UNCHANGED part
  /\ \/ part = "users" /\ Next /\ UNCHANGED dnsvars
     \/ part = "dns" /\ DnsNext /\ UNCHANGED vars

allvars == <<part, vars, dnsvars>>

DnsStep(A) == part = "dns" /\ A /\ UNCHANGED <<part, vars>>

\* The fairness of Dns.
UsersSpec ==
  /\ UsersInit /\ [][UsersNext]_allvars
  /\ WF_allvars(DnsStep(do_dns))
  /\ \A i \in Ids :
       SF_allvars(DnsStep(\E q \in Active : q.id = i /\ CalledBack(q)))
  /\ SF_allvars(DnsStep(CallbackFaults))
==============================================================================
