-------------------------------- MODULE Splits --------------------------------
(***************************************************************************)
(* The network as its servers see it, which NeoStats is to follow: a tree   *)
(* of servers and the users on them.  When a link is lost everything behind *)
(* it is gone at once.  Servers implements this module, where the calls of  *)
(* DelServer take the branch down server by server and user by user.        *)
(***************************************************************************)
EXTENDS Branches

CONSTANTS
  Server, me,   \* servers, and ours
  User, NULL

VARIABLES
  behind,   \* of each linked server, the server it is behind
  on        \* of each user who is online, the server

splitsvars == <<behind, on>>

SplitsInit ==
  /\ behind = [s \in {me} |-> NULL]
  /\ on = [u \in {} |-> me]

Link(s, up) ==
  /\ s \notin DOMAIN behind /\ up \in DOMAIN behind
  /\ behind' = [x \in DOMAIN behind \cup {s} |-> IF x = s THEN up ELSE behind[x]]
  /\ UNCHANGED on

SignOn(u, s) ==
  /\ u \notin DOMAIN on /\ s \in DOMAIN behind
  /\ on' = [x \in DOMAIN on \cup {u} |-> IF x = u THEN s ELSE on[x]]
  /\ UNCHANGED behind

Quit(u) ==
  /\ u \in DOMAIN on
  /\ on' = [x \in DOMAIN on \ {u} |-> on[x]]
  /\ UNCHANGED behind

Split(s) ==
  /\ s \in DOMAIN behind \ {me}
  /\ LET lost == Branch(DOMAIN behind, behind, s)
     IN  /\ behind' = [x \in DOMAIN behind \ lost |-> behind[x]]
         /\ on' = [u \in {u \in DOMAIN on : on[u] \notin lost} |-> on[u]]

SplitsNext ==
  \/ \E s, up \in Server : Link(s, up)
  \/ \E u \in User, s \in Server : SignOn(u, s)
  \/ \E u \in User : Quit(u)
  \/ \E s \in Server : Split(s)

SplitsSpec == SplitsInit /\ [][SplitsNext]_splitsvars

==============================================================================
