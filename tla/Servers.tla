------------------------------ MODULE Servers ------------------------------
(***************************************************************************)
(* Servers and their users: AddServer and DelServer of src/servers.c with  *)
(* the recursion of del_server_leaves, AddUser (here SignOn), QuitUser and *)
(* QuitServerUsers of src/users.c, on the real hash tables of src/hash.c,  *)
(* for the protocols with NOQUIT, where one SQUIT stands for the loss of a *)
(* whole branch of the network and of everyone on it.                      *)
(*                                                                         *)
(* DelServer is modelled one node of a scan at a time, with the C stack as *)
(* a sequence of frames: each level of the recursion has a scan of its own *)
(* on the same table.  What the record of a user carries besides its       *)
(* server (channels, modes, ...) is in module Channels.                    *)
(***************************************************************************)
EXTENDS Hash, Branches

CONSTANTS Server,     \* names of servers
          me,         \* ours, me.s: the root of the tree, never removed
          User,       \* names of users
          Home,       \* bound: the server each user signs on at
          Arrivals,   \* bound: the sign-ons of a behaviour, in order
          MaxLinks,   \* bound: servers linked in a behaviour
          MaxQuits,   \* bound: users who quit by themselves
          Freed       \* what u->uplink points to once the server is freed

ASSUME ServersAssumption ==
    /\ me \in Server
    /\ Home \in [User -> Server]
    /\ HKey \in [Server \union User -> Nat]
    /\ NULL \notin Server \union User
    /\ Freed \notin Server
    /\ Arrivals \in Seq(User)
    /\ MaxLinks \in Nat /\ MaxQuits \in Nat

VARIABLES serverhash,  \* table of servers
          uplinkname,  \* s->uplinkname; of a freed server, what it was
          users,       \* s->server->users
          nickhash,    \* table of users
          uplink,      \* u->uplink
          stack,       \* calls of DelServer in progress, the innermost first
          usedfreed,   \* freed memory was used, with a crash
          signons,     \* sign-ons so far
          links,       \* links so far
          quits        \* users who quit so far

servervars == <<serverhash, uplinkname, users, nickhash, uplink, stack,
                usedfreed, signons, links, quits>>

Linked == Nodes(serverhash)
Online == Nodes(nickhash)

\* A call of DelServer: the server, where it is, and its scan.  `spoilt' and
\* `missed' are not in the program: they remember that the node the scan had
\* fetched was deleted, or that the table was halved, since the scan began,
\* and that it was so of the scan for leaves when that ended.
Frame ==
    [srv : Server, at : {"leaves"}, spoilt : BOOLEAN, missed : {FALSE},
     scan : [chain : Nat, next : Server \union {NULL}]]
    \union
    [srv : Server, at : {"users"}, spoilt : BOOLEAN, missed : BOOLEAN,
     scan : [chain : Nat, next : User \union {NULL}]]

ServersInit ==
    /\ serverhash = HashInsert(EmptyTable, me)   \* InitServices
    /\ uplinkname = [s \in Server |-> NULL]
    /\ users = [s \in Server |-> 0]
    /\ nickhash = EmptyTable
    /\ uplink = [u \in User |-> Freed]
    /\ stack = <<>>
    /\ usedfreed = FALSE
    /\ signons = 0 /\ links = 0 /\ quits = 0

\* Between two lines from the uplink.
Idle == stack = <<>> /\ ~usedfreed

\* Bound: when a branch was not removed whole, the network's tree is no
\* longer ours, and what it would say next about servers is left open.
PictureRight == \A s \in Linked \ {me} : uplinkname[s] \in Linked
-----------------------------------------------------------------------------
\* AddServer, for a server the network introduces behind one it has.
AddServer(s, up) ==
    /\ Idle /\ PictureRight
    /\ links < MaxLinks
    /\ s \notin Linked
    /\ up \in Linked
    /\ serverhash' = HashInsert(serverhash, s)
    /\ uplinkname' = [uplinkname EXCEPT ![s] = up]
    /\ users' = [users EXCEPT ![s] = 0]
    /\ links' = links + 1
    /\ UNCHANGED <<nickhash, uplink, stack, usedfreed, signons, quits>>

\* AddUser, for the next user to sign on.  It refuses a name it has.
SignOn ==
    /\ Idle
    /\ signons < Len(Arrivals)
    /\ LET u == Arrivals[signons + 1]
       IN  /\ Home[u] \in Linked
           /\ \/ /\ u \in Online
                 /\ UNCHANGED <<nickhash, uplink, users>>
              \/ /\ u \notin Online
                 /\ nickhash' = HashInsert(nickhash, u)
                 /\ uplink' = [uplink EXCEPT ![u] = Home[u]]
                 /\ users' = [users EXCEPT ![Home[u]] = @ + 1]
    /\ signons' = signons + 1
    /\ UNCHANGED <<serverhash, uplinkname, stack, usedfreed, links, quits>>

DelUserMutant(u) ==  \* without the count of its server
    /\ nickhash' = HashDelete(nickhash, u)
    /\ UNCHANGED users

\* QuitUser and its deluser.  The count of a server that is gone is not kept.
DelUser(u) ==
    /\ nickhash' = HashDelete(nickhash, u)
    /\ users' = [s \in Server |-> IF s = uplink[u] THEN users[s] - 1
                                 ELSE users[s]]

\* A QUIT from the network.  A user left behind by a split still points to
\* its freed server, whose count is decremented all the same.
QuitUser(u) ==
    /\ Idle
    /\ quits < MaxQuits
    /\ u \in Online
    /\ DelUser(u)
    /\ usedfreed' \in IF uplink[u] = Freed THEN BOOLEAN ELSE {FALSE}
    /\ quits' = quits + 1
    /\ UNCHANGED <<serverhash, uplinkname, uplink, stack, signons, links>>
-----------------------------------------------------------------------------
\* The start of DelServer and of del_server_leaves.
Call(s) == [srv |-> s, at |-> "leaves", spoilt |-> FALSE, missed |-> FALSE,
            scan |-> HashScanBegin(serverhash)]

\* SQUIT (do_squit).
Squit(s) ==
    /\ Idle /\ PictureRight
    /\ s \in Linked \ {me}
    /\ stack' = <<Call(s)>>
    /\ UNCHANGED <<serverhash, uplinkname, users, nickhash, uplink, usedfreed,
                   signons, links, quits>>

\* The innermost call, and the stack with its scan advanced.
Top == Head(stack)
Running(at) == stack # <<>> /\ ~usedfreed /\ Top.at = at
Advanced(t) == <<[Top EXCEPT !.scan = HashScanNext(t, @)]>> \o Tail(stack)

\* del_server_leaves, at a server: one of the hub's is deleted with its own
\* leaves first, by the recursive call.
LeafStep ==
    /\ Running("leaves")
    /\ Top.scan.next \in Linked
    /\ stack' = IF uplinkname[Top.scan.next] = Top.srv
                THEN <<Call(Top.scan.next)>> \o Advanced(serverhash)
                ELSE Advanced(serverhash)
    /\ UNCHANGED <<serverhash, uplinkname, users, nickhash, uplink, usedfreed,
                   signons, links, quits>>

\* The same at a server a deeper call has freed: the program crashes, or
\* finds the node as it was left, out of the table and not a leaf of the hub.
FreedLeafStep ==
    /\ Running("leaves")
    /\ Top.scan.next \notin Linked \union {NULL}
    /\ \/ usedfreed' = TRUE /\ UNCHANGED stack
       \/ stack' = Advanced(serverhash) /\ UNCHANGED usedfreed
    /\ UNCHANGED <<serverhash, uplinkname, users, nickhash, uplink, signons,
                   links, quits>>

\* The leaves are done: QuitServerUsers begins.
LeavesDone ==
    /\ Running("leaves")
    /\ Top.scan.next = NULL
    /\ stack' = <<[Top EXCEPT !.at = "users", !.spoilt = FALSE,
                         !.missed = Top.spoilt,
                         !.scan = HashScanBegin(nickhash)]>> \o Tail(stack)
    /\ UNCHANGED <<serverhash, uplinkname, users, nickhash, uplink, usedfreed,
                   signons, links, quits>>

\* QuitServerUsers, at a user of another server and at one of this server.
SkipUser ==
    /\ Running("users")
    /\ Top.scan.next \in Online
    /\ uplink[Top.scan.next] # Top.srv
    /\ stack' = Advanced(nickhash)
    /\ UNCHANGED <<serverhash, uplinkname, users, nickhash, uplink, usedfreed,
                   signons, links, quits>>

QuitServerUser ==
    /\ Running("users")
    /\ Top.scan.next \in Online
    /\ uplink[Top.scan.next] = Top.srv
    /\ DelUser(Top.scan.next)
    /\ stack' = <<[Head(Advanced(nickhash)) EXCEPT
                      !.spoilt = @ \/ Shrinks(nickhash)]>> \o Tail(stack)
    /\ UNCHANGED <<serverhash, uplinkname, uplink, usedfreed, signons, links,
                   quits>>

\* The end of DelServer: the server goes, with hash_scan_delete, and the
\* caller goes on with its scan.
RemoveServer ==
    /\ Running("users")
    /\ Top.scan.next = NULL
    /\ serverhash' = HashScanDelete(serverhash, Top.srv)
    /\ uplink' = [u \in User |-> IF uplink[u] = Top.srv THEN Freed
                                 ELSE uplink[u]]
    /\ stack' = [i \in 1 .. Len(stack) - 1 |->
                   [stack[i + 1] EXCEPT
                       !.spoilt = @ \/ stack[i + 1].scan.next = Top.srv]]
    /\ UNCHANGED <<uplinkname, users, nickhash, usedfreed, signons, links, quits>>

DelServer == \/ LeafStep \/ FreedLeafStep \/ LeavesDone
             \/ SkipUser \/ QuitServerUser \/ RemoveServer

ServersNext ==
    \/ \E s, up \in Server : AddServer(s, up)
    \/ SignOn
    \/ \E u \in User : QuitUser(u)
    \/ \E s \in Server : Squit(s)
    \/ DelServer

\* The program goes on with a call it has begun; the network owes nothing.
ServersSpec ==
    ServersInit /\ [][ServersNext]_servervars /\ WF_servervars(DelServer)
-----------------------------------------------------------------------------
\* Types: uplinks are names of servers, counts numbers, the stack frames.
ServersTypeOK ==
    /\ Linked \subseteq Server /\ Online \subseteq User
    /\ uplinkname \in [Server -> Server \union {NULL}]
    /\ users \in [Server -> Int]
    /\ uplink \in [User -> Server \union {Freed}]
    /\ stack \in Seq(Frame)
    /\ usedfreed \in BOOLEAN

\* hash_verify (the assertion after every insertion, deletion and resizing
\* of src/hash.c): through doublings and halvings every node is in the chain
\* hash_lookup searches, once, and the count is right.
TablesVerified == Verified(serverhash) /\ Verified(nickhash)

\* The count of a server is the number of the users who point to it, also in
\* the middle of a split.
ServerUsersCounted ==
    \A s \in Linked : users[s] = Cardinality({u \in Online : uplink[u] = s})

\* As long as the node it has fetched is not deleted by a deeper call, and
\* the table not halved under it, a scan of DelServer still has ahead of it
\* everything it has to remove: the servers behind the one removed
\* (del_server_leaves), the users on it (QuitServerUsers).
ScanMissesNothing ==
    \A i \in DOMAIN stack : ~stack[i].spoilt =>
        IF stack[i].at = "leaves"
        THEN \A s \in Linked : uplinkname[s] = stack[i].srv =>
                \/ s \in Ahead(serverhash, stack[i].scan)
                \/ i > 1 /\ s = stack[i - 1].srv
        ELSE \A u \in Online : uplink[u] = stack[i].srv =>
                u \in Ahead(nickhash, stack[i].scan)

\* The branch a SQUIT in progress is removing, as far as it is still there:
\* to the network it is gone already.
Lost == IF stack = <<>> THEN {}
        ELSE Branch(Linked, uplinkname, stack[Len(stack)].srv)

\* What NeoStats shows of the network: the servers that are linked, with the
\* one each is behind, and the users who are online, with where they are.
Shown == Linked \ Lost
Present == LET lost == Lost IN {u \in Online : uplink[u] \notin lost}

NW == INSTANCE Splits WITH
        behind <- [s \in Shown |-> uplinkname[s]],
        on <- [u \in Present |-> uplink[u]]

\* The innermost call has had a scan that may have missed something.
Missed == stack # <<>> /\ (Top.missed \/ Top.spoilt)

\* A split is one step of the network: the whole branch goes, with everybody
\* on it, and nothing else, though DelServer takes it down server by server,
\* unless a server is removed whose own scans have been spoilt.
SplitsAreWhole ==
    [][\/ UNCHANGED NW!splitsvars
       \/ NW!SplitsNext
       \/ RemoveServer /\ Missed]_servervars

\* A SQUIT comes to its end, whatever the tree and the order of the tables.
SplitEnds == stack # <<>> ~> (stack = <<>> \/ usedfreed)

\* "Remove a all leaves of this server from NeoStats for use with NOQUIT"
\* (src/servers.c, del_server_leaves): after a SQUIT no server is left whose
\* uplink is gone, and no memory was used that had been freed.
LeavesRemoved == /\ ~usedfreed
                 /\ stack = <<>> =>
                       \A s \in Linked \ {me} : uplinkname[s] \in Linked
=============================================================================
