------------------------------- MODULE Modules -------------------------------
(***************************************************************************)
(* src/modules.c: loading and unloading modules, with what the rest of the *)
(* core keeps for them under their module number: the data modules attach  *)
(* to users, channels and servers (moddata in users.c, channels.c and      *)
(* servers.c), and the count of modules that want CTCP version replies.    *)
(*                                                                         *)
(* A module is a value; loading it again gives it a new Module record, the *)
(* record of an unloaded one is freed.  Its lookups are the subject of     *)
(* Dns, its timers of Timers, its bots of Channels.                        *)
(***************************************************************************)
EXTENDS Integers, FiniteSets

CONSTANTS
  Mods,          \* loadable modules
  BrokenAuth,    \* those with MODULE_FLAG_AUTH that lack ModAuthUser
  VersionMods,   \* those with MODULE_FLAG_CTCP_VERSION
  NumModules,    \* NUM_MODULES
  MaxData,       \* a bound on the data a module attaches
  UserRecs, ChanRecs, ServerRecs   \* what it can be attached to

Holders == UserRecs \cup ChanRecs \cup ServerRecs

Slots == 0 .. NumModules - 1

None == "none"

ASSUME ModulesAssumption ==
  /\ BrokenAuth \subseteq Mods /\ VersionMods \subseteq Mods
  /\ BrokenAuth \cap VersionMods = {}
  /\ None \notin Mods
  /\ IsFiniteSet(VersionMods) /\ IsFiniteSet(ChanRecs) /\ IsFiniteSet(ServerRecs)
  /\ NumModules \in Nat \ {0} /\ MaxData \in Nat
  /\ UserRecs \cap ChanRecs = {} /\ UserRecs \cap ServerRecs = {} /\ ChanRecs \cap ServerRecs = {}

VARIABLES
  modulehash,    \* loaded modules
  ModList,       \* ModList[i]: the module with number i, or None
  modnum,        \* modnum[m]: m->modnum
  modvalue,      \* modvalue[h][i]: the module that set h->modvalue[i], or None
  datacnt,       \* datacnt[m][k]: m->userdatacnt, channeldatacnt, serverdatacnt
  versionscan    \* me.versionscan

vars == <<modulehash, ModList, modnum, modvalue, datacnt, versionscan>>

Kinds == {"user", "channel", "server"}

Kind(h) == IF h \in UserRecs THEN "user" ELSE IF h \in ChanRecs THEN "channel" ELSE "server"

NoData == [k \in Kinds |-> 0]

Empty == [i \in Slots |-> None]

TypeOK ==
  /\ modulehash \subseteq Mods
  /\ ModList \in [Slots -> Mods \cup {None}]
  /\ modnum \in [Mods -> Slots]
  /\ modvalue \in [Holders -> [Slots -> Mods \cup {None}]]
  /\ datacnt \in [Mods -> [Kinds -> Nat]]
  /\ versionscan \in Int

-----------------------------------------------------------------------------
(* What modules do with their numbers, and what the network does. *)

SetModValueMutant(m, h) ==
  /\ m \in modulehash /\ datacnt[m][Kind(h)] < MaxData
  /\ modvalue' = [modvalue EXCEPT ![h][modnum[m]] = m]
  /\ datacnt' = [datacnt EXCEPT ![m][Kind(h)] = IF modvalue[h] = Empty THEN @ + 1 ELSE @]
  /\ UNCHANGED <<modulehash, ModList, modnum, versionscan>>
SetModValue(m, h) ==
  /\ m \in modulehash /\ datacnt[m][Kind(h)] < MaxData
  /\ modvalue' = [modvalue EXCEPT ![h][modnum[m]] = m]
  /\ datacnt' = [datacnt EXCEPT ![m][Kind(h)] = @ + 1]
  /\ UNCHANGED <<modulehash, ModList, modnum, versionscan>>

ClearModValueMutant(m, h) ==
  /\ m \in modulehash
  /\ modvalue' = [modvalue EXCEPT ![h][modnum[m]] = None]
  /\ datacnt' = [datacnt EXCEPT ![m][Kind(h)] = @ - 1]
  /\ UNCHANGED <<modulehash, ModList, modnum, versionscan>>
\* Modules clear what they have set since they were loaded.
ClearModValue(m, h) ==
  /\ m \in modulehash /\ modvalue[h][modnum[m]] = m
  /\ datacnt[m][Kind(h)] > 0
  /\ modvalue' = [modvalue EXCEPT ![h][modnum[m]] = None]
  /\ datacnt' = [datacnt EXCEPT ![m][Kind(h)] = @ - 1]
  /\ UNCHANGED <<modulehash, ModList, modnum, versionscan>>

\* A user quits, a channel empties or a server splits: the record goes and a
\* new one starts empty; nobody adjusts the counters.
Replaced(h) ==
  /\ modvalue[h] # Empty
  /\ modvalue' = [modvalue EXCEPT ![h] = Empty]
  /\ UNCHANGED <<modulehash, ModList, modnum, datacnt, versionscan>>

-----------------------------------------------------------------------------
(* load_stdmodule and unload_module. *)

FreeSlots == {i \in Slots : ModList[i] = None}

assign_mod_numberMutant(m) ==
  LET i == Cardinality(modulehash)
  IN  i \in Slots /\ ModList' = [ModList EXCEPT ![i] = m] /\ modnum' = [modnum EXCEPT ![m] = i]
\* The least free number.
assign_mod_number(m) ==
  \E i \in FreeSlots :
    /\ \A j \in FreeSlots : i <= j
    /\ ModList' = [ModList EXCEPT ![i] = m]
    /\ modnum' = [modnum EXCEPT ![m] = i]

CleansMutant(m) == IF datacnt[m]["channel"] > 0 THEN ServerRecs ELSE {}
\* Whose data CleanupUserModdata, CleanupServerModdata and CleanupChannelModdata
\* clear: the first walks the server list too.
Cleans(m) ==
  {h \in ServerRecs : datacnt[m]["user"] > 0 \/ datacnt[m]["server"] > 0}
    \cup {h \in ChanRecs : datacnt[m]["channel"] > 0}

CleanupModdata(m) ==
  /\ modvalue' = [h \in Holders |->
       IF h \in Cleans(m) THEN [modvalue[h] EXCEPT ![modnum[m]] = None] ELSE modvalue[h]]
  /\ datacnt' = [datacnt EXCEPT ![m] = NoData]

LoadModuleMutant(m) ==
  /\ m \notin modulehash \cup BrokenAuth
  /\ modulehash' = modulehash \cup {m}
  /\ assign_mod_number(m)
  /\ UNCHANGED <<modvalue, datacnt, versionscan>>
LoadModule(m) ==
  /\ m \notin modulehash \cup BrokenAuth
  /\ modulehash' = modulehash \cup {m}
  /\ versionscan' = IF m \in VersionMods THEN versionscan + 1 ELSE versionscan
  /\ assign_mod_number(m)
  /\ UNCHANGED <<modvalue, datacnt>>

\* AddAuthModule fails, and load_stdmodule unloads a module that has no number
\* yet: ns_calloc has left 0 there.
LoadBrokenAuth(m) ==
  /\ m \in BrokenAuth
  /\ modnum' = [modnum EXCEPT ![m] = 0]
  /\ ModList' = [ModList EXCEPT ![0] = None]
  /\ UNCHANGED <<modulehash, modvalue, datacnt, versionscan>>

\* UNLOAD, a crash of the module, or the end of a load whose ModInit or ModSynch
\* failed.
UnloadModule(m) ==
  /\ m \in modulehash
  /\ versionscan' = IF m \in VersionMods THEN versionscan - 1 ELSE versionscan
  /\ modulehash' = modulehash \ {m}
  /\ CleanupModdata(m)
  /\ ModList' = [ModList EXCEPT ![modnum[m]] = None]
  /\ UNCHANGED modnum

-----------------------------------------------------------------------------
Init ==
  /\ modulehash = {}
  /\ ModList = Empty
  /\ modnum = [m \in Mods |-> 0]
  /\ modvalue = [h \in Holders |-> Empty]
  /\ datacnt = [m \in Mods |-> NoData]
  /\ versionscan = 0

Next ==
  \/ \E m \in Mods : LoadModule(m) \/ LoadBrokenAuth(m) \/ UnloadModule(m)
  \/ \E m \in Mods, h \in Holders : SetModValue(m, h) \/ ClearModValue(m, h)
  \/ \E h \in Holders : Replaced(h)

Spec == Init /\ [][Next]_vars

-----------------------------------------------------------------------------
(* Properties. *)

\* ModList knows every loaded module under its number, so that no two modules
\* have the same.
NumbersOwned == \A m \in modulehash : ModList[modnum[m]] = m

\* load_stdmodule, assign_mod_number and unload_module: only the failed load of
\* an auth module makes a number free that is in use.
NumbersKept ==
  [][NumbersOwned => NumbersOwned' \/ \E m \in BrokenAuth : LoadBrokenAuth(m)]_vars

\* CleanupChannelModdata and CleanupServerModdata: a value is that of a loaded
\* module, under its number.  Whoever is given the number of an unloaded module
\* finds nothing of it.
DataOwned ==
  \A h \in ChanRecs \cup ServerRecs, i \in Slots :
    modvalue[h][i] # None => modvalue[h][i] \in modulehash /\ modnum[modvalue[h][i]] = i

\* The same of users: CleanupUserModdata is to "Clear module data values and
\* pointer left set by an unloaded module".
UserDataOwned ==
  \A h \in UserRecs, i \in Slots :
    modvalue[h][i] # None => modvalue[h][i] \in modulehash /\ modnum[modvalue[h][i]] = i

Holding(m, hs) == {h \in hs : modvalue[h][modnum[m]] = m}

\* The counters of a loaded module may be too high, as records go away without
\* notice, but never so low that unload_module would skip a cleanup.
DataCounted ==
  \A m \in modulehash :
    /\ datacnt[m]["channel"] >= Cardinality(Holding(m, ChanRecs))
    /\ datacnt[m]["server"] >= Cardinality(Holding(m, ServerRecs))

\* AddUser asks new users for their version while versionscan is not 0: exactly
\* while a module that wants the replies is loaded.
VersionScanCounted == versionscan = Cardinality(modulehash \cap VersionMods)

=============================================================================
