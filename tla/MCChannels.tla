---- MODULE MCChannels ----
(* Instances of Channels for TLC. *)
EXTENDS Channels

CONSTANT MaxDrift   \* bound on neousers, for the runs in which it drifts

BoundedNext == Next /\ \A c \in Chans : channel'[c].neousers <= MaxDrift

BoundedSpec == Init /\ [][BoundedNext]_vars
====
