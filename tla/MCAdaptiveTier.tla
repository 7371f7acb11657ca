---------------------------- MODULE MCAdaptiveTier ----------------------------
(* One command in two directories, another command, and one the gateway does  *)
(* not cache; caches that overflow; NoSnapshot is what the gateway's own      *)
(* tests send.                                                                *)
EXTENDS AdaptiveTier

Key(d, c) == [cwd |-> d, cmd |-> c]
MCKeys == {Key("home", "uname"), Key("tmp", "uname"), Key("home", "pgrep")}
MCCacheable == {k \in MCKeys : k.cmd # "pgrep"}
MCSymmetry == Permutations(Sessions)
NoSnapshot == [f \in {} |-> "string"]
=============================================================================
