---------------------------- MODULE MCDiscovery ----------------------------
(***************************************************************************)
(* Two services with different keys and one registry.                      *)
(***************************************************************************)
EXTENDS Discovery

CONSTANTS s1, s2

Config(s) == [address |-> s, port |-> 1, text |-> s]

MCAnnouncements == {Config(s) : s \in {s1, s2}}
MCAnnounced == [s \in {s1, s2} |-> Config(s)]
=============================================================================
