----------------------------- MODULE MCService -----------------------------
(***************************************************************************)
(* Two services, one configured with a URI made of one text and one made   *)
(* of its parts, and a heap with room for two implementations.             *)
(***************************************************************************)
EXTENDS Service

CONSTANTS s1, s2

MCNumbers == {"0", "80", "8080"}
MCWords   == MCNumbers \cup {"tcp", "localhost"}
MCHosts   == MCWords \cup {"127.0.0.1"}
MCPieces  == MCHosts \cup {"*"}

MCGiven ==
  [s \in {s1, s2} |->
     IF s = s1 THEN [uri |-> <<"tcp", "://", "127.0.0.1", ":", "8080">>]
     ELSE [transport |-> <<"tcp">>, address |-> <<"localhost">>, port |-> "0"]]
=============================================================================
