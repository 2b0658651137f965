----------------------------- MODULE MCRegistry -----------------------------
(***************************************************************************)
(* Small instances of Registry: two services, one of which changes its     *)
(* brief, so that a key is announced with two texts.                       *)
(***************************************************************************)
EXTENDS Registry

CONSTANTS a, b, plain, changed

MCAnnouncements ==
  {[address |-> a, port |-> 1, text |-> plain],
   [address |-> a, port |-> 1, text |-> changed],
   [address |-> b, port |-> 1, text |-> plain]}
=============================================================================
