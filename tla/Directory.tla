----------------------------- MODULE Directory -----------------------------
(***************************************************************************)
(* What the services of one multicast group can count on: the registry     *)
(* knows only services that have been started, services are told only of   *)
(* what the registry knows, and - the datagrams of the registry all begin  *)
(* alike - of one announcement only.                                       *)
(***************************************************************************)
CONSTANTS
  Services,
  Announced     \* the announcement of each service

VARIABLES
  started,   \* services that have been started
  known,     \* announcements the registry has recorded
  told       \* announcements some service has been told of

vars == <<started, known, told>>

Init == started = {} /\ known = {} /\ told = {}

Start(s) == started' = started \cup {s} /\ UNCHANGED <<known, told>>

Register(s) ==
  /\ s \in started
  /\ known' = known \cup {Announced[s]}
  /\ UNCHANGED <<started, told>>

Tell(s) ==
  /\ Announced[s] \in known
  /\ told \subseteq {Announced[s]}
  /\ told' = {Announced[s]}
  /\ UNCHANGED <<started, known>>

Next == \E s \in Services : Start(s) \/ Register(s) \/ Tell(s)

Spec == Init /\ [][Next]_vars
=============================================================================
