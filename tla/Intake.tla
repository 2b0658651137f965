------------------------------- MODULE Intake -------------------------------
(***************************************************************************)
(* What a Multicast_Receiver with a background thread promises to the      *)
(* component that installed the callback: datagrams are given to it one at *)
(* a time, in the order in which they reached the socket, none twice and   *)
(* none skipped, each read as Hears allows; once the intake is closed the  *)
(* callback is never entered again.                                        *)
(***************************************************************************)
EXTENDS Naturals, Sequences

CONSTANTS
  Datagrams,  \* what may reach the socket
  Hears(_)    \* what the callback may make of a datagram

VARIABLES
  arrived,    \* the datagrams that reached the socket
  heard,      \* what the callback made of the first Len(heard) of them
  open

vars == <<arrived, heard, open>>

Init == arrived = <<>> /\ heard = <<>> /\ open = TRUE

Arrive ==
  /\ \E d \in Datagrams : arrived' = Append(arrived, d)
  /\ UNCHANGED <<heard, open>>

\* Closing may coincide with the return of the last call.
Hear ==
  /\ open /\ Len(heard) < Len(arrived)
  /\ \E h \in Hears(arrived[Len(heard) + 1]) : heard' = Append(heard, h)
  /\ open' \in BOOLEAN
  /\ UNCHANGED arrived

Close == open /\ open' = FALSE /\ UNCHANGED <<arrived, heard>>

Next == Arrive \/ Hear \/ Close

Spec == Init /\ [][Next]_vars
=============================================================================
