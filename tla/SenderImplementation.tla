------------------------ MODULE SenderImplementation ------------------------
(***************************************************************************)
(* Multicast_Sender::Implementation as a value: the message buffer, the    *)
(* handlers the io_context holds and the timer.  The components that own a *)
(* sender keep one of these records and change it with these operators.    *)
(*                                                                         *)
(* async_send_to hands the datagram to the socket when it is called; what  *)
(* is left for the io_context is to call the handler with the outcome.     *)
(* The io_context promises no order among the handlers that are ready.     *)
(***************************************************************************)
EXTENDS Integers, Sequences

CONSTANTS
  MaxDatagram,   \* the longest datagram the socket takes, in messages
  NetworkFails   \* may a send fail for another reason?

ASSUME SenderAssumption ==
  /\ MaxDatagram \in Nat \ {0}
  /\ NetworkFails \in BOOLEAN

\* What a handler that is ready to run will be told: its datagram was sent or
\* refused, the timer is due, the wait on the timer was cancelled.
Handlers == {"sent", "failed", "due", "aborted"}

Sender(Text) ==
  [buffer  : Seq(Text),           \* the streambuf: everything ever written
   ready   : [Handlers -> Nat],   \* handlers ready to run
   armed   : {0, 1},              \* waits on the timer
   stopped : BOOLEAN]             \* io_context.stopped()

NewSender ==
  [buffer |-> <<>>, ready |-> [h \in Handlers |-> 0], armed |-> 0, stopped |-> FALSE]

Outstanding(s) ==
  s.ready["sent"] + s.ready["failed"] + s.ready["due"] + s.ready["aborted"] + s.armed

Outcomes(s, text) ==
  IF Len(s.buffer \o text) > MaxDatagram THEN {"failed"}
  ELSE IF NetworkFails THEN {"sent", "failed"} ELSE {"sent"}

\* Seeded fault: the buffer is consumed, as if every datagram began anew.
multicast_broadcast_Consumes(s, text, outcome) ==
  [s EXCEPT !.buffer = text, !.ready[outcome] = @ + 1]

\* Seeded fault: the completion of the send has no handler.
multicast_broadcast_DropsHandler(s, text, outcome) ==
  [s EXCEPT !.buffer = @ \o text]

\* The message function appends text to the buffer, which is never consumed,
\* and the whole buffer is the datagram.
multicast_broadcast(s, text, outcome) ==
  [s EXCEPT !.buffer = @ \o text, !.ready[outcome] = @ + 1]

\* Seeded fault: the pending wait is not cancelled and a second one is added.
multicast_timeout_Adds(s) == [s EXCEPT !.armed = @ + 1]

\* Seeded fault: the timer is set and nobody waits on it.
multicast_timeout_NoWait(s) ==
  [s EXCEPT !.ready["aborted"] = @ + s.armed, !.armed = 0]

\* expires_after cancels the pending wait, whose handler is then ready with
\* operation_aborted; a wait that is already due stays due.
multicast_timeout(s) ==
  [s EXCEPT !.ready["aborted"] = @ + s.armed, !.armed = 1]

\* Seeded fault: the timer is periodic, the wait stays.
TimerExpires_Periodic(s) == [s EXCEPT !.ready["due"] = @ + 1]

TimerExpires(s) == [s EXCEPT !.ready["due"] = @ + 1, !.armed = 0]

\* Seeded fault: a context without work goes on as if it had some.
Settle_Never(s) == s

\* An io_context that runs out of work stops, and nobody ever restarts it.
Settle(s) == [s EXCEPT !.stopped = @ \/ Outstanding(s) = 0]

Taken(s, h) == [s EXCEPT !.ready[h] = @ - 1]

\* The handlers: a datagram that left sets the timer, a timer that is due
\* broadcasts again, an error ends the chain.
RunHandler(s, h, text, outcome) ==
  Settle(IF h = "sent" THEN multicast_timeout(Taken(s, h))
         ELSE IF h = "due" THEN multicast_broadcast(Taken(s, h), text, outcome)
         ELSE Taken(s, h))

\* Does running h put a datagram on the wire?
Broadcasts(h) == h = "due"
=============================================================================
