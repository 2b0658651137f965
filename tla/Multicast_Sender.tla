-------------------------- MODULE Multicast_Sender --------------------------
(***************************************************************************)
(* Multicast_Sender.cpp: async_send starts a chain of broadcasts that a    *)
(* background thread keeps going; send makes one broadcast and then runs   *)
(* one handler of the io_context in the calling thread.                    *)
(***************************************************************************)
EXTENDS SenderImplementation, Errors

CONSTANT MaxCalls   \* bound: calls of send() or async_send()

ASSUME UsageAssumption == MaxCalls \in Nat

VARIABLES
  blocking,   \* is the sender used through send() or async_send()?
  socket,     \* "open", or "closed" when its setup went wrong
  system_status,
  sender,     \* what the Implementation holds of messages and handlers
  thread,     \* the background thread, or the caller of send in run_one()
  calls,      \* calls of send() or async_send(); a text is the number of the
              \* call whose message function wrote it
  emitted,    \* the datagrams put on the wire
  failures,   \* handlers that were told that a send failed
  stopping,   \* stop() has been called
  alive

setup == <<blocking, socket, system_status>>
vars == <<setup, sender, thread, calls, emitted, failures, stopping, alive>>

\* The address of the group may not parse; the socket is not opened then.
multicast_setup(parses) ==
  /\ socket = IF parses THEN "open" ELSE "closed"
  /\ system_status = IF parses THEN Success ELSE PFC_IP_PARSE_ERROR

is_valid == is_ok(system_status)

\* The owner decides once how it uses the sender.
Init ==
  /\ blocking \in BOOLEAN
  /\ \E parses \in BOOLEAN : multicast_setup(parses)
  /\ sender = NewSender
  /\ thread = "none"
  /\ calls = 0
  /\ emitted = <<>>
  /\ failures = 0
  /\ stopping = FALSE
  /\ alive = TRUE

\* A socket that was never opened refuses every datagram.
OutcomesOn(text) == IF socket = "open" THEN Outcomes(sender, text) ELSE {"failed"}

Emit(s, outcome) ==
  emitted' = IF outcome = "sent" THEN Append(emitted, s.buffer) ELSE emitted

\* Both calls install the message function and broadcast in the caller's
\* thread before anything runs the io_context.
Call ==
  /\ alive /\ calls < MaxCalls
  /\ calls' = calls + 1
  /\ \E outcome \in OutcomesOn(<<calls'>>) :
       /\ sender' = multicast_broadcast(sender, <<calls'>>, outcome)
       /\ Emit(sender', outcome)
  /\ thread' = "running"
  /\ UNCHANGED <<failures, stopping, alive>>

send == blocking /\ thread = "none" /\ Call

async_send == ~blocking /\ thread \in {"none", "joined"} /\ Call

-----------------------------------------------------------------------------

Returned == IF blocking THEN "none" ELSE "finished"

\* run_one() returns after one handler, run() goes on.
AfterHandler == IF blocking THEN "none" ELSE "running"

Handle(h) ==
  /\ thread = "running" /\ ~sender.stopped /\ sender.ready[h] > 0
  /\ IF Broadcasts(h)
     THEN \E outcome \in OutcomesOn(<<calls>>) :
            /\ sender' = RunHandler(sender, h, <<calls>>, outcome)
            /\ Emit(sender', outcome)
     ELSE /\ sender' = RunHandler(sender, h, <<>>, "sent")
          /\ UNCHANGED emitted
  /\ failures' = IF h = "failed" THEN failures + 1 ELSE failures
  /\ thread' = AfterHandler
  /\ UNCHANGED <<calls, stopping, alive>>

\* Seeded fault: run() returns only when nothing is outstanding.
RunReturns_Drains ==
  /\ thread = "running" /\ sender.stopped /\ Outstanding(sender) = 0
  /\ thread' = Returned
  /\ UNCHANGED <<sender, calls, emitted, failures, stopping, alive>>

\* A stopped context calls no more handlers; run_one() returns at once.
RunReturns ==
  /\ thread = "running" /\ sender.stopped
  /\ thread' = Returned
  /\ UNCHANGED <<sender, calls, emitted, failures, stopping, alive>>

Timer ==
  /\ alive /\ sender.armed = 1
  /\ sender' = TimerExpires(sender)
  /\ UNCHANGED <<thread, calls, emitted, failures, stopping, alive>>

-----------------------------------------------------------------------------

stop ==
  /\ alive /\ ~stopping
  /\ sender' = [sender EXCEPT !.stopped = TRUE]
  /\ stopping' = TRUE
  /\ UNCHANGED <<thread, calls, emitted, failures, alive>>

join ==
  /\ alive /\ thread = "finished"
  /\ thread' = "joined"
  /\ UNCHANGED <<sender, calls, emitted, failures, stopping, alive>>

\* The destructor stops and joins before the implementation goes.
Destroy ==
  /\ alive /\ stopping /\ thread \in {"none", "joined"}
  /\ alive' = FALSE
  /\ UNCHANGED <<sender, thread, calls, emitted, failures, stopping>>

Thread == (\E h \in Handlers : Handle(h)) \/ RunReturns

Next ==
  /\ \/ send
     \/ async_send
     \/ \E h \in Handlers : Handle(h)
     \/ RunReturns
     \/ Timer
     \/ stop
     \/ join
     \/ Destroy
  /\ UNCHANGED setup

Spec == Init /\ [][Next]_vars

\* The scheduler runs a thread that can run; time passes.
FairSpec ==
  /\ Spec
  /\ WF_vars(Thread /\ UNCHANGED setup)
  /\ WF_vars(Timer /\ UNCHANGED setup)

-----------------------------------------------------------------------------
(* Properties.                                                             *)

TypeOK ==
  /\ blocking \in BOOLEAN
  /\ socket \in {"open", "closed"} /\ system_status \in Error
  /\ sender \in Sender(1..MaxCalls)
  /\ thread \in {"none", "running", "finished", "joined"}
  /\ calls \in 0..MaxCalls
  /\ emitted \in Seq(Seq(1..MaxCalls))
  /\ failures \in Nat
  /\ stopping \in BOOLEAN
  /\ alive \in BOOLEAN

\* The chain broadcast - timeout - broadcast never forks: whatever the order
\* of the handlers, the context holds at most one operation per call of send
\* or async_send.
ChainNeverForks == Outstanding(sender) <= calls

\* A sender whose thread runs has work: run() is left only because stop() was
\* called or a datagram was refused.
StopsForAReason == sender.stopped => stopping \/ failures > 0

HasWork == (calls > 0 /\ ~sender.stopped) => Outstanding(sender) > 0

\* Every datagram repeats the one before it and adds what was written since:
\* a receiver that reads the front of a datagram reads the first text ever.
DatagramsGrow ==
  \A i \in 2..Len(emitted) :
    /\ Len(emitted[i - 1]) <= Len(emitted[i])
    /\ SubSeq(emitted[i], 1, Len(emitted[i - 1])) = emitted[i - 1]

\* stop() makes the thread leave run(): join() and the destructor return.
StopEndsThread == sender.stopped ~> thread # "running"

\* send() returns: run_one() always finds a handler that is ready, or a
\* context that has stopped.
SendReturns == (blocking /\ thread = "running") ~> thread = "none"

\* Once started in the background, a sender announces again and again, as long
\* as its datagrams fit and none is refused.
AnnouncesWhileItFits ==
  \A n \in 0..(MaxDatagram - 1) :
    (calls > 0 /\ ~blocking /\ Len(emitted) = n)
      ~> (Len(emitted) > n \/ stopping \/ failures > 0)

-----------------------------------------------------------------------------
(* What the documentation says.                                            *)

\* Service.cpp:43: the sender periodically announces the service: one that is
\* valid, was started and that nobody stops sends yet another datagram.
AnnouncesPeriodically ==
  \A n \in 1..(MaxDatagram + 1) :
    (is_valid /\ calls > 0 /\ ~blocking) ~> (Len(emitted) >= n \/ stopping)
=============================================================================
