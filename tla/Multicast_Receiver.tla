------------------------- MODULE Multicast_Receiver -------------------------
(***************************************************************************)
(* Multicast_Receiver.cpp: a UDP socket, one receive buffer and the thread *)
(* that runs the io_context.  A receive operation, once started, may be    *)
(* completed by the operating system at any time: the completion writes    *)
(* the buffer and queues a handler, and only a thread inside run() or      *)
(* run_one() calls the handler, which hands the buffer to the callback and *)
(* starts the next receive.                                                *)
(*                                                                         *)
(* The callbacks Registry and Service install read one announcement from   *)
(* the front of the buffer (Read below).                                   *)
(***************************************************************************)
EXTENDS Protocol

CONSTANTS
  Datagrams,          \* what peers send: a message of a class and the cells after
                      \* it [class, head, tail]
  Minimum,            \* the size multicast_receive inflates the buffer to (1024)
  Lengths,            \* the sizes buffer_legth may be given
  TruncationIsError,  \* does the platform refuse a datagram longer than the buffer?
  MaxArrivals,        \* bound: datagrams that reach the socket
  MaxReceives         \* bound: calls of receive() or async_receive()

ASSUME ReceiverAssumption ==
  /\ \A d \in Datagrams :
       d.class \in MessageClasses /\ d.head \in Message /\ d.tail \in Seq(Int)
  /\ Minimum \in Nat \ {0}
  /\ Lengths \subseteq Nat
  /\ TruncationIsError \in BOOLEAN
  /\ MaxArrivals \in Nat
  /\ MaxReceives \in Nat

VARIABLES
  blocking,     \* is the receiver used through receive() or async_receive()?
  socket,       \* "closed", "bound" to the port, or a "member" of the group too
  system_status,
  arrived,      \* the datagrams sent to the group, in order
  taken,        \* how many of them the operating system has handed over
  buffer,       \* the receive buffer
  outstanding,  \* receive operations started and not completed
  completed,    \* completions whose handler has not run: 0 is an error, n > 0
                \* the n-th datagram
  stopped,      \* io_context.stopped()
  runner,       \* the thread in run() or run_one()
  handling,     \* the datagram whose handler is running, 0 if none
  calls,        \* the streams the callback was given: [source, stream]
  receives,     \* calls of receive() or async_receive() so far
  alive         \* the receiver has not been destroyed

setup == <<blocking, socket, system_status>>
vars == <<setup, arrived, taken, buffer, outstanding, completed, stopped,
          runner, handling, calls, receives, alive>>

Wire(d) == Serialize(d.class, d.head) \o d.tail

-----------------------------------------------------------------------------

\* Seeded fault: the address of the group is tested like one that must parse.
multicast_setup_Silent(bindParses, groupParses) ==
  /\ socket = IF ~bindParses THEN "closed"
              ELSE IF groupParses THEN "member" ELSE "bound"
  /\ system_status = IF bindParses THEN Success ELSE PFC_IP_PARSE_ERROR

\* Neither address need parse; what else can go wrong here throws, and there is
\* no receiver.
multicast_setup(bindParses, groupParses) ==
  /\ socket = IF ~bindParses THEN "closed"
              ELSE IF groupParses THEN "member" ELSE "bound"
  /\ system_status =
       IF bindParses /\ groupParses THEN Success ELSE PFC_IP_PARSE_ERROR

is_valid == is_ok(system_status)

\* The owner decides once how it uses the receiver.
Init ==
  /\ blocking \in BOOLEAN
  /\ \E bindParses, groupParses \in BOOLEAN : multicast_setup(bindParses, groupParses)
  /\ arrived = <<>>
  /\ taken = 0
  /\ buffer = <<>>
  /\ outstanding = 0
  /\ completed = <<>>
  /\ stopped = FALSE
  /\ runner = "none"
  /\ handling = 0
  /\ calls = <<>>
  /\ receives = 0
  /\ alive = TRUE

(* buffer_legth may only be called while no operation points into it.      *)
buffer_legth(length) ==
  /\ alive /\ runner = "none" /\ outstanding = 0 /\ completed = <<>>
  /\ buffer' = [i \in 1..length |-> IF i <= Len(buffer) THEN buffer[i] ELSE 0]
  /\ UNCHANGED <<arrived, taken, outstanding, completed, stopped, runner,
                 handling, calls, receives, alive>>

multicast_receive ==
  /\ buffer' = IF Len(buffer) < Minimum
               THEN buffer \o Zeros(Minimum - Len(buffer)) ELSE buffer
  /\ outstanding' = outstanding + 1

receive ==
  /\ blocking
  /\ alive /\ runner = "none" /\ receives < MaxReceives
  /\ multicast_receive
  /\ receives' = receives + 1
  /\ runner' = "running"
  /\ UNCHANGED <<arrived, taken, completed, stopped, handling, calls, alive>>

\* Assigning the thread needs the old one joined.
async_receive ==
  /\ ~blocking
  /\ alive /\ runner \in {"none", "joined"} /\ receives < MaxReceives
  /\ multicast_receive
  /\ receives' = receives + 1
  /\ runner' = "running"
  /\ UNCHANGED <<arrived, taken, completed, stopped, handling, calls, alive>>

-----------------------------------------------------------------------------
(* The network and the operating system.                                   *)

Arrive(d) ==
  /\ Len(arrived) < MaxArrivals
  /\ arrived' = Append(arrived, d)
  /\ UNCHANGED <<taken, buffer, outstanding, completed, stopped, runner,
                 handling, calls, receives, alive>>

\* A completion overwrites the front of the buffer; what a longer datagram
\* left behind it stays.  A datagram that does not fit is cut, and on some
\* platforms reported as an error.
ReceiveCompletes ==
  /\ alive /\ outstanding > 0 /\ taken < Len(arrived) /\ socket = "member"
  /\ LET wire == Wire(arrived[taken + 1])
     IN /\ buffer' = [i \in 1..Len(buffer) |->
                        IF i <= Len(wire) THEN wire[i] ELSE buffer[i]]
        /\ completed' = Append(completed,
                               IF TruncationIsError /\ Len(wire) > Len(buffer)
                               THEN 0 ELSE taken + 1)
  /\ taken' = taken + 1
  /\ outstanding' = outstanding - 1
  /\ UNCHANGED <<arrived, stopped, runner, handling, calls, receives, alive>>

ReceiveFails ==
  /\ alive /\ outstanding > 0
  /\ completed' = Append(completed, 0)
  /\ outstanding' = outstanding - 1
  /\ UNCHANGED <<arrived, taken, buffer, stopped, runner, handling, calls,
                 receives, alive>>

-----------------------------------------------------------------------------
(* The thread inside the io_context.                                       *)

\* run_one() returns after one handler; run() goes on.
AfterHandler == IF blocking THEN "none" ELSE "running"

\* Seeded fault: the next receive is started before the callback reads the buffer.
HandlerStarts_RearmsFirst ==
  /\ runner = "running" /\ ~stopped /\ completed # <<>>
  /\ Head(completed) # 0
  /\ completed' = Tail(completed)
  /\ handling' = Head(completed)
  /\ runner' = "callback"
  /\ outstanding' = outstanding + 1
  /\ UNCHANGED <<arrived, taken, buffer, stopped, calls, receives, alive>>

HandlerStarts ==
  /\ runner = "running" /\ ~stopped /\ completed # <<>>
  /\ completed' = Tail(completed)
  /\ IF Head(completed) = 0
     THEN \* the chain ends; a context without work stops
          /\ stopped' = (outstanding = 0 /\ Tail(completed) = <<>>)
          /\ runner' = AfterHandler
          /\ UNCHANGED handling
     ELSE /\ handling' = Head(completed)
          /\ runner' = "callback"
          /\ UNCHANGED stopped
  /\ UNCHANGED <<arrived, taken, buffer, outstanding, calls, receives, alive>>

\* Seeded fault: the next receive is not started.
HandlerEnds_NoRearm ==
  /\ runner = "callback"
  /\ calls' = Append(calls, [source |-> handling, stream |-> buffer])
  /\ handling' = 0
  /\ runner' = "running"
  /\ UNCHANGED <<arrived, taken, buffer, outstanding, completed, stopped, receives, alive>>

HandlerEnds ==
  /\ runner = "callback"
  /\ calls' = Append(calls, [source |-> handling, stream |-> buffer])
  /\ multicast_receive
  /\ handling' = 0
  /\ runner' = AfterHandler
  /\ UNCHANGED <<arrived, taken, completed, stopped, receives, alive>>

\* Seeded fault: run() leaves only when no operation is outstanding.
RunReturns_Drains ==
  /\ runner = "running" /\ stopped
  /\ outstanding = 0 /\ completed = <<>>
  /\ runner' = IF blocking THEN "none" ELSE "finished"
  /\ UNCHANGED <<arrived, taken, buffer, outstanding, completed, stopped,
                 handling, calls, receives, alive>>

RunReturns ==
  /\ runner = "running" /\ stopped
  /\ runner' = IF blocking THEN "none" ELSE "finished"
  /\ UNCHANGED <<arrived, taken, buffer, outstanding, completed, stopped,
                 handling, calls, receives, alive>>

-----------------------------------------------------------------------------
(* The owner.  stop() may come from any thread.                            *)

stop ==
  /\ alive /\ ~stopped
  /\ stopped' = TRUE
  /\ UNCHANGED <<arrived, taken, buffer, outstanding, completed, runner,
                 handling, calls, receives, alive>>

join ==
  /\ alive /\ runner = "finished"
  /\ runner' = "joined"
  /\ UNCHANGED <<arrived, taken, buffer, outstanding, completed, stopped,
                 handling, calls, receives, alive>>

\* The destructor stops, joins and only then releases the buffer and the
\* socket; the operations still outstanding are abandoned with them.
Destroy ==
  /\ alive /\ stopped /\ runner \in {"none", "joined"}
  /\ alive' = FALSE
  /\ buffer' = <<>> /\ outstanding' = 0 /\ completed' = <<>>
  /\ UNCHANGED <<arrived, taken, stopped, runner, handling, calls, receives>>

Thread == HandlerStarts \/ HandlerEnds \/ RunReturns

Next ==
  /\ \/ \E n \in Lengths : buffer_legth(n)
     \/ receive
     \/ async_receive
     \/ \E d \in Datagrams : Arrive(d)
     \/ ReceiveCompletes
     \/ ReceiveFails
     \/ HandlerStarts
     \/ HandlerEnds
     \/ RunReturns
     \/ stop
     \/ join
     \/ Destroy
  /\ UNCHANGED setup

Spec == Init /\ [][Next]_vars

\* The scheduler runs a thread that can run, and the operating system
\* completes a receive when a datagram is there.
FairSpec ==
  /\ Spec
  /\ WF_vars(Thread /\ UNCHANGED setup)
  /\ WF_vars(ReceiveCompletes /\ UNCHANGED setup)

-----------------------------------------------------------------------------
(* Properties.                                                             *)

TypeOK ==
  /\ blocking \in BOOLEAN
  /\ socket \in {"closed", "bound", "member"}
  /\ system_status \in Error
  /\ arrived \in Seq(Datagrams)
  /\ taken \in 0..Len(arrived)
  /\ buffer \in Seq(Int)
  /\ outstanding \in 0..MaxReceives
  /\ completed \in Seq(0..taken)
  /\ stopped \in BOOLEAN
  /\ runner \in {"none", "running", "callback", "finished", "joined"}
  /\ handling \in 0..taken
  /\ calls \in Seq([source : 1..taken, stream : Seq(Int)])
  /\ receives \in 0..MaxReceives
  /\ alive \in BOOLEAN

\* While the callback of async_receive reads the buffer, the front of the
\* buffer is the datagram its handler completed with: nobody has written a
\* later one over it.
BufferIsTheHandlers ==
  (~blocking /\ runner = "callback") =>
    LET wire == Wire(arrived[handling])
    IN \A i \in 1..Least(Len(wire), Len(buffer)) : buffer[i] = wire[i]

\* A call is accepted or refused as a whole; an announcement the buffer can
\* hold is read as its sender wrote it, and of a longer one only the end of
\* the brief may be missing.
Accepted(m) == [accepted |-> TRUE, message |-> m]
Refused     == [accepted |-> FALSE, message |-> Fresh(pfc_service_announcement)]

CutBriefs(m) ==
  {[m EXCEPT !.brief = SubSeq(@, 1, n) \o Zeros(Len(@) - n)] : n \in 0..Len(m.brief)}

Hears(d) ==
  IF Len(Serialize(d.class, d.head)) <= Minimum THEN {Accepted(d.head)}
  ELSE {Refused} \cup {Accepted(m) : m \in CutBriefs(d.head)}

\* What the callback reads from the stream of its i-th call.
Read(i) == Deserialize(pfc_service_announcement, calls[i].stream)

Heard == [i \in 1..Len(calls) |->
            IF is_ok(Read(i).error) THEN Accepted(Read(i).message) ELSE Refused]

\* The intake is the background thread's; receive() makes no such promise.
Intake == INSTANCE Intake
  WITH arrived <- IF blocking THEN <<>> ELSE arrived,
       heard <- IF blocking THEN <<>> ELSE Heard,
       open <- blocking \/ ~stopped \/ runner = "callback"

\* async_receive implements the intake: every datagram once, in order, read
\* faithfully, and no call after stop() but the one already running.
IsAnIntake == Intake!Spec

\* Every receive() and every handler of the background thread hands on an
\* announcement some peer sent, or refuses.
HeardIsGenuine ==
  \A i \in 1..Len(calls) : \E n \in 1..taken : Heard[i] \in Hears(arrived[n])

\* stop() makes the background thread leave run(), which is what join() in
\* shutdown and in the destructors waits for.
StopEndsThread == stopped ~> (runner \notin {"running", "callback"})

\* A receiver that was set up without an error and started hears the next of the
\* datagrams that arrive, unless it was stopped or a receive failed: and then the
\* context has stopped.  It never says it is valid, stays up and is deaf.
NeverDeaf ==
  \A n \in 0..(MaxArrivals - 1) :
    (is_valid /\ receives > 0 /\ ~blocking /\ Len(calls) = n /\ Len(arrived) > n)
      ~> (Len(calls) > n \/ stopped)

-----------------------------------------------------------------------------
(* What the documentation says.                                            *)

\* Multicast_Receiver.cpp:186: receive() blocks until it has received one
\* message: the callback is given the datagram this call received.
ReceiveGivesItsMessage ==
  \A i \in 1..Len(calls) :
    Read(i).message = arrived[calls[i].source].head
=============================================================================
