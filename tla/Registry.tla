------------------------------ MODULE Registry ------------------------------
(***************************************************************************)
(* registry_server/cpp/Registry.cpp.  One thread belongs to the registry:  *)
(* the one of subscription_listiner, which hears announcements one at a    *)
(* time (module Intake), records each and sends it on through              *)
(* service_broadcaster before it hears the next.  The thread that owns the *)
(* registry starts it, shuts it down on a signal and destroys it.          *)
(***************************************************************************)
EXTENDS SenderImplementation

CONSTANTS
  Announcements,  \* pfc_service_announcement: address, port, and the rest as text
  Malformed,      \* a datagram that does not deserialize
  MaxArrivals     \* bound: datagrams the listiner hears

ASSUME RegistryAssumption ==
  /\ \A m \in Announcements : {"address", "port", "text"} \subseteq DOMAIN m
  /\ Malformed \notin Announcements
  /\ MaxArrivals \in Nat

VARIABLES
  arrived,              \* what reached the listiner's socket
  heard,                \* how many of those the listiner was told of
  message,              \* the announcement in process_subscription_message
  listiner,             \* where the thread of subscription_listiner is
  listiner_stopped,     \* subscription_listiner's io_context.stopped()
  services,             \* the table: key -> announcement
  pending_broadcast,    \* the queue of keys to send on
  service_broadcaster,  \* the Implementation of the Multicast_Sender
  owner,                \* where the owning thread is
  accepted,             \* history: the announcements recorded, in order
  relayed,              \* history: the texts of the longest datagram sent
  read_first            \* history: what stood first in the datagrams sent

table     == <<services, pending_broadcast>>
intake    == <<arrived, heard, message>>
histories == <<accepted, relayed, read_first>>
vars == <<intake, listiner, listiner_stopped, table, service_broadcaster, owner,
          histories>>

Key(m) == <<m.address, m.port>>

NoMessage == Malformed

-----------------------------------------------------------------------------

Init ==
  /\ arrived = <<>>
  /\ heard = 0
  /\ message = NoMessage
  /\ listiner = "none"
  /\ listiner_stopped = FALSE
  /\ services = [k \in {} |-> NoMessage]
  /\ pending_broadcast = <<>>
  /\ service_broadcaster = NewSender
  /\ owner = "constructed"
  /\ accepted = <<>>
  /\ relayed = <<>>
  /\ read_first = {}

Arrive(m) ==
  /\ Len(arrived) < MaxArrivals
  /\ arrived' = Append(arrived, m)
  /\ UNCHANGED <<heard, message, listiner, listiner_stopped, table,
                 service_broadcaster, owner, histories>>

-----------------------------------------------------------------------------
(* The thread of subscription_listiner.                                    *)

\* Seeded fault: the listiner receives once.
Hear_OneShot ==
  /\ listiner = "waiting" /\ ~listiner_stopped /\ heard = 0 /\ arrived # <<>>
  /\ heard' = heard + 1
  /\ message' = arrived[heard + 1]
  /\ listiner' = IF message' = Malformed THEN "waiting" ELSE "recording"
  /\ UNCHANGED <<arrived, listiner_stopped, table, service_broadcaster, owner,
                 histories>>

Hear ==
  /\ listiner = "waiting" /\ ~listiner_stopped /\ heard < Len(arrived)
  /\ heard' = heard + 1
  /\ message' = arrived[heard + 1]
  /\ listiner' = IF message' = Malformed THEN "waiting" ELSE "recording"
  /\ UNCHANGED <<arrived, listiner_stopped, table, service_broadcaster, owner,
                 histories>>

\* Seeded fault: an announcement of a known service is not queued again.
Record_KnownIsSilent ==
  /\ listiner = "recording"
  /\ services' = [k \in DOMAIN services \cup {Key(message)} |->
                    IF k = Key(message) THEN message ELSE services[k]]
  /\ pending_broadcast' =
       IF Key(message) \in DOMAIN services THEN pending_broadcast
       ELSE Append(pending_broadcast, Key(message))
  /\ accepted' = Append(accepted, message)
  /\ listiner' = "sending"
  /\ UNCHANGED <<intake, listiner_stopped, service_broadcaster, owner, relayed,
                 read_first>>

\* Seeded fault: insert() instead of operator[]: the first announcement stays.
Record_KeepsFirst ==
  /\ listiner = "recording"
  /\ services' = [k \in DOMAIN services \cup {Key(message)} |->
                    IF k \in DOMAIN services THEN services[k] ELSE message]
  /\ pending_broadcast' = Append(pending_broadcast, Key(message))
  /\ accepted' = Append(accepted, message)
  /\ listiner' = "sending"
  /\ UNCHANGED <<intake, listiner_stopped, service_broadcaster, owner, relayed,
                 read_first>>

\* The critical section of process_subscription_message.
Record ==
  /\ listiner = "recording"
  /\ services' = [k \in DOMAIN services \cup {Key(message)} |->
                    IF k = Key(message) THEN message ELSE services[k]]
  /\ pending_broadcast' = Append(pending_broadcast, Key(message))
  /\ accepted' = Append(accepted, message)
  /\ listiner' = "sending"
  /\ UNCHANGED <<intake, listiner_stopped, service_broadcaster, owner, relayed,
                 read_first>>

\* What broadcast_service_subscription writes, and what it leaves queued.
SubscriptionText ==
  IF pending_broadcast = <<>> THEN <<>> ELSE <<services[Head(pending_broadcast)]>>

\* Seeded fault: the key that was sent stays in the queue.
PendingAfter_NoPop == pending_broadcast

PendingAfter ==
  IF pending_broadcast = <<>> THEN <<>> ELSE Tail(pending_broadcast)

\* What a datagram that left shows: its texts, and the one read from it.
OnTheWire(outcome) ==
  IF outcome = "sent"
  THEN /\ relayed' = service_broadcaster'.buffer
       /\ read_first' = read_first \cup {Head(service_broadcaster'.buffer)}
  ELSE UNCHANGED <<relayed, read_first>>

\* service_broadcaster.send, first half: a stopped context does not keep the
\* datagram from leaving.
Send ==
  /\ listiner = "sending"
  /\ \E outcome \in Outcomes(service_broadcaster, SubscriptionText) :
       /\ service_broadcaster' =
            multicast_broadcast(service_broadcaster, SubscriptionText, outcome)
       /\ OnTheWire(outcome)
  /\ pending_broadcast' = PendingAfter
  /\ listiner' = "run_one"
  /\ UNCHANGED <<intake, listiner_stopped, services, owner, accepted>>

\* Second half: one handler of the broadcaster runs, perhaps one an earlier
\* send left behind, and then the listiner waits again.
RunOne(h) ==
  /\ listiner = "run_one"
  /\ ~service_broadcaster.stopped /\ service_broadcaster.ready[h] > 0
  /\ IF Broadcasts(h)
     THEN /\ \E outcome \in Outcomes(service_broadcaster, SubscriptionText) :
               /\ service_broadcaster' =
                    RunHandler(service_broadcaster, h, SubscriptionText, outcome)
               /\ OnTheWire(outcome)
          /\ pending_broadcast' = PendingAfter
     ELSE /\ service_broadcaster' = RunHandler(service_broadcaster, h, <<>>, "sent")
          /\ UNCHANGED <<pending_broadcast, relayed, read_first>>
  /\ listiner' = "waiting"
  /\ UNCHANGED <<intake, listiner_stopped, services, owner, accepted>>

RunOneReturns ==
  /\ listiner = "run_one" /\ service_broadcaster.stopped
  /\ listiner' = "waiting"
  /\ UNCHANGED <<intake, listiner_stopped, table, service_broadcaster, owner,
                 histories>>

\* A receive failed: the listiner's context has no work left.
ReceiveFails ==
  /\ listiner = "waiting" /\ ~listiner_stopped
  /\ listiner_stopped' = TRUE
  /\ UNCHANGED <<intake, listiner, table, service_broadcaster, owner, histories>>

\* Seeded fault: the thread leaves only when nothing more has arrived.
ListinerReturns_Drains ==
  /\ listiner = "waiting" /\ listiner_stopped /\ heard = Len(arrived)
  /\ listiner' = "finished"
  /\ UNCHANGED <<intake, listiner_stopped, table, service_broadcaster, owner,
                 histories>>

ListinerReturns ==
  /\ listiner = "waiting" /\ listiner_stopped
  /\ listiner' = "finished"
  /\ UNCHANGED <<intake, listiner_stopped, table, service_broadcaster, owner,
                 histories>>

\* The broadcaster's timer; nobody runs its handler until the next send.
Timer ==
  /\ owner # "destroyed" /\ service_broadcaster.armed = 1
  /\ service_broadcaster' = TimerExpires(service_broadcaster)
  /\ UNCHANGED <<intake, listiner, listiner_stopped, table, owner, histories>>

-----------------------------------------------------------------------------
(* The owner: registry_client_main.cpp and the shutdown it calls.          *)

Owner(from, to) == owner = from /\ owner' = to

start ==
  /\ Owner("constructed", "serving")
  /\ listiner' = "waiting"
  /\ UNCHANGED <<intake, listiner_stopped, table, service_broadcaster, histories>>

\* shutdown(): stop the listiner, stop the broadcaster, join the listiner.
\* The broadcaster was never started in a thread: its join returns at once.
StopListiner ==
  /\ Owner("serving", "stopping")
  /\ listiner_stopped' = TRUE
  /\ UNCHANGED <<intake, listiner, table, service_broadcaster, histories>>

\* wait() of a thread that calls shutdown() itself returns only when the listiner
\* has ended by an error; the join of the broadcaster returns at once.
wait ==
  /\ owner = "serving" /\ listiner = "finished"
  /\ listiner' = "joined"
  /\ UNCHANGED <<intake, listiner_stopped, table, service_broadcaster, owner, histories>>

StopBroadcaster ==
  /\ Owner("stopping", "joining")
  /\ service_broadcaster' = [service_broadcaster EXCEPT !.stopped = TRUE]
  /\ UNCHANGED <<intake, listiner, listiner_stopped, table, histories>>

\* Seeded fault: shutdown does not wait for the listiner's thread.
JoinListiner_Skips ==
  /\ Owner("joining", "down")
  /\ UNCHANGED <<intake, listiner, listiner_stopped, table, service_broadcaster,
                 histories>>

JoinListiner ==
  /\ listiner \in {"finished", "joined"} /\ Owner("joining", "down")
  /\ listiner' = "joined"
  /\ UNCHANGED <<intake, listiner_stopped, table, service_broadcaster, histories>>

\* The destructor takes the queue and the table before the listiner.
Destroy ==
  /\ Owner("down", "destroyed")
  /\ UNCHANGED <<intake, listiner, listiner_stopped, table, service_broadcaster,
                 histories>>

Listiner ==
  \/ Hear \/ Record \/ Send
  \/ \E h \in Handlers : RunOne(h)
  \/ RunOneReturns \/ ListinerReturns

Shutdown == StopBroadcaster \/ JoinListiner

Next ==
  \/ \E m \in Announcements \cup {Malformed} : Arrive(m)
  \/ Hear
  \/ Record
  \/ Send
  \/ \E h \in Handlers : RunOne(h)
  \/ RunOneReturns
  \/ ReceiveFails
  \/ ListinerReturns
  \/ Timer
  \/ start
  \/ StopListiner
  \/ wait
  \/ StopBroadcaster
  \/ JoinListiner
  \/ Destroy

Spec == Init /\ [][Next]_vars

\* The scheduler runs the two threads; the signal need never come.
FairSpec == Spec /\ WF_vars(Listiner) /\ WF_vars(start) /\ WF_vars(Shutdown)

-----------------------------------------------------------------------------
(* Properties.                                                             *)

Keys == {Key(m) : m \in Announcements}

TypeOK ==
  /\ arrived \in Seq(Announcements \cup {Malformed})
  /\ heard \in 0..Len(arrived)
  /\ message \in Announcements \cup {Malformed}
  /\ listiner \in {"none", "waiting", "recording", "sending", "run_one",
                   "finished", "joined"}
  /\ listiner_stopped \in BOOLEAN
  /\ DOMAIN services \subseteq Keys
  /\ services \in [DOMAIN services -> Announcements]
  /\ pending_broadcast \in Seq(Keys)
  /\ service_broadcaster \in Sender(Announcements)
  /\ owner \in {"constructed", "serving", "stopping", "joining", "down",
                "destroyed"}
  /\ accepted \in Seq(Announcements)
  /\ relayed \in Seq(Announcements)
  /\ read_first \subseteq Announcements

\* pending_broadcast holds a key only between the critical section and the
\* broadcast that follows it, and it is the key of the announcement in hand:
\* a timer handler that run_one() happens to run finds nothing to take.
OneKeyPending ==
  pending_broadcast = IF listiner = "sending" THEN <<Key(message)>> ELSE <<>>

\* What goes out is what came in: the broadcaster has written every recorded
\* announcement once, in the order of recording, with the text it had then.
RelayLog ==
  accepted = service_broadcaster.buffer \o
               (IF listiner = "sending" THEN <<message>> ELSE <<>>)

\* The datagrams that were heard, could be read and have been recorded.
Recorded ==
  {i \in 1..heard : arrived[i] # Malformed /\ ~(listiner = "recording" /\ i = heard)}

\* The table holds the latest announcement heard under each key, and nothing
\* else: none that was heard is skipped, recorded late or ever removed.
TableShowsLatestHeard ==
  /\ DOMAIN services = {Key(arrived[i]) : i \in Recorded}
  /\ \A i \in Recorded :
       (\A j \in Recorded : j > i => Key(arrived[j]) # Key(arrived[i]))
         => services[Key(arrived[i])] = arrived[i]

\* Who reads the front of the registry's datagrams always reads the first
\* announcement the registry ever recorded.
OneFront == \A m \in read_first : m = accepted[1]

\* Once shutdown() has returned, no thread is left that could touch the queue,
\* the table or the broadcaster, which the destructor frees before it joins.
NoUseAfterShutdown == owner \in {"down", "destroyed"} => listiner = "joined"

\* shutdown() returns, whatever the listiner was doing when it was called.
ShutdownReturns == owner = "stopping" ~> owner \in {"down", "destroyed"}

\* While the network takes the datagrams, every recorded announcement leaves,
\* even one that is being processed when shutdown() stops the broadcaster.
RelayedWhileItFits ==
  \A n \in 1..MaxDatagram : (Len(accepted) >= n) ~> (Len(relayed) >= n)

\* A serving registry hears what arrives, one datagram after the other, until its
\* listiner is stopped.
HearsWhatArrives ==
  \A n \in 0..(MaxArrivals - 1) :
    (heard = n /\ Len(arrived) > n /\ owner = "serving") ~> (heard > n \/ listiner_stopped)

-----------------------------------------------------------------------------
(* What the documentation says.                                            *)

\* Protocol.cpp:31: an announcement is echoed to all other services, which
\* read one announcement from the front of each datagram.
EchoedToAll ==
  \A m \in Announcements :
    (\E i \in 1..Len(accepted) : accepted[i] = m) ~> (m \in read_first)
=============================================================================
