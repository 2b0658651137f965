--------------------------- MODULE Registry_proofs ---------------------------
(***************************************************************************)
(* The safety properties of the registry, for every set of announcements,  *)
(* every datagram limit and every number of arrivals.                      *)
(*                                                                         *)
(* TypeOK alone is not inductive: that services[Head(pending_broadcast)]   *)
(* is an announcement rests on the key being in the table, which rests on  *)
(* LatestWins and RelayLog, and these on one another.  IInv adds what the  *)
(* listiner's thread knows at each point of its loop.                      *)
(*                                                                         *)
(* Why shutdown() returns: the thread waits for nothing but a datagram,    *)
(* since the broadcaster has work whenever run_one() is called (HasSent).  *)
(***************************************************************************)
EXTENDS Registry, SenderImplementation_proofs

\* The table maps each key to the announcement recorded last under it.
LatestWins ==
  /\ DOMAIN services = {Key(accepted[i]) : i \in 1..Len(accepted)}
  /\ \A i \in 1..Len(accepted) :
       (\A j \in (i + 1)..Len(accepted) : Key(accepted[j]) # Key(accepted[i]))
         => services[Key(accepted[i])] = accepted[i]

HasMessage == listiner \in {"recording", "sending"} => message \in Announcements

NotStarted == owner = "constructed" => listiner = "none"

HasSent == listiner = "run_one" => service_broadcaster.buffer # <<>>

FrontIsRecorded == read_first # {} => accepted # <<>>

IInv ==
  /\ TypeOK
  /\ OneKeyPending
  /\ RelayLog
  /\ LatestWins
  /\ OneFront
  /\ NoUseAfterShutdown
  /\ NotStarted
  /\ HasMessage
  /\ HasSent
  /\ FrontIsRecorded

-----------------------------------------------------------------------------

\* Between the critical section and the broadcast, the text that will be
\* written is the announcement in hand.
LEMMA TextInHand ==
  ASSUME IInv, listiner = "sending"
  PROVE  /\ SubscriptionText = <<message>>
         /\ PendingAfter = <<>>
         /\ message \in Announcements
<1> DEFINE sent == service_broadcaster.buffer
<1>1. sent \in Seq(Announcements) /\ message \in Announcements
  BY DEF IInv, TypeOK, Sender, HasMessage
<1>2. accepted = sent \o <<message>>
  BY DEF IInv, RelayLog
<1> DEFINE n == Len(sent) + 1
<1>3. n \in 1..Len(accepted) /\ Len(accepted) = n /\ accepted[n] = message
  BY <1>1, <1>2
<1> HIDE DEF sent, n
<1>4. services[Key(message)] = message
  <2>1. \A j \in (n + 1)..Len(accepted) : Key(accepted[j]) # Key(accepted[n])
    BY <1>3
  <2> QED BY <1>3, <2>1 DEF IInv, LatestWins
<1>5. pending_broadcast = <<Key(message)>>
  BY DEF IInv, OneKeyPending
<1> QED BY <1>1, <1>4, <1>5 DEF SubscriptionText, PendingAfter

\* Elsewhere there is nothing to write.
LEMMA NoText ==
  ASSUME IInv, listiner # "sending"
  PROVE  SubscriptionText = <<>> /\ PendingAfter = <<>>
BY DEF IInv, OneKeyPending, SubscriptionText, PendingAfter

\* A send writes the announcement in hand, once.
LEMMA SendEffect ==
  ASSUME IInv, Send
  PROVE  /\ service_broadcaster' \in Sender(Announcements)
         /\ service_broadcaster'.buffer = accepted
         /\ accepted \in Seq(Announcements) /\ accepted # <<>>
         /\ pending_broadcast' = <<>>
         /\ \/ relayed' = accepted /\ read_first' = read_first \cup {accepted[1]}
            \/ UNCHANGED <<relayed, read_first>>
<1>1. /\ SubscriptionText = <<message>> /\ PendingAfter = <<>>
      /\ message \in Announcements /\ listiner = "sending"
  BY TextInHand DEF Send
<1>2. service_broadcaster \in Sender(Announcements)
  BY DEF IInv, TypeOK
<1>3. PICK outcome \in Outcomes(service_broadcaster, SubscriptionText) :
        /\ service_broadcaster' =
             multicast_broadcast(service_broadcaster, SubscriptionText, outcome)
        /\ OnTheWire(outcome)
  BY DEF Send
<1>4. outcome \in Handlers
  BY <1>3, OutcomesAreHandlers DEF Handlers
<1>5. /\ service_broadcaster' \in Sender(Announcements)
      /\ service_broadcaster'.buffer = service_broadcaster.buffer \o <<message>>
  <2>1. <<message>> \in Seq(Announcements)
    BY <1>1
  <2> QED BY <1>1, <1>2, <1>3, <1>4, <2>1, BroadcastEffect
<1>6. /\ accepted = service_broadcaster.buffer \o <<message>>
      /\ service_broadcaster.buffer \in Seq(Announcements)
  BY <1>1, <1>2 DEF IInv, RelayLog, Sender
<1>7. accepted \in Seq(Announcements) /\ accepted # <<>>
  BY <1>1, <1>6
<1>8. Head(accepted) = accepted[1]
  BY <1>7
<1> QED BY <1>1, <1>3, <1>5, <1>6, <1>7, <1>8 DEF Send, OnTheWire

\* run_one() leaves the buffer as it was, whatever handler it runs.
LEMMA RunOneEffect ==
  ASSUME IInv, NEW h \in Handlers, RunOne(h)
  PROVE  /\ service_broadcaster' \in Sender(Announcements)
         /\ service_broadcaster'.buffer = service_broadcaster.buffer
         /\ accepted = service_broadcaster.buffer
         /\ accepted \in Seq(Announcements) /\ accepted # <<>>
         /\ pending_broadcast' = <<>>
         /\ \/ relayed' = accepted /\ read_first' = read_first \cup {accepted[1]}
            \/ UNCHANGED <<relayed, read_first>>
<1>1. listiner = "run_one" /\ service_broadcaster.ready[h] > 0
  BY DEF RunOne
<1>2. SubscriptionText = <<>> /\ PendingAfter = <<>> /\ pending_broadcast = <<>>
  BY <1>1, NoText DEF IInv, OneKeyPending
<1>3. /\ service_broadcaster \in Sender(Announcements)
      /\ service_broadcaster.buffer \in Seq(Announcements)
      /\ service_broadcaster.buffer # <<>>
  BY <1>1 DEF IInv, TypeOK, HasSent, Sender
<1>4. accepted = service_broadcaster.buffer
  BY <1>1, <1>3 DEF IInv, RelayLog
<1>5. Head(accepted) = accepted[1]
  BY <1>3, <1>4
<1>6. CASE Broadcasts(h)
  <2>1. PICK outcome \in Outcomes(service_broadcaster, <<>>) :
          /\ service_broadcaster' = RunHandler(service_broadcaster, h, <<>>, outcome)
          /\ OnTheWire(outcome)
    BY <1>2, <1>6 DEF RunOne
  <2>2. outcome \in Handlers
    BY <2>1, OutcomesAreHandlers DEF Handlers
  <2>3. /\ service_broadcaster' \in Sender(Announcements)
        /\ service_broadcaster'.buffer = service_broadcaster.buffer
    BY <1>1, <1>3, <2>1, <2>2, NothingWritten
  <2>4. pending_broadcast' = <<>>
    BY <1>2, <1>6 DEF RunOne
  <2> QED BY <1>3, <1>4, <1>5, <2>1, <2>3, <2>4 DEF OnTheWire
<1>7. CASE ~Broadcasts(h)
  <2>1. /\ service_broadcaster' = RunHandler(service_broadcaster, h, <<>>, "sent")
        /\ UNCHANGED <<pending_broadcast, relayed, read_first>>
    BY <1>7 DEF RunOne
  <2>2. /\ service_broadcaster' \in Sender(Announcements)
        /\ service_broadcaster'.buffer = service_broadcaster.buffer
    <3>1. "sent" \in Handlers
      BY DEF Handlers
    <3> QED BY <1>1, <1>3, <2>1, <3>1, NothingWritten
  <2> QED BY <1>2, <1>3, <1>4, <2>1, <2>2
<1> QED BY <1>6, <1>7

-----------------------------------------------------------------------------

LEMMA Initially == Init => IInv
<1> SUFFICES ASSUME Init PROVE IInv
  OBVIOUS
<1>1. TypeOK
  <2>1. service_broadcaster \in Sender(Announcements)
    BY NewSenderType DEF Init
  <2>2. services \in [{} -> Announcements] /\ DOMAIN services = {}
    BY DEF Init
  <2>3. arrived \in Seq(Announcements \cup {Malformed}) /\ heard \in 0..Len(arrived)
    BY DEF Init
  <2>4. /\ pending_broadcast \in Seq(Keys)
        /\ accepted \in Seq(Announcements) /\ relayed \in Seq(Announcements)
    BY DEF Init
  <2>5. DOMAIN services \subseteq Keys /\ services \in [DOMAIN services -> Announcements]
    BY <2>2
  <2>6. /\ message \in Announcements \cup {Malformed}
        /\ read_first \subseteq Announcements
    BY DEF Init, NoMessage
  <2> QED BY <2>1, <2>3, <2>4, <2>5, <2>6 DEF Init, TypeOK
<1>2. OneKeyPending /\ RelayLog /\ LatestWins
  BY DEF Init, OneKeyPending, RelayLog, LatestWins, NewSender
<1>3. /\ OneFront /\ NoUseAfterShutdown /\ NotStarted
      /\ HasMessage /\ HasSent /\ FrontIsRecorded
  BY DEF Init, OneFront, NoUseAfterShutdown, NotStarted, HasMessage, HasSent,
         FrontIsRecorded
<1> QED BY <1>1, <1>2, <1>3 DEF IInv

\* A step that disturbs none of the facts about the log: it leaves the table,
\* the histories and the buffer alone, and if it moves the listiner at all, it
\* neither leaves nor enters the send.
LogKept ==
  /\ UNCHANGED <<table, histories, service_broadcaster.buffer>>
  /\ \/ listiner' = listiner /\ message' = message
     \/ /\ listiner # "sending"
        /\ listiner' \notin {"sending", "run_one"}
        /\ listiner' = "recording" => message' \in Announcements

LEMMA LogStays ==
  ASSUME IInv, LogKept
  PROVE  (OneKeyPending /\ RelayLog /\ LatestWins /\ OneFront /\ HasMessage
            /\ HasSent /\ FrontIsRecorded)'
<1>1. (OneKeyPending /\ RelayLog)'
  BY DEF IInv, LogKept, table, histories, OneKeyPending, RelayLog
<1>2. (LatestWins /\ OneFront)'
  BY DEF IInv, LogKept, table, histories, LatestWins, OneFront
<1>3. (HasMessage /\ HasSent /\ FrontIsRecorded)'
  BY DEF IInv, LogKept, histories, HasMessage, HasSent, FrontIsRecorded
<1> QED BY <1>1, <1>2, <1>3

LEMMA RecordStep == IInv /\ Record => IInv'
<1> SUFFICES ASSUME IInv, Record PROVE IInv'
  OBVIOUS
<1> DEFINE k0 == Key(message)
           n == Len(accepted)
<1>1. /\ message \in Announcements /\ accepted \in Seq(Announcements)
      /\ listiner = "recording" /\ listiner' = "sending" /\ message' = message
  BY DEF IInv, TypeOK, HasMessage, Record, intake
<1>2. /\ accepted' = Append(accepted, message) /\ accepted' \in Seq(Announcements)
      /\ Len(accepted') = n + 1 /\ accepted'[n + 1] = message
      /\ \A i \in 1..n : accepted'[i] = accepted[i]
      /\ n \in Nat
  BY <1>1 DEF Record
<1>3. /\ DOMAIN services' = DOMAIN services \cup {k0}
      /\ services'[k0] = message
      /\ \A k \in DOMAIN services : k # k0 => services'[k] = services[k]
  BY DEF Record
<1> HIDE DEF n, k0
<1>4. TypeOK'
  <2>1. k0 \in Keys
    BY <1>1 DEF Keys, k0
  <2>2. /\ DOMAIN services' \subseteq Keys
        /\ services' \in [DOMAIN services' -> Announcements]
    BY <1>1, <2>1 DEF IInv, TypeOK, Record, k0
  <2>3. pending_broadcast' \in Seq(Keys)
    BY <2>1 DEF IInv, TypeOK, Record, k0
  <2> QED BY <1>1, <1>2, <2>2, <2>3 DEF IInv, TypeOK, Record, intake
<1>5. OneKeyPending'
  BY <1>1 DEF IInv, OneKeyPending, Record
<1>6. RelayLog'
  <2>1. /\ accepted = service_broadcaster.buffer \o <<>>
        /\ service_broadcaster.buffer \in Seq(Announcements)
    BY <1>1 DEF IInv, TypeOK, RelayLog, Sender
  <2> QED BY <1>1, <2>1 DEF RelayLog, Record
<1>7. LatestWins'
  <2>1. DOMAIN services' = {Key(accepted'[i]) : i \in 1..Len(accepted')}
    BY <1>2, <1>3 DEF IInv, LatestWins, k0
  <2>2. ASSUME NEW i \in 1..Len(accepted'),
               \A j \in (i + 1)..Len(accepted') : Key(accepted'[j]) # Key(accepted'[i])
        PROVE  services'[Key(accepted'[i])] = accepted'[i]
    <3>1. CASE i = n + 1
      BY <1>2, <1>3, <3>1 DEF k0
    <3>2. CASE i # n + 1
      <4>1. i \in 1..n /\ accepted'[i] = accepted[i]
        BY <1>2, <3>2
      <4>2. Key(accepted[i]) # k0
        BY <1>2, <2>2, <4>1 DEF k0
      <4>3. \A j \in (i + 1)..n : Key(accepted[j]) # Key(accepted[i])
        BY <1>2, <2>2, <4>1
      <4>4. /\ services[Key(accepted[i])] = accepted[i]
            /\ Key(accepted[i]) \in DOMAIN services
        BY <4>1, <4>3 DEF IInv, LatestWins, n
      <4> QED BY <1>3, <4>1, <4>2, <4>4
    <3> QED BY <3>1, <3>2
  <2> QED BY <2>1, <2>2 DEF LatestWins
<1>8. (OneFront /\ FrontIsRecorded)'
  <2>1. read_first # {} => accepted # <<>> /\ accepted'[1] = accepted[1]
    BY <1>1, <1>2 DEF IInv, FrontIsRecorded, n
  <2>2. accepted' # <<>>
    BY <1>1, <1>2
  <2> QED BY <2>1, <2>2 DEF IInv, OneFront, FrontIsRecorded, Record
<1>9. (NoUseAfterShutdown /\ NotStarted /\ HasMessage /\ HasSent)'
  BY <1>1 DEF IInv, NoUseAfterShutdown, NotStarted, HasMessage, HasSent, Record
<1> QED BY <1>4, <1>5, <1>6, <1>7, <1>8, <1>9 DEF IInv

LEMMA SendStep == IInv /\ Send => IInv'
<1> SUFFICES ASSUME IInv, Send PROVE IInv'
  OBVIOUS
<1>1. /\ service_broadcaster' \in Sender(Announcements)
      /\ service_broadcaster'.buffer = accepted
      /\ accepted \in Seq(Announcements) /\ accepted # <<>>
      /\ pending_broadcast' = <<>>
      /\ \/ relayed' = accepted /\ read_first' = read_first \cup {accepted[1]}
         \/ UNCHANGED <<relayed, read_first>>
  BY SendEffect
<1>2. /\ listiner = "sending" /\ listiner' = "run_one"
      /\ UNCHANGED <<arrived, heard, message, listiner_stopped, services, owner, accepted>>
  BY DEF Send, intake
<1>3. accepted[1] \in Announcements
  BY <1>1
<1>4. TypeOK'
  BY <1>1, <1>2, <1>3 DEF IInv, TypeOK
<1>5. (OneKeyPending /\ RelayLog)'
  BY <1>1, <1>2 DEF OneKeyPending, RelayLog
<1>6. (LatestWins /\ NoUseAfterShutdown /\ NotStarted)'
  BY <1>2 DEF IInv, LatestWins, NoUseAfterShutdown, NotStarted
<1>7. (OneFront /\ HasMessage /\ HasSent /\ FrontIsRecorded)'
  BY <1>1, <1>2 DEF IInv, OneFront, HasMessage, HasSent, FrontIsRecorded
<1> QED BY <1>4, <1>5, <1>6, <1>7 DEF IInv

LEMMA RunOneStep == ASSUME NEW h \in Handlers PROVE IInv /\ RunOne(h) => IInv'
<1> SUFFICES ASSUME IInv, RunOne(h) PROVE IInv'
  OBVIOUS
<1>1. /\ service_broadcaster' \in Sender(Announcements)
      /\ service_broadcaster'.buffer = service_broadcaster.buffer
      /\ accepted = service_broadcaster.buffer
      /\ accepted \in Seq(Announcements) /\ accepted # <<>>
      /\ pending_broadcast' = <<>>
      /\ \/ relayed' = accepted /\ read_first' = read_first \cup {accepted[1]}
         \/ UNCHANGED <<relayed, read_first>>
  BY RunOneEffect
<1>2. /\ listiner = "run_one" /\ listiner' = "waiting"
      /\ UNCHANGED <<arrived, heard, message, listiner_stopped, services, owner, accepted>>
  BY DEF RunOne, intake
<1>3. accepted[1] \in Announcements
  BY <1>1
<1>4. TypeOK'
  BY <1>1, <1>2, <1>3 DEF IInv, TypeOK
<1>5. (OneKeyPending /\ RelayLog)'
  BY <1>1, <1>2 DEF OneKeyPending, RelayLog
<1>6. (LatestWins /\ NoUseAfterShutdown /\ NotStarted)'
  BY <1>2 DEF IInv, LatestWins, NoUseAfterShutdown, NotStarted
<1>7. (OneFront /\ HasMessage /\ HasSent /\ FrontIsRecorded)'
  BY <1>1, <1>2 DEF IInv, OneFront, HasMessage, HasSent, FrontIsRecorded
<1> QED BY <1>4, <1>5, <1>6, <1>7 DEF IInv

\* The remaining steps keep the log; each is left with the type of what it
\* assigns, and with what the owner may conclude.
LEMMA QuietStep ==
  ASSUME IInv, LogKept, TypeOK', NoUseAfterShutdown', NotStarted'
  PROVE  IInv'
BY LogStays DEF IInv

LEMMA ListinerStep ==
  IInv /\ (Hear \/ RunOneReturns \/ ReceiveFails \/ ListinerReturns) => IInv'
<1> SUFFICES ASSUME IInv, Hear \/ RunOneReturns \/ ReceiveFails \/ ListinerReturns
             PROVE  IInv'
  OBVIOUS
<1> USE DEF intake, table, histories, LogKept, NoUseAfterShutdown, NotStarted
<1>1. CASE Hear
  <2>1. heard + 1 \in 1..Len(arrived) /\ message' \in Announcements \cup {Malformed}
    BY <1>1 DEF IInv, TypeOK, Hear
  <2>2. TypeOK'
    BY <1>1, <2>1 DEF IInv, TypeOK, Hear
  <2>3. LogKept
    BY <1>1, <2>1 DEF Hear
  <2>4. (NoUseAfterShutdown /\ NotStarted)'
    BY <1>1 DEF IInv, Hear
  <2> QED BY <2>2, <2>3, <2>4, QuietStep
<1>2. CASE RunOneReturns
  <2>1. TypeOK'
    BY <1>2 DEF IInv, TypeOK, RunOneReturns
  <2>2. LogKept /\ (NoUseAfterShutdown /\ NotStarted)'
    BY <1>2 DEF IInv, RunOneReturns
  <2> QED BY <2>1, <2>2, QuietStep
<1>3. CASE ReceiveFails
  <2>1. TypeOK'
    BY <1>3 DEF IInv, TypeOK, ReceiveFails
  <2>2. LogKept /\ (NoUseAfterShutdown /\ NotStarted)'
    BY <1>3 DEF IInv, ReceiveFails
  <2> QED BY <2>1, <2>2, QuietStep
<1>4. CASE ListinerReturns
  <2>1. TypeOK'
    BY <1>4 DEF IInv, TypeOK, ListinerReturns
  <2>2. LogKept /\ (NoUseAfterShutdown /\ NotStarted)'
    BY <1>4 DEF IInv, ListinerReturns
  <2> QED BY <2>1, <2>2, QuietStep
<1> QED BY <1>1, <1>2, <1>3, <1>4

LEMMA OwnerStep ==
  IInv /\ (\/ start \/ StopListiner \/ wait
           \/ StopBroadcaster \/ JoinListiner \/ Destroy) => IInv'
<1> SUFFICES ASSUME IInv, \/ start \/ StopListiner \/ wait
                          \/ StopBroadcaster \/ JoinListiner \/ Destroy
             PROVE  IInv'
  OBVIOUS
<1> USE DEF intake, table, histories, Owner, LogKept, NoUseAfterShutdown, NotStarted
<1>1. CASE start
  <2>1. TypeOK'
    BY <1>1 DEF IInv, TypeOK, start
  <2>2. listiner = "none" /\ LogKept /\ (NoUseAfterShutdown /\ NotStarted)'
    BY <1>1 DEF IInv, start
  <2> QED BY <2>1, <2>2, QuietStep
<1>2. CASE StopListiner
  <2>1. TypeOK'
    BY <1>2 DEF IInv, TypeOK, StopListiner
  <2>2. LogKept /\ (NoUseAfterShutdown /\ NotStarted)'
    BY <1>2 DEF IInv, StopListiner
  <2> QED BY <2>1, <2>2, QuietStep
<1>3. CASE StopBroadcaster
  <2>1. /\ service_broadcaster' \in Sender(Announcements)
        /\ service_broadcaster'.buffer = service_broadcaster.buffer
    BY <1>3 DEF IInv, TypeOK, StopBroadcaster, Sender
  <2>2. TypeOK'
    BY <1>3, <2>1 DEF IInv, TypeOK, StopBroadcaster
  <2>3. LogKept /\ (NoUseAfterShutdown /\ NotStarted)'
    BY <1>3, <2>1 DEF IInv, StopBroadcaster
  <2> QED BY <2>2, <2>3, QuietStep
<1>4. CASE JoinListiner
  <2>1. TypeOK'
    BY <1>4 DEF IInv, TypeOK, JoinListiner
  <2>2. LogKept /\ (NoUseAfterShutdown /\ NotStarted)'
    BY <1>4 DEF IInv, JoinListiner
  <2> QED BY <2>1, <2>2, QuietStep
<1>5. CASE Destroy
  <2>1. TypeOK'
    BY <1>5 DEF IInv, TypeOK, Destroy
  <2>2. LogKept /\ (NoUseAfterShutdown /\ NotStarted)'
    BY <1>5 DEF IInv, Destroy
  <2> QED BY <2>1, <2>2, QuietStep
<1>6. CASE wait
  <2>1. TypeOK'
    BY <1>6 DEF IInv, TypeOK, wait
  <2>2. LogKept /\ (NoUseAfterShutdown /\ NotStarted)'
    BY <1>6 DEF IInv, wait
  <2> QED BY <2>1, <2>2, QuietStep
<1> QED BY <1>1, <1>2, <1>3, <1>4, <1>5, <1>6

LEMMA WorldStep ==
  IInv /\ ((\E m \in Announcements \cup {Malformed} : Arrive(m)) \/ Timer) => IInv'
<1> SUFFICES ASSUME IInv, (\E m \in Announcements \cup {Malformed} : Arrive(m)) \/ Timer
             PROVE  IInv'
  OBVIOUS
<1> USE DEF intake, table, histories, LogKept, NoUseAfterShutdown, NotStarted
<1>1. CASE \E m \in Announcements \cup {Malformed} : Arrive(m)
  <2>1. PICK m \in Announcements \cup {Malformed} : Arrive(m)
    BY <1>1
  <2>2. /\ arrived' \in Seq(Announcements \cup {Malformed})
        /\ heard' \in 0..Len(arrived')
    BY <2>1 DEF IInv, TypeOK, Arrive
  <2>3. TypeOK'
    BY <2>1, <2>2 DEF IInv, TypeOK, Arrive
  <2>4. LogKept /\ (NoUseAfterShutdown /\ NotStarted)'
    BY <2>1 DEF IInv, Arrive
  <2> QED BY <2>3, <2>4, QuietStep
<1>2. CASE Timer
  <2>1. /\ service_broadcaster' \in Sender(Announcements)
        /\ service_broadcaster'.buffer = service_broadcaster.buffer
    BY <1>2, TimerEffect DEF IInv, TypeOK, Timer
  <2>2. TypeOK'
    BY <1>2, <2>1 DEF IInv, TypeOK, Timer
  <2>3. LogKept /\ (NoUseAfterShutdown /\ NotStarted)'
    BY <1>2, <2>1 DEF IInv, Timer
  <2> QED BY <2>2, <2>3, QuietStep
<1> QED BY <1>1, <1>2

LEMMA StutterStep == IInv /\ UNCHANGED vars => IInv'
<1> SUFFICES ASSUME IInv, UNCHANGED vars PROVE IInv'
  OBVIOUS
<1> USE DEF vars, intake, table, histories
<1>1. TypeOK'
  BY DEF IInv, TypeOK
<1>2. LogKept /\ (NoUseAfterShutdown /\ NotStarted)'
  BY DEF IInv, LogKept, NoUseAfterShutdown, NotStarted
<1> QED BY <1>1, <1>2, QuietStep

LEMMA Inductive == IInv /\ [Next]_vars => IInv'
BY RecordStep, SendStep, RunOneStep, ListinerStep, OwnerStep, WorldStep, StutterStep
   DEF Next

LEMMA Invariance == Spec => []IInv
BY Initially, Inductive, PTL DEF Spec

-----------------------------------------------------------------------------

\* The registry's state is always of its type: in particular the key at the
\* head of pending_broadcast is in the table whenever its text is looked up.
THEOREM TypeCorrect == Spec => []TypeOK
<1>1. IInv => TypeOK
  BY DEF IInv
<1> QED BY <1>1, Invariance, PTL

\* pending_broadcast holds the key of the announcement in hand, and only
\* between the critical section and the broadcast (Registry.cpp:58-87).
THEOREM OneKeyPendingHolds == Spec => []OneKeyPending
<1>1. IInv => OneKeyPending
  BY DEF IInv
<1> QED BY <1>1, Invariance, PTL

\* The broadcaster has written what was recorded: each announcement once, in
\* order, with the text it had then, whichever handlers run_one() ran.
THEOREM RelayLogHolds == Spec => []RelayLog
<1>1. IInv => RelayLog
  BY DEF IInv
<1> QED BY <1>1, Invariance, PTL

\* The table maps each key to the announcement recorded last under it.
THEOREM LatestWinsHolds == Spec => []LatestWins
<1>1. IInv => LatestWins
  BY DEF IInv
<1> QED BY <1>1, Invariance, PTL

\* Whoever reads one announcement from the front of the registry's datagrams
\* reads the first announcement the registry ever recorded.
THEOREM OneFrontHolds == Spec => []OneFront
<1>1. IInv => OneFront
  BY DEF IInv
<1> QED BY <1>1, Invariance, PTL

\* Once shutdown() has returned the listiner's thread is gone, so destroying
\* the queue and the table before the listiner is safe (Registry.cpp:52-56).
THEOREM NoUseAfterShutdownHolds == Spec => []NoUseAfterShutdown
<1>1. IInv => NoUseAfterShutdown
  BY DEF IInv
<1> QED BY <1>1, Invariance, PTL

-----------------------------------------------------------------------------
(* The table, as seen from the socket.                                     *)

MessageIsLast == listiner = "recording" => heard > 0 /\ message = arrived[heard]

HeardInv == TableShowsLatestHeard /\ MessageIsLast

\* A step that records nothing keeps the set, and the datagrams in it.
LEMMA RecordedStays ==
  ASSUME IInv, HeardInv, Recorded' = Recorded, UNCHANGED services,
         \A i \in 1..heard : arrived'[i] = arrived[i], MessageIsLast'
  PROVE  HeardInv'
<1>1. \A i \in Recorded : arrived'[i] = arrived[i]
  BY DEF Recorded
<1>2. /\ DOMAIN services = {Key(arrived[i]) : i \in Recorded}
      /\ \A i \in Recorded :
           (\A j \in Recorded : j > i => Key(arrived[j]) # Key(arrived[i]))
             => services[Key(arrived[i])] = arrived[i]
  BY DEF HeardInv, TableShowsLatestHeard
<1> DEFINE R == Recorded
           after == arrived'
<1>3. R' = R /\ services' = services
  OBVIOUS
<1> HIDE DEF R
<1>4. DOMAIN services = {Key(after[i]) : i \in R}
  BY <1>1, <1>2 DEF R
<1>5. \A i \in R : (\A j \in R : j > i => Key(after[j]) # Key(after[i]))
                     => services[Key(after[i])] = after[i]
  BY <1>1, <1>2 DEF R
<1> QED BY <1>3, <1>4, <1>5 DEF HeardInv, TableShowsLatestHeard, R

LEMMA HearKeepsTable ==
  ASSUME IInv, HeardInv, Hear
  PROVE  HeardInv'
<1>1. /\ listiner = "waiting" /\ heard' = heard + 1 /\ message' = arrived[heard + 1]
      /\ listiner' = IF message' = Malformed THEN "waiting" ELSE "recording"
      /\ UNCHANGED <<arrived, services>> /\ heard \in Nat
  BY DEF Hear, table, IInv, TypeOK
<1>2. Recorded' = Recorded
  <2>1. ASSUME NEW i \in 1..heard + 1
        PROVE  i \in Recorded' <=> i \in Recorded
    <3>1. CASE i = heard + 1
      BY <1>1, <3>1 DEF Recorded
    <3>2. CASE i # heard + 1
      BY <1>1, <2>1, <3>2 DEF Recorded
    <3> QED BY <3>1, <3>2
  <2>2. Recorded \subseteq 1..heard + 1 /\ Recorded' \subseteq 1..heard + 1
    BY <1>1 DEF Recorded
  <2> QED BY <2>1, <2>2
<1>3. MessageIsLast'
  BY <1>1 DEF MessageIsLast
<1> QED BY <1>1, <1>2, <1>3, RecordedStays

LEMMA RecordShowsLatest ==
  ASSUME IInv, HeardInv, Record
  PROVE  HeardInv'
<1>1. /\ listiner = "recording" /\ listiner' = "sending"
      /\ UNCHANGED <<arrived, heard, message>>
      /\ heard \in Nat /\ heard > 0 /\ message = arrived[heard]
      /\ message \in Announcements /\ message # Malformed
  BY RegistryAssumption DEF Record, intake, IInv, TypeOK, HasMessage, HeardInv, MessageIsLast
<1>2. Recorded' = Recorded \cup {heard}
  BY <1>1 DEF Recorded
<1>3. \A i \in Recorded : i \in Nat /\ i < heard
  BY <1>1 DEF Recorded
<1>4. /\ DOMAIN services' = DOMAIN services \cup {Key(message)}
      /\ services'[Key(message)] = message
      /\ \A k \in DOMAIN services : k # Key(message) => services'[k] = services[k]
  BY DEF Record
<1> DEFINE R == Recorded
           key(i) == Key(arrived[i])
<1>5. /\ DOMAIN services = {key(i) : i \in R}
      /\ \A i \in R : (\A j \in R : j > i => key(j) # key(i)) => services[key(i)] = arrived[i]
  BY DEF HeardInv, TableShowsLatestHeard
<1>6. key(heard) = Key(message)
  BY <1>1
<1> HIDE DEF R, key
<1>7. DOMAIN services' = {key(i) : i \in R \cup {heard}}
  BY <1>4, <1>5, <1>6
<1>8. ASSUME NEW i \in R \cup {heard},
             \A j \in R \cup {heard} : j > i => key(j) # key(i)
      PROVE  services'[key(i)] = arrived[i]
  <2>1. CASE i = heard
    BY <1>1, <1>4, <1>6, <2>1
  <2>2. CASE i \in R
    <3>1. key(heard) # key(i)
      BY <1>1, <1>3, <1>8, <2>2 DEF R
    <3>2. services[key(i)] = arrived[i] /\ key(i) \in DOMAIN services
      BY <1>5, <1>8, <2>2
    <3> QED BY <1>4, <1>6, <3>1, <3>2
  <2> QED BY <2>1, <2>2
<1>9. TableShowsLatestHeard'
  BY <1>1, <1>2, <1>7, <1>8 DEF TableShowsLatestHeard, R, key
<1> QED BY <1>1, <1>9 DEF HeardInv, MessageIsLast

LEMMA OthersKeepTable ==
  ASSUME IInv, HeardInv, [Next]_vars, ~Hear, ~Record
  PROVE  HeardInv'
<1>1. /\ heard' = heard /\ message' = message /\ services' = services
      /\ listiner' = "recording" <=> listiner = "recording"
  BY DEF Next, vars, intake, table, Arrive, Send, RunOne, RunOneReturns, ReceiveFails,
         ListinerReturns, Timer, start, StopListiner, wait, StopBroadcaster, JoinListiner,
         Destroy, Owner, IInv, NotStarted
<1>2. \A i \in 1..heard : arrived'[i] = arrived[i]
  <2>1. arrived \in Seq(Announcements \cup {Malformed}) /\ heard \in 0..Len(arrived)
    BY DEF IInv, TypeOK
  <2>2. CASE \E m \in Announcements \cup {Malformed} : Arrive(m)
    BY <2>1, <2>2 DEF Arrive
  <2>3. CASE UNCHANGED arrived
    BY <2>3
  <2> QED
    BY <2>2, <2>3
       DEF Next, vars, intake, Send, RunOne, RunOneReturns, ReceiveFails, ListinerReturns,
           Timer, start, StopListiner, wait, StopBroadcaster, JoinListiner, Destroy
<1>3. Recorded' = Recorded
  BY <1>1, <1>2 DEF Recorded
<1>4. MessageIsLast'
  <2>1. heard \in Nat
    BY DEF IInv, TypeOK
  <2> QED BY <1>1, <1>2, <2>1 DEF MessageIsLast, HeardInv
<1> QED BY <1>1, <1>2, <1>3, <1>4, RecordedStays

LEMMA HeardInvariance == Spec => [](IInv /\ HeardInv)
<1>1. Init => IInv /\ HeardInv
  <2> SUFFICES ASSUME Init PROVE HeardInv
    BY Initially
  <2>1. heard = 0 /\ listiner = "none" /\ DOMAIN services = {}
    BY DEF Init
  <2>2. Recorded = {}
    BY <2>1 DEF Recorded
  <2> QED BY <2>1, <2>2 DEF HeardInv, TableShowsLatestHeard, MessageIsLast
<1>2. IInv /\ HeardInv /\ [Next]_vars => (IInv /\ HeardInv)'
  BY Inductive, HearKeepsTable, RecordShowsLatest, OthersKeepTable
<1> QED BY <1>1, <1>2, PTL DEF Spec

\* What Registry.cpp:58-72 makes of what arrives, without the histories: when the
\* thread is not about to enter the critical section, each key of the table has
\* the text of the last announcement heard under it, however often and in
\* whatever order the services announced themselves.
THEOREM TableShowsLatestHeardHolds == Spec => []TableShowsLatestHeard
<1>1. HeardInv => TableShowsLatestHeard
  BY DEF HeardInv
<1> QED BY <1>1, HeardInvariance, PTL

-----------------------------------------------------------------------------
(* Progress.  What FairSpec says of an action is said of ENABLED, which no  *)
(* prover here expands.  The theorems below therefore name, for each fair   *)
(* action, the condition under which its guards let it happen, and ask that *)
(* it then be enabled; TLC, which evaluates ENABLED, checks the same        *)
(* properties without.                                                      *)

BroadcasterReady ==
  \/ service_broadcaster.stopped
  \/ \E h \in Handlers : service_broadcaster.ready[h] > 0

ListinerReady ==
  \/ listiner = "waiting" /\ (listiner_stopped \/ heard < Len(arrived))
  \/ listiner \in {"recording", "sending"}
  \/ listiner = "run_one" /\ BroadcasterReady

ShutdownReady ==
  \/ owner = "stopping"
  \/ owner = "joining" /\ listiner \in {"finished", "joined"}

ListinerGoesOn == [](ListinerReady => ENABLED <<Listiner>>_vars)

ShutdownGoesOn == [](ShutdownReady => ENABLED <<Shutdown>>_vars)

\* run_one() never waits: the send before it left a handler, and nobody but
\* the listiner's thread runs the handlers of the broadcaster.
RunOneIsPrompt == listiner = "run_one" => BroadcasterReady

\* What the two threads know of each other.
InStep ==
  /\ listiner = "none" => owner = "constructed"
  /\ owner \in {"stopping", "joining", "down", "destroyed"} => listiner_stopped
  /\ listiner \in {"finished", "joined"} => listiner_stopped

\* While no send fails for want of a network, all that fits has left.
AllThatFits ==
  ~NetworkFails =>
    IF Len(service_broadcaster.buffer) <= MaxDatagram
    THEN relayed = service_broadcaster.buffer
    ELSE Len(relayed) >= MaxDatagram

PInv == IInv /\ RunOneIsPrompt /\ InStep /\ AllThatFits

LEMMA PromptInit == Init => RunOneIsPrompt /\ InStep /\ AllThatFits
BY SenderAssumption DEF Init, RunOneIsPrompt, InStep, AllThatFits, NewSender

LEMMA PromptStep == IInv /\ RunOneIsPrompt /\ [Next]_vars => RunOneIsPrompt'
<1> SUFFICES ASSUME IInv, RunOneIsPrompt, [Next]_vars PROVE RunOneIsPrompt'
  OBVIOUS
<1> USE DEF RunOneIsPrompt
<1>1. service_broadcaster \in Sender(Announcements)
  BY DEF IInv, TypeOK
<1>2. CASE Send
  <2>1. PICK outcome \in Outcomes(service_broadcaster, SubscriptionText) :
          service_broadcaster' =
            multicast_broadcast(service_broadcaster, SubscriptionText, outcome)
    BY <1>2 DEF Send
  <2>2. outcome \in Handlers
    BY <2>1, OutcomesAreHandlers DEF Handlers
  <2> QED BY <1>1, <2>1, <2>2, BroadcastIsAnswered DEF BroadcasterReady
<1>3. CASE Timer
  <2>1. \A h \in Handlers :
          service_broadcaster'.ready[h] >= service_broadcaster.ready[h]
    BY <1>1, <1>3 DEF Timer, TimerExpires, Sender, Handlers
  <2>2. service_broadcaster'.stopped = service_broadcaster.stopped
    BY <1>1, <1>3 DEF Timer, TimerExpires, Sender
  <2>3. \A h \in Handlers : service_broadcaster'.ready[h] \in Nat
                            /\ service_broadcaster.ready[h] \in Nat
    BY <1>1, <1>3, TimerEffect DEF Timer, Sender
  <2>4. listiner' = listiner
    BY <1>3 DEF Timer
  <2> QED BY <2>1, <2>2, <2>3, <2>4 DEF BroadcasterReady
<1>4. CASE StopBroadcaster
  BY <1>1, <1>4 DEF StopBroadcaster, BroadcasterReady, Sender
<1>5. CASE UNCHANGED <<listiner, service_broadcaster>> \/ listiner' # "run_one"
  BY <1>5 DEF BroadcasterReady
<1> QED
  BY <1>2, <1>3, <1>4, <1>5
     DEF Next, vars, intake, table, histories, Arrive, Hear, Record, RunOne, RunOneReturns,
         ReceiveFails, ListinerReturns, start, StopListiner, wait, JoinListiner, Destroy, Owner

LEMMA InStepStep == IInv /\ InStep /\ [Next]_vars => InStep'
<1> SUFFICES ASSUME IInv, InStep, [Next]_vars PROVE InStep'
  OBVIOUS
<1>1. CASE UNCHANGED vars
  BY <1>1 DEF InStep, vars, intake
<1>2. CASE \/ \E m \in Announcements \cup {Malformed} : Arrive(m)
           \/ Hear \/ Record \/ Send \/ \E h \in Handlers : RunOne(h)
           \/ RunOneReturns \/ ReceiveFails \/ ListinerReturns \/ Timer
  BY <1>2 DEF InStep, Arrive, Hear, Record, Send, RunOne, RunOneReturns, ReceiveFails,
              ListinerReturns, Timer, IInv, TypeOK
<1>3. CASE \/ start \/ StopListiner \/ wait \/ StopBroadcaster \/ JoinListiner \/ Destroy
  BY <1>3 DEF InStep, start, StopListiner, wait, StopBroadcaster, JoinListiner, Destroy, Owner
<1> QED BY <1>1, <1>2, <1>3 DEF Next

\* What leaves of a datagram that fits, and what stays of one that does not.
LEMMA FitsStep ==
  ASSUME IInv, AllThatFits, ~NetworkFails, NEW text \in Seq(Announcements), Len(text) <= 1,
         NEW outcome \in Outcomes(service_broadcaster, text), OnTheWire(outcome),
         service_broadcaster'.buffer = service_broadcaster.buffer \o text
  PROVE  AllThatFits'
<1> DEFINE old == service_broadcaster.buffer
           new == service_broadcaster'.buffer
<1>1. old \in Seq(Announcements) /\ MaxDatagram \in Nat
  BY SenderAssumption DEF IInv, TypeOK, Sender
<1>2. new = old \o text /\ Len(new) \in Nat /\ Len(old) \in Nat /\ Len(new) >= Len(old)
  BY <1>1
<1>3. IF Len(old) <= MaxDatagram THEN relayed = old ELSE Len(relayed) >= MaxDatagram
  BY DEF AllThatFits
<1>4. IF outcome = "sent" THEN relayed' = new ELSE UNCHANGED relayed
  BY DEF OnTheWire
<1>5. IF Len(new) > MaxDatagram THEN outcome = "failed" ELSE outcome = "sent"
  BY <1>2 DEF Outcomes
<1>6. CASE Len(new) <= MaxDatagram
  <2>1. relayed' = new
    BY <1>1, <1>2, <1>4, <1>5, <1>6
  <2> QED BY <1>6, <2>1 DEF AllThatFits
<1>7. CASE Len(new) > MaxDatagram
  <2>1. relayed' = relayed
    BY <1>4, <1>5, <1>7
  <2>2. CASE Len(old) <= MaxDatagram
    <3>1. relayed = old
      BY <1>3, <2>2
    <3>2. Len(new) = Len(old) + Len(text) /\ Len(text) \in Nat
      BY <1>1
    <3> QED BY <1>1, <1>2, <1>7, <2>1, <2>2, <3>1, <3>2 DEF AllThatFits
  <2>3. CASE Len(old) > MaxDatagram
    BY <1>1, <1>2, <1>3, <1>7, <2>1, <2>3 DEF AllThatFits
  <2> QED BY <1>1, <1>2, <2>2, <2>3
<1> QED BY <1>1, <1>2, <1>6, <1>7

LEMMA AllThatFitsStep == IInv /\ AllThatFits /\ [Next]_vars => AllThatFits'
<1> SUFFICES ASSUME IInv, AllThatFits, [Next]_vars, ~NetworkFails PROVE AllThatFits'
  BY DEF AllThatFits
<1>1. service_broadcaster \in Sender(Announcements)
  BY DEF IInv, TypeOK
<1>2. CASE Send
  <2>1. /\ SubscriptionText = <<message>> /\ message \in Announcements
        /\ listiner = "sending"
    BY <1>2, TextInHand DEF Send
  <2>2. PICK outcome \in Outcomes(service_broadcaster, SubscriptionText) :
          /\ service_broadcaster' =
               multicast_broadcast(service_broadcaster, SubscriptionText, outcome)
          /\ OnTheWire(outcome)
    BY <1>2 DEF Send
  <2>3. <<message>> \in Seq(Announcements) /\ Len(<<message>>) <= 1
    BY <2>1
  <2>4. outcome \in Handlers
    BY <2>2, OutcomesAreHandlers DEF Handlers
  <2>5. service_broadcaster'.buffer = service_broadcaster.buffer \o <<message>>
    BY <1>1, <2>1, <2>2, <2>3, <2>4, BroadcastEffect
  <2> QED BY <2>1, <2>2, <2>3, <2>5, FitsStep
<1>3. CASE \E h \in Handlers : RunOne(h)
  <2>1. PICK h \in Handlers : RunOne(h)
    BY <1>3
  <2>2. /\ SubscriptionText = <<>>
        /\ service_broadcaster'.buffer = service_broadcaster.buffer
        /\ service_broadcaster.buffer \in Seq(Announcements)
    BY <1>1, <2>1, NoText, RunOneEffect DEF RunOne, Sender
  <2>3. CASE Broadcasts(h)
    <3>1. PICK outcome \in Outcomes(service_broadcaster, <<>>) : OnTheWire(outcome)
      BY <2>1, <2>2, <2>3 DEF RunOne
    <3>2. service_broadcaster'.buffer = service_broadcaster.buffer \o <<>>
      BY <2>2
    <3>3. <<>> \in Seq(Announcements) /\ Len(<<>>) <= 1
      OBVIOUS
    <3> QED BY <3>1, <3>2, <3>3, FitsStep
  <2>4. CASE ~Broadcasts(h)
    BY <2>1, <2>2, <2>4 DEF RunOne, AllThatFits
  <2> QED BY <2>3, <2>4
<1>4. CASE Timer
  BY <1>1, <1>4, TimerEffect DEF Timer, histories, AllThatFits
<1>5. CASE StopBroadcaster
  BY <1>1, <1>5 DEF StopBroadcaster, Sender, histories, AllThatFits
<1>6. CASE UNCHANGED <<relayed, service_broadcaster>>
  BY <1>6 DEF AllThatFits
<1> QED
  BY <1>2, <1>3, <1>4, <1>5, <1>6
     DEF Next, vars, histories, Arrive, Hear, Record, RunOneReturns, ReceiveFails,
         ListinerReturns, start, StopListiner, wait, JoinListiner, Destroy

LEMMA Progress == Spec => []PInv
<1>1. Init => PInv
  BY Initially, PromptInit DEF PInv
<1>2. PInv /\ [Next]_vars => PInv'
  BY Inductive, PromptStep, InStepStep, AllThatFitsStep DEF PInv
<1> QED BY <1>1, <1>2, PTL DEF Spec

\* The listiner's thread, from where shutdown() finds it to its end.
LEMMA ListinerDescends ==
  ASSUME PInv, owner = "joining", [Next]_vars
  PROVE  /\ owner' = "joining" \/ (owner' = "down" /\ listiner \in {"finished", "joined"})
         /\ \/ UNCHANGED listiner
            \/ listiner = "recording" /\ listiner' = "sending"
            \/ listiner = "sending" /\ listiner' = "run_one"
            \/ listiner = "run_one" /\ listiner' = "waiting"
            \/ listiner = "waiting" /\ listiner' = "finished"
            \/ listiner = "finished" /\ listiner' = "joined"
<1>1. listiner_stopped
  BY DEF PInv, InStep
<1> QED
  BY <1>1 DEF Next, vars, intake, Arrive, Hear, Record, Send, RunOne, RunOneReturns,
              ReceiveFails, ListinerReturns, Timer, start, StopListiner, wait,
              StopBroadcaster, JoinListiner, Destroy, Owner

\* Every step of that thread takes it on.
LEMMA ListinerMoves ==
  ASSUME PInv, listiner_stopped, Listiner
  PROVE  listiner' # listiner
BY DEF Listiner, Hear, Record, Send, RunOne, RunOneReturns, ListinerReturns

\* shutdown() returns, whatever the listiner was doing when it was called
\* (Registry.cpp:43-56): its thread is between two announcements after four
\* steps at most, and finds its context stopped.
THEOREM ShutdownReturnsHolds ==
  FairSpec /\ ListinerGoesOn /\ ShutdownGoesOn => ShutdownReturns
<1> DEFINE Stopping == owner = "stopping"
           Recording == owner = "joining" /\ listiner = "recording"
           Sending == owner = "joining" /\ listiner = "sending"
           Running == owner = "joining" /\ listiner = "run_one"
           Waiting == owner = "joining" /\ listiner = "waiting"
           Ended == owner = "joining" /\ listiner \in {"finished", "joined"}
           Down == owner \in {"down", "destroyed"}
           Busy == Recording \/ Sending \/ Running \/ Waiting
<1>1. PInv /\ Stopping /\ [Next]_vars =>
        Stopping' \/ Recording' \/ Sending' \/ Running' \/ Waiting' \/ Ended'
  <2> SUFFICES ASSUME PInv, Stopping, [Next]_vars
               PROVE  Stopping' \/ Recording' \/ Sending' \/ Running' \/ Waiting' \/ Ended'
    OBVIOUS
  <2>1. owner' \in {"stopping", "joining"}
    BY DEF Next, vars, Arrive, Hear, Record, Send, RunOne, RunOneReturns, ReceiveFails,
           ListinerReturns, Timer, start, StopListiner, wait, StopBroadcaster, JoinListiner,
           Destroy, Owner
  <2>2. PInv'
    BY Inductive, PromptStep, InStepStep, AllThatFitsStep DEF PInv
  <2>3. listiner' \in {"recording", "sending", "run_one", "waiting", "finished", "joined"}
    BY <2>1, <2>2 DEF PInv, InStep, IInv, TypeOK
  <2> QED BY <2>1, <2>3
<1>2. PInv /\ Stopping /\ <<Shutdown>>_vars => ~Stopping'
  BY DEF Shutdown, StopBroadcaster, JoinListiner, Owner
<1>3. /\ PInv /\ Recording /\ [Next]_vars => Recording' \/ Sending'
      /\ PInv /\ Sending /\ [Next]_vars => Sending' \/ Running'
      /\ PInv /\ Running /\ [Next]_vars => Running' \/ Waiting'
      /\ PInv /\ Waiting /\ [Next]_vars => Waiting' \/ Ended'
      /\ PInv /\ Ended /\ [Next]_vars => Ended' \/ Down'
  BY ListinerDescends
<1>4. PInv /\ Busy /\ <<Listiner>>_vars =>
        /\ Recording => ~Recording'
        /\ Sending => ~Sending'
        /\ Running => ~Running'
        /\ Waiting => ~Waiting'
  BY ListinerMoves DEF PInv, InStep
<1>5. PInv /\ Ended /\ <<Shutdown>>_vars => Down'
  BY DEF Shutdown, StopBroadcaster, JoinListiner, Owner
<1>6. PInv /\ Busy => ListinerReady
  BY DEF PInv, InStep, RunOneIsPrompt, ListinerReady
<1>7. Stopping \/ Ended => ShutdownReady
  BY DEF ShutdownReady
<1>8. Stopping <=> owner = "stopping"
  OBVIOUS
<1>9. Down <=> owner \in {"down", "destroyed"}
  OBVIOUS
<1> HIDE DEF Stopping, Recording, Sending, Running, Waiting, Ended, Down
<1>10. FairSpec /\ ListinerGoesOn /\ ShutdownGoesOn => (Stopping ~> Down)
  BY <1>1, <1>2, <1>3, <1>4, <1>5, <1>6, <1>7, Progress, PTL
     DEF Spec, FairSpec, ListinerGoesOn, ShutdownGoesOn
<1> QED BY <1>8, <1>9, <1>10, PTL DEF ShutdownReturns

\* Until it has been heard, the next datagram waits for a thread that goes round.
LEMMA ListinerHears ==
  ASSUME PInv, NEW n \in Nat, heard = n, Len(arrived) > n, ~listiner_stopped, listiner # "none",
         [Next]_vars
  PROVE  /\ listiner' # "none"
         /\ \/ UNCHANGED <<heard, listiner>> /\ Len(arrived') > n
            \/ UNCHANGED heard /\ Len(arrived') > n /\ listiner = "recording" /\ listiner' = "sending"
            \/ UNCHANGED heard /\ Len(arrived') > n /\ listiner = "sending" /\ listiner' = "run_one"
            \/ UNCHANGED heard /\ Len(arrived') > n /\ listiner = "run_one" /\ listiner' = "waiting"
            \/ listiner = "waiting" /\ heard' > n
<1>1. arrived \in Seq(Announcements \cup {Malformed}) /\ heard \in Nat
  BY DEF PInv, IInv, TypeOK
<1>2. CASE \E m \in Announcements \cup {Malformed} : Arrive(m)
  BY <1>1, <1>2 DEF Arrive
<1>3. CASE Hear \/ Record \/ Send \/ (\E h \in Handlers : RunOne(h)) \/ RunOneReturns
  BY <1>1, <1>3 DEF Hear, Record, Send, RunOne, RunOneReturns, intake
<1>4. CASE UNCHANGED <<intake, listiner>>
  BY <1>1, <1>4 DEF intake
<1>5. CASE start \/ wait \/ ListinerReturns \/ JoinListiner
  BY <1>5 DEF start, wait, ListinerReturns, JoinListiner, Owner, PInv, InStep, IInv, NotStarted
<1> QED
  BY <1>2, <1>3, <1>4, <1>5
     DEF Next, vars, intake, ReceiveFails, Timer, StopListiner, StopBroadcaster, Destroy

\* A registry that serves hears every datagram that reached it, in turn, until
\* its listiner is stopped (Registry.cpp:31): neither the broadcast nor run_one()
\* in between keeps the thread from going round.
THEOREM HearsWhatArrivesHolds ==
  FairSpec /\ ListinerGoesOn => HearsWhatArrives
<1> SUFFICES ASSUME NEW n \in 0..(MaxArrivals - 1)
             PROVE  FairSpec /\ ListinerGoesOn =>
                      ((heard = n /\ Len(arrived) > n /\ owner = "serving")
                         ~> (heard > n \/ listiner_stopped))
  BY DEF HearsWhatArrives
<1> DEFINE Arrived == heard = n /\ Len(arrived) > n /\ ~listiner_stopped
           Recording == Arrived /\ listiner = "recording"
           Sending == Arrived /\ listiner = "sending"
           Running == Arrived /\ listiner = "run_one"
           Waiting == Arrived /\ listiner = "waiting"
           Due == heard = n /\ Len(arrived) > n /\ owner = "serving"
           Done == heard > n \/ listiner_stopped
<1>0. n \in Nat
  OBVIOUS
<1>1. PInv /\ Due => Recording \/ Sending \/ Running \/ Waiting \/ Done
  <2> SUFFICES ASSUME PInv, Due, ~Done
               PROVE  listiner \in {"recording", "sending", "run_one", "waiting"}
    OBVIOUS
  <2> QED BY DEF PInv, IInv, TypeOK, InStep
<1>2. PInv /\ Recording /\ [Next]_vars => Recording' \/ Sending' \/ Done'
  BY <1>0, ListinerHears
<1>3. PInv /\ Sending /\ [Next]_vars => Sending' \/ Running' \/ Done'
  BY <1>0, ListinerHears
<1>4. PInv /\ Running /\ [Next]_vars => Running' \/ Waiting' \/ Done'
  BY <1>0, ListinerHears
<1>5. PInv /\ Waiting /\ [Next]_vars => Waiting' \/ Done'
  BY <1>0, ListinerHears
<1>6. /\ Recording /\ <<Listiner>>_vars => ~Recording'
      /\ Sending /\ <<Listiner>>_vars => ~Sending'
      /\ Running /\ <<Listiner>>_vars => ~Running'
  BY DEF Listiner, Hear, Record, Send, RunOne, RunOneReturns, ListinerReturns
<1>7. PInv /\ Waiting /\ <<Listiner>>_vars => Done'
  BY <1>0 DEF Listiner, Hear, Record, Send, RunOne, RunOneReturns, ListinerReturns
<1>8. PInv /\ (Recording \/ Sending \/ Running \/ Waiting) => ListinerReady
  BY DEF PInv, RunOneIsPrompt, ListinerReady
<1> HIDE DEF Recording, Sending, Running, Waiting, Due, Done
<1>9. FairSpec /\ ListinerGoesOn => (Due ~> Done)
  BY <1>1, <1>2, <1>3, <1>4, <1>5, <1>6, <1>7, <1>8, Progress, PTL
     DEF Spec, FairSpec, ListinerGoesOn
<1> QED BY <1>9, PTL DEF Due, Done

\* While the network takes them, the first MaxDatagram announcements recorded
\* leave, even one that shutdown() overtakes (Registry.cpp:75-87): the sender
\* writes to the wire before anybody runs its context.
THEOREM RelayedWhileItFitsHolds ==
  ASSUME ~NetworkFails
  PROVE  FairSpec /\ ListinerGoesOn => RelayedWhileItFits
<1> SUFFICES ASSUME NEW n \in 1..MaxDatagram
             PROVE  FairSpec /\ ListinerGoesOn =>
                      ((Len(accepted) >= n) ~> (Len(relayed) >= n))
  BY DEF RelayedWhileItFits
<1> DEFINE Due == Len(accepted) >= n
           Sending == listiner = "sending" /\ Len(accepted) >= n
           Done == Len(relayed) >= n
<1>0. n \in Nat /\ n <= MaxDatagram /\ MaxDatagram \in Nat
  BY SenderAssumption
<1>1. PInv /\ listiner # "sending" /\ Due => Done
  <2> SUFFICES ASSUME PInv, listiner # "sending", Due PROVE Done
    OBVIOUS
  <2>1. service_broadcaster.buffer \in Seq(Announcements)
    BY DEF PInv, IInv, TypeOK, Sender
  <2>2. accepted = service_broadcaster.buffer
    BY <2>1 DEF PInv, IInv, RelayLog
  <2> QED BY <1>0, <2>1, <2>2 DEF PInv, AllThatFits
<1>2. PInv /\ Due => Sending \/ Done
  BY <1>1
<1>3. PInv /\ PInv' /\ Sending /\ [Next]_vars => Sending' \/ Done'
  <2> SUFFICES ASSUME PInv', Sending, [Next]_vars, ~Sending', PInv PROVE Done'
    OBVIOUS
  <2>1. accepted' = accepted \/ Len(accepted') = Len(accepted) + 1
    BY DEF PInv, IInv, TypeOK, Next, vars, histories, Arrive, Hear, Record, Send, RunOne,
           RunOneReturns, ReceiveFails, ListinerReturns, Timer, start, StopListiner, wait,
           StopBroadcaster, JoinListiner, Destroy
  <2>2. Due' /\ listiner' # "sending"
    BY <1>0, <2>1 DEF PInv, IInv, TypeOK
  <2>3. (PInv /\ listiner # "sending" /\ Due => Done)'
    BY <1>1, PTL
  <2> QED BY <2>2, <2>3
<1>4. Sending /\ <<Listiner>>_vars => ~Sending'
  BY DEF Listiner, Hear, Record, Send, RunOne, RunOneReturns, ListinerReturns
<1>5. Sending => ListinerReady
  BY DEF ListinerReady
<1> HIDE DEF Due, Sending, Done
<1>6. FairSpec /\ ListinerGoesOn => (Due ~> Done)
  BY <1>2, <1>3, <1>4, <1>5, Progress, PTL DEF Spec, FairSpec, ListinerGoesOn
<1> QED BY <1>6, PTL DEF Due, Done
=============================================================================
