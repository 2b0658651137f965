-------------------------- MODULE Discovery_proofs --------------------------
(***************************************************************************)
(* The composition of services and registry, for any number of services,   *)
(* any loss and any schedule: it keeps what is proved of the registry      *)
(* alone and implements the abstract Directory.                            *)
(*                                                                         *)
(* The argument follows an announcement from the service that wrote it     *)
(* (OwnTextOnly) through the group (FromStarted) into the table and the    *)
(* broadcaster's buffer (KnownAreStarted), whose front is all that any     *)
(* listener reads (ToldTheFront).                                          *)
(*                                                                         *)
(* When nothing is lost the way has no gaps: what a service announced is   *)
(* at the registry's socket when start() returns (RegisteredOnceHeard),    *)
(* and what is at the socket is heard (DiscoveryHears).                    *)
(***************************************************************************)
EXTENDS Discovery, Registry_proofs

Started == {s \in Services : service[s] # "created"}

StartedTexts == {Announced[s] : s \in Started}

\* A service's sender writes that service's announcement and nothing else.
OwnTextOnly ==
  \A s \in Services :
    \A i \in 1..Len(announcer[s].buffer) : announcer[s].buffer[i] = Announced[s]

\* What reached the registry's socket, and what it has in hand, was announced.
FromStarted ==
  /\ \A i \in 1..Len(arrived) : arrived[i] \in StartedTexts
  /\ listiner = "recording" => message \in StartedTexts

KnownAreStarted == \A i \in 1..Len(accepted) : accepted[i] \in StartedTexts

\* Every listener was told of the front of the registry's datagrams only.
ToldTheFront ==
  \A s \in Services : \A m \in told[s] :
    service_broadcaster.buffer # <<>> /\ m = service_broadcaster.buffer[1]

DiscoveryInv ==
  /\ IInv
  /\ DiscoveryTypeOK
  /\ OwnTextOnly
  /\ FromStarted
  /\ KnownAreStarted
  /\ ToldTheFront

-----------------------------------------------------------------------------
(* Services.                                                               *)

\* A sender that holds one text over and over, and writes it again.
LEMMA SameTextAgain ==
  ASSUME NEW m \in Announcements, NEW b \in Seq(Announcements),
         \A i \in 1..Len(b) : b[i] = m
  PROVE  /\ b \o <<m>> \in Seq(Announcements)
         /\ \A i \in 1..Len(b \o <<m>>) : (b \o <<m>>)[i] = m
         /\ Head(b \o <<m>>) = m
<1> DEFINE c == b \o <<m>>
<1>1. /\ c \in Seq(Announcements) /\ Len(c) = Len(b) + 1
      /\ \A i \in 1..Len(b) : c[i] = b[i]
      /\ c[Len(b) + 1] = m
  OBVIOUS
<1>2. Len(b) \in Nat
  OBVIOUS
<1> HIDE DEF c
<1>3. \A i \in 1..Len(c) : c[i] = m
  <2> TAKE i \in 1..Len(c)
  <2>1. i \in 1..Len(b) \/ i = Len(b) + 1
    BY <1>1, <1>2
  <2> QED BY <1>1, <2>1
<1>4. Head(c) = c[1] /\ 1 \in 1..Len(c)
  BY <1>1, <1>2
<1> QED BY <1>1, <1>3, <1>4 DEF c

LEMMA AnnouncerEffect ==
  ASSUME DiscoveryInv, NEW s \in Services
  PROVE  /\ Announced[s] \in Announcements
         /\ announcer[s] \in Sender(Announcements)
         /\ announcer[s].buffer \in Seq(Announcements)
         /\ \A i \in 1..Len(announcer[s].buffer) : announcer[s].buffer[i] = Announced[s]
BY DiscoveryAssumption DEF DiscoveryInv, DiscoveryTypeOK, OwnTextOnly, Sender

\* What a step of one service's sender leaves, and puts on the group.
AnnouncerStep(s) ==
  /\ announcer' = [announcer EXCEPT ![s] = announcer'[s]]
  /\ announcer'[s] \in Sender(Announcements)
  /\ \A i \in 1..Len(announcer'[s].buffer) : announcer'[s].buffer[i] = Announced[s]
  /\ \/ UNCHANGED registryVars
     \/ Arrive(Announced[s])

LEMMA StartsAnnouncing ==
  ASSUME DiscoveryInv, NEW s \in Services, start_service(s)
  PROVE  AnnouncerStep(s)
<1>1. PICK outcome \in Outcomes(announcer[s], <<Announced[s]>>) :
        /\ announcer' = [announcer EXCEPT ![s] =
             multicast_broadcast(announcer[s], <<Announced[s]>>, outcome)]
        /\ OnRegistrationPort(s, outcome)
  BY DEF start_service, announce_service_creation
<1>2. announcer'[s] = multicast_broadcast(announcer[s], <<Announced[s]>>, outcome)
  BY <1>1 DEF DiscoveryInv, DiscoveryTypeOK
<1>3. <<Announced[s]>> \in Seq(Announcements) /\ outcome \in Handlers
  BY <1>1, AnnouncerEffect, OutcomesAreHandlers DEF Handlers
<1>4. /\ announcer'[s] \in Sender(Announcements)
      /\ announcer'[s].buffer = announcer[s].buffer \o <<Announced[s]>>
  BY <1>2, <1>3, AnnouncerEffect, BroadcastEffect
<1>5. /\ \A i \in 1..Len(announcer'[s].buffer) : announcer'[s].buffer[i] = Announced[s]
      /\ Head(announcer'[s].buffer) = Announced[s]
  <2> DEFINE b == announcer[s].buffer
             m == Announced[s]
  <2>1. m \in Announcements /\ b \in Seq(Announcements) /\ \A i \in 1..Len(b) : b[i] = m
    BY AnnouncerEffect
  <2>2. announcer'[s].buffer = b \o <<m>>
    BY <1>4
  <2> HIDE DEF b, m
  <2>3. (\A i \in 1..Len(b \o <<m>>) : (b \o <<m>>)[i] = m) /\ Head(b \o <<m>>) = m
    BY <2>1, SameTextAgain
  <2>4. /\ \A i \in 1..Len(announcer'[s].buffer) : announcer'[s].buffer[i] = m
        /\ Head(announcer'[s].buffer) = m
    BY <2>2, <2>3
  <2> QED BY <2>4 DEF m
<1>6. UNCHANGED registryVars \/ Arrive(Announced[s])
  BY <1>1, <1>5 DEF OnRegistrationPort, ReachesRegistry
<1>7. announcer' = [announcer EXCEPT ![s] = announcer'[s]]
  BY <1>1, <1>2
<1> QED BY <1>4, <1>5, <1>6, <1>7 DEF AnnouncerStep

LEMMA HandlesAnnouncements ==
  ASSUME DiscoveryInv, NEW s \in Services, NEW h \in Handlers, AnnouncerHandles(s, h)
  PROVE  AnnouncerStep(s)
<1> DEFINE Some == IF Broadcasts(h) THEN Outcomes(announcer[s], <<Announced[s]>>)
                   ELSE {"none"}
<1>1. PICK outcome \in Some :
        /\ announcer' = [announcer EXCEPT ![s] =
             RunHandler(announcer[s], h, <<Announced[s]>>, outcome)]
        /\ OnRegistrationPort(s, outcome)
  BY DEF AnnouncerHandles, announce_service_creation
<1>2. announcer'[s] = RunHandler(announcer[s], h, <<Announced[s]>>, outcome)
  BY <1>1 DEF DiscoveryInv, DiscoveryTypeOK
<1>3. announcer' = [announcer EXCEPT ![s] = announcer'[s]]
  BY <1>1, <1>2
<1>4. <<Announced[s]>> \in Seq(Announcements) /\ announcer[s].ready[h] > 0
  BY AnnouncerEffect DEF AnnouncerHandles
<1> DEFINE t == announcer[s]
           text == <<Announced[s]>>
<1>0. ASSUME NEW o \in Handlers
      PROVE  /\ RunHandler(t, h, text, o) \in Sender(Announcements)
             /\ Broadcasts(h) => RunHandler(t, h, text, o).buffer = t.buffer \o text
             /\ ~Broadcasts(h) => RunHandler(t, h, text, o).buffer = t.buffer
  <2>1. t \in Sender(Announcements) /\ text \in Seq(Announcements) /\ t.ready[h] > 0
    BY <1>4, AnnouncerEffect
  <2> HIDE DEF t, text
  <2> QED BY <2>1, RunHandlerEffect
<1>5. CASE Broadcasts(h)
  <2>1. outcome \in Handlers
    BY <1>1, <1>5, OutcomesAreHandlers DEF Handlers
  <2>2. /\ announcer'[s] \in Sender(Announcements)
        /\ announcer'[s].buffer = announcer[s].buffer \o <<Announced[s]>>
    BY <1>0, <1>2, <1>5, <2>1
  <2>3. /\ \A i \in 1..Len(announcer'[s].buffer) : announcer'[s].buffer[i] = Announced[s]
        /\ Head(announcer'[s].buffer) = Announced[s]
    BY <2>2, AnnouncerEffect, SameTextAgain
  <2>4. UNCHANGED registryVars \/ Arrive(Announced[s])
    BY <1>1, <2>3 DEF OnRegistrationPort, ReachesRegistry
  <2> QED BY <1>3, <2>2, <2>3, <2>4 DEF AnnouncerStep
<1>6. CASE ~Broadcasts(h)
  <2>1. /\ "sent" \in Handlers
        /\ RunHandler(announcer[s], h, <<Announced[s]>>, outcome)
             = RunHandler(announcer[s], h, <<Announced[s]>>, "sent")
    BY <1>6 DEF Handlers, RunHandler, Broadcasts
  <2>2. /\ announcer'[s] \in Sender(Announcements)
        /\ announcer'[s].buffer = announcer[s].buffer
    BY <1>0, <1>2, <1>6, <2>1
  <2>3. outcome # "sent"
    BY <1>1, <1>6
  <2>4. UNCHANGED registryVars
    BY <1>1, <2>3 DEF OnRegistrationPort
  <2> QED BY <1>3, <2>2, <2>4, AnnouncerEffect DEF AnnouncerStep
<1> QED BY <1>5, <1>6

LEMMA AnnouncerWaits ==
  ASSUME DiscoveryInv, NEW s \in Services,
         AnnouncerTimer(s) \/ stop_service(s) \/ join_service(s)
  PROVE  AnnouncerStep(s) /\ UNCHANGED registryVars
<1>1. CASE AnnouncerTimer(s)
  <2>1. announcer'[s] = TimerExpires(announcer[s])
    BY <1>1 DEF AnnouncerTimer, DiscoveryInv, DiscoveryTypeOK
  <2>2. /\ announcer'[s] \in Sender(Announcements)
        /\ announcer'[s].buffer = announcer[s].buffer
    BY <2>1, AnnouncerEffect, TimerEffect
  <2> QED BY <1>1, <2>1, <2>2, AnnouncerEffect DEF AnnouncerTimer, AnnouncerStep
<1>2. CASE stop_service(s)
  <2>1. announcer'[s] = [announcer[s] EXCEPT !.stopped = TRUE]
    BY <1>2 DEF stop_service, DiscoveryInv, DiscoveryTypeOK
  <2>2. /\ announcer'[s] \in Sender(Announcements)
        /\ announcer'[s].buffer = announcer[s].buffer
    BY <2>1, AnnouncerEffect DEF Sender
  <2>3. announcer' = [announcer EXCEPT ![s] = announcer'[s]]
    BY <1>2, <2>1 DEF stop_service
  <2> QED BY <1>2, <2>2, <2>3, AnnouncerEffect DEF stop_service, AnnouncerStep
<1>3. CASE join_service(s)
  BY <1>3, AnnouncerEffect DEF join_service, AnnouncerStep, DiscoveryInv, DiscoveryTypeOK
<1> QED BY <1>1, <1>2, <1>3

-----------------------------------------------------------------------------
(* The registry.                                                           *)

\* The texts the services have announced only grow in number.
LEMMA StartedGrows ==
  ASSUME DiscoveryInv, DiscoveryNext
  PROVE  Started \subseteq Started'
<1>1. service \in [Services -> {"created", "up", "stopping", "down"}]
  BY DEF DiscoveryInv, DiscoveryTypeOK
<1>2. CASE UNCHANGED service
  BY <1>2 DEF Started
<1>3. ASSUME NEW s \in Services, NEW to \in {"up", "stopping", "down"},
             service' = [service EXCEPT ![s] = to]
      PROVE  Started \subseteq Started'
  BY <1>1, <1>3 DEF Started
<1> QED BY <1>2, <1>3 DEF DiscoveryNext, start_service, AnnouncerHandles, AnnouncerTimer,
          stop_service, join_service, RegistrySends, RegistryElse, serviceVars

\* A step of the registry that neither hears nor records.
Quiet ==
  /\ UNCHANGED <<arrived, accepted>>
  /\ listiner' = "recording" => listiner = "recording" /\ message' = message

\* What the registry knows was announced by a service that had been started.
LEMMA FollowsTheStarted ==
  ASSUME DiscoveryInv, Started \subseteq Started',
         (\E s \in Started' : Arrive(Announced[s])) \/ Hear \/ Record \/ Quiet
  PROVE  (FromStarted /\ KnownAreStarted)'
<1> DEFINE Texts == StartedTexts'
<1>1. StartedTexts \subseteq Texts
  BY DEF StartedTexts
<1>2. /\ \A i \in 1..Len(arrived) : arrived[i] \in Texts
      /\ listiner = "recording" => message \in Texts
      /\ \A i \in 1..Len(accepted) : accepted[i] \in Texts
  BY <1>1 DEF DiscoveryInv, FromStarted, KnownAreStarted
<1>3. /\ arrived \in Seq(Announcements \cup {Malformed})
      /\ accepted \in Seq(Announcements)
      /\ heard \in 0..Len(arrived)
      /\ listiner = "recording" => message \in Announcements
  BY DEF DiscoveryInv, IInv, TypeOK, HasMessage
<1>4. ASSUME NEW s \in Started', Arrive(Announced[s])
      PROVE  (FromStarted /\ KnownAreStarted)'
  <2>1. /\ arrived' = Append(arrived, Announced[s])
        /\ UNCHANGED <<message, listiner, accepted>>
    BY <1>4 DEF Arrive, histories
  <2>2. Announced[s] \in Texts
    BY <1>4 DEF StartedTexts
  <2> HIDE DEF Texts
  <2>3. \A i \in 1..Len(arrived') : arrived'[i] \in Texts
    BY <1>2, <1>3, <2>1, <2>2
  <2> USE DEF Texts
  <2> QED BY <1>2, <2>1, <2>3 DEF FromStarted, KnownAreStarted
<1>5. CASE Hear
  <2>1. /\ UNCHANGED <<arrived, accepted>> /\ message' = arrived[heard + 1]
        /\ heard + 1 \in 1..Len(arrived)
    BY <1>3, <1>5 DEF Hear, histories
  <2> QED BY <1>2, <2>1 DEF FromStarted, KnownAreStarted
<1>6. CASE Record
  <2>1. /\ listiner = "recording" /\ listiner' = "sending"
        /\ accepted' = Append(accepted, message) /\ UNCHANGED arrived
    BY <1>6 DEF Record, intake
  <2>2. message \in Texts /\ message \in Announcements
    BY <1>2, <1>3, <2>1
  <2> HIDE DEF Texts
  <2>3. \A i \in 1..Len(accepted') : accepted'[i] \in Texts
    BY <1>2, <1>3, <2>1, <2>2
  <2> USE DEF Texts
  <2> QED BY <1>2, <2>1, <2>3 DEF FromStarted, KnownAreStarted
<1>7. CASE Quiet
  BY <1>2, <1>7 DEF FromStarted, KnownAreStarted, Quiet
<1> QED BY <1>4, <1>5, <1>6, <1>7

\* Of the registry's steps only Hear and Record matter for what it knows.
LEMMA OthersAreQuiet ==
  ASSUME RegistrySends \/ (RegistryElse /\ ~Hear /\ ~Record) \/ UNCHANGED registryVars
  PROVE  Quiet
BY DEF RegistrySends, RegistryElse, Send, RunOne, RunOneReturns, ReceiveFails,
       ListinerReturns, Timer, start, StopListiner, wait, StopBroadcaster, JoinListiner,
       Destroy, Owner, Quiet, intake, histories, registryVars, vars

\* The broadcaster's datagrams keep their front.
LEMMA FrontStays ==
  ASSUME DiscoveryInv, DiscoveryNext, service_broadcaster.buffer # <<>>
  PROVE  /\ service_broadcaster'.buffer # <<>>
         /\ service_broadcaster'.buffer[1] = service_broadcaster.buffer[1]
<1>1. IInv /\ service_broadcaster \in Sender(Announcements)
  BY DEF DiscoveryInv, IInv, TypeOK
<1>2. CASE Send
  <2>1. service_broadcaster'.buffer = accepted
    BY <1>1, <1>2, SendEffect
  <2>2. /\ accepted = service_broadcaster.buffer \o <<message>>
        /\ message \in Announcements /\ service_broadcaster.buffer \in Seq(Announcements)
    BY <1>1, <1>2 DEF Send, IInv, RelayLog, HasMessage, Sender
  <2> DEFINE b == service_broadcaster.buffer
  <2>3. b \in Seq(Announcements) /\ b # <<>> /\ message \in Announcements
    BY <2>2
  <2> HIDE DEF b
  <2>4. b \o <<message>> # <<>> /\ (b \o <<message>>)[1] = b[1]
    BY <2>3
  <2> QED BY <2>1, <2>2, <2>4 DEF b
<1>3. ASSUME NEW h \in Handlers, RunOne(h)
      PROVE  service_broadcaster'.buffer = service_broadcaster.buffer
  BY <1>1, <1>3, RunOneEffect
<1>4. CASE Timer
  <2>1. service_broadcaster'.buffer = service_broadcaster.buffer
    BY <1>1, <1>4, TimerEffect DEF Timer
  <2> QED BY <2>1
<1>5. CASE StopBroadcaster
  <2>1. service_broadcaster'.buffer = service_broadcaster.buffer
    BY <1>1, <1>5 DEF StopBroadcaster, Sender
  <2> QED BY <2>1
<1>6. CASE UNCHANGED service_broadcaster
  BY <1>6
<1>7. ASSUME NEW s \in Services, AnnouncerStep(s)
      PROVE  UNCHANGED service_broadcaster
  BY <1>7 DEF AnnouncerStep, Arrive, registryVars, vars
<1>8. CASE RegistrySends
  BY <1>2, <1>3, <1>8 DEF RegistrySends
<1>9. CASE RegistryElse
  BY <1>4, <1>5, <1>6, <1>9 DEF RegistryElse, Hear, Record, RunOneReturns, ReceiveFails,
     ListinerReturns, start, StopListiner, wait, JoinListiner, Destroy
<1>10. ASSUME NEW s \in Services,
              \/ start_service(s) \/ (\E h \in Handlers : AnnouncerHandles(s, h))
              \/ AnnouncerTimer(s) \/ stop_service(s) \/ join_service(s)
       PROVE  UNCHANGED service_broadcaster
  BY <1>7, <1>10, StartsAnnouncing, HandlesAnnouncements, AnnouncerWaits
<1> QED BY <1>6, <1>8, <1>9, <1>10 DEF DiscoveryNext

\* The composition takes only steps the registry takes by itself.
LEMMA RegistryStep ==
  ASSUME DiscoveryInv, DiscoveryNext
  PROVE  [Next]_vars
<1>1. ASSUME NEW s \in Services, AnnouncerStep(s)
      PROVE  [Next]_vars
  BY <1>1, AnnouncerEffect DEF AnnouncerStep, Next, registryVars
<1>2. ASSUME NEW s \in Services,
             \/ start_service(s) \/ (\E h \in Handlers : AnnouncerHandles(s, h))
             \/ AnnouncerTimer(s) \/ stop_service(s) \/ join_service(s)
      PROVE  [Next]_vars
  BY <1>1, <1>2, StartsAnnouncing, HandlesAnnouncements, AnnouncerWaits
<1>3. CASE RegistrySends \/ RegistryElse
  BY <1>3 DEF RegistrySends, RegistryElse, Next
<1> QED BY <1>2, <1>3 DEF DiscoveryNext

\* What a step of the registry may tell the services is the front of its
\* datagrams, which is the first announcement it ever recorded.
LEMMA TellsTheFront ==
  ASSUME DiscoveryInv, RegistrySends
  PROVE  /\ UNCHANGED <<service, announcer, accepted>>
         /\ service_broadcaster'.buffer = accepted
         /\ accepted \in Seq(Announcements) /\ accepted # <<>>
         /\ \E L \in SUBSET Listening :
              told' = [s \in Services |->
                         IF s \in L THEN told[s] \cup {accepted[1]} ELSE told[s]]
<1>1. IInv
  BY DEF DiscoveryInv
<1>2. /\ service_broadcaster'.buffer = accepted
      /\ accepted \in Seq(Announcements) /\ accepted # <<>>
  <2>1. CASE Send
    BY <1>1, <2>1, SendEffect
  <2>2. ASSUME NEW h \in Handlers, RunOne(h)
        PROVE  /\ service_broadcaster'.buffer = accepted
               /\ accepted \in Seq(Announcements) /\ accepted # <<>>
    BY <1>1, <2>2, RunOneEffect
  <2> QED BY <2>1, <2>2 DEF RegistrySends
<1>3. UNCHANGED <<service, announcer, accepted>>
  BY DEF RegistrySends, Send, RunOne
<1>4. Head(service_broadcaster'.buffer) = accepted[1]
  BY <1>2
<1>5. CASE UNCHANGED told
  <2>1. told' = [s \in Services |->
                   IF s \in {} THEN told[s] \cup {accepted[1]} ELSE told[s]]
    BY <1>5 DEF DiscoveryInv, DiscoveryTypeOK
  <2>2. {} \in SUBSET Listening
    OBVIOUS
  <2>3. \E L \in SUBSET Listening :
          told' = [s \in Services |->
                     IF s \in L THEN told[s] \cup {accepted[1]} ELSE told[s]]
    BY <2>1, <2>2, Zenon
  <2> QED BY <1>2, <1>3, <2>3
<1>6. CASE \E L \in (IF Lossy THEN SUBSET Listening ELSE {Listening}) : Hears(L)
  BY <1>2, <1>3, <1>4, <1>6 DEF Hears
<1> QED BY <1>5, <1>6 DEF RegistrySends, Tells

LEMMA ServicesKeepTheirType ==
  ASSUME DiscoveryInv, DiscoveryNext
  PROVE  /\ service' \in [Services -> {"created", "up", "stopping", "down"}]
         /\ announcer' \in [Services -> Sender(Announcements)]
         /\ OwnTextOnly'
<1>1. /\ service \in [Services -> {"created", "up", "stopping", "down"}]
      /\ announcer \in [Services -> Sender(Announcements)]
      /\ OwnTextOnly
  BY DEF DiscoveryInv, DiscoveryTypeOK
<1>2. service' \in [Services -> {"created", "up", "stopping", "down"}]
  BY <1>1 DEF DiscoveryNext, start_service, AnnouncerHandles, AnnouncerTimer,
     stop_service, join_service, RegistrySends, RegistryElse, serviceVars
<1>3. ASSUME NEW s \in Services, AnnouncerStep(s)
      PROVE  announcer' \in [Services -> Sender(Announcements)] /\ OwnTextOnly'
  BY <1>1, <1>3 DEF AnnouncerStep, OwnTextOnly
<1>4. ASSUME NEW s \in Services,
             \/ start_service(s) \/ (\E h \in Handlers : AnnouncerHandles(s, h))
             \/ AnnouncerTimer(s) \/ stop_service(s) \/ join_service(s)
      PROVE  announcer' \in [Services -> Sender(Announcements)] /\ OwnTextOnly'
  BY <1>3, <1>4, StartsAnnouncing, HandlesAnnouncements, AnnouncerWaits
<1>5. CASE RegistrySends \/ RegistryElse
  BY <1>1, <1>5 DEF RegistrySends, RegistryElse, serviceVars, OwnTextOnly
<1> QED BY <1>2, <1>4, <1>5 DEF DiscoveryNext

\* A service that announces itself has been started.
LEMMA AnnouncersAreStarted ==
  ASSUME DiscoveryInv, NEW s \in Services,
         start_service(s) \/ \E h \in Handlers : AnnouncerHandles(s, h)
  PROVE  s \in Started'
BY DEF DiscoveryInv, DiscoveryTypeOK, start_service, AnnouncerHandles, Started

LEMMA DiscoveryInitially == DiscoveryInit => DiscoveryInv
<1> SUFFICES ASSUME DiscoveryInit PROVE DiscoveryInv
  OBVIOUS
<1>1. IInv
  BY Initially DEF DiscoveryInit
<1>2. DiscoveryTypeOK
  BY <1>1, NewSenderType DEF DiscoveryInit, DiscoveryTypeOK, IInv
<1>3. OwnTextOnly
  BY DEF DiscoveryInit, OwnTextOnly, NewSender
<1>4. FromStarted /\ KnownAreStarted
  BY DEF DiscoveryInit, Init, FromStarted, KnownAreStarted
<1>5. ToldTheFront
  BY DEF DiscoveryInit, ToldTheFront
<1> QED BY <1>1, <1>2, <1>3, <1>4, <1>5 DEF DiscoveryInv

LEMMA DiscoveryStep == ASSUME DiscoveryInv, DiscoveryNext PROVE DiscoveryInv'
<1>1. IInv'
  BY RegistryStep, Inductive DEF DiscoveryInv
<1>2. told \in [Services -> SUBSET Announcements]
  BY DEF DiscoveryInv, DiscoveryTypeOK
<1>3. UNCHANGED told \/ RegistrySends
  BY DEF DiscoveryNext, start_service, AnnouncerHandles, AnnouncerTimer, stop_service,
     join_service, RegistryElse, serviceVars
<1>4. told' \in [Services -> SUBSET Announcements] /\ ToldTheFront'
  <2>1. ToldTheFront
    BY DEF DiscoveryInv
  <2>2. CASE UNCHANGED told
    BY <1>2, <2>1, <2>2, FrontStays DEF ToldTheFront
  <2>3. CASE RegistrySends
    <3>1. PICK L \in SUBSET Listening :
            told' = [s \in Services |->
                       IF s \in L THEN told[s] \cup {accepted[1]} ELSE told[s]]
      BY <2>3, TellsTheFront
    <3>2. /\ service_broadcaster'.buffer = accepted /\ accepted # <<>>
          /\ accepted[1] \in Announcements
      BY <2>3, TellsTheFront
    <3>3. \A s \in Services : \A m \in told[s] : m = accepted[1]
      BY <2>1, <3>2, FrontStays DEF ToldTheFront
    <3> QED BY <1>2, <3>1, <3>2, <3>3 DEF ToldTheFront
  <2> QED BY <1>3, <2>2, <2>3
<1>5. DiscoveryTypeOK' /\ OwnTextOnly'
  BY <1>1, <1>4, ServicesKeepTheirType DEF DiscoveryTypeOK, IInv
<1>6. (FromStarted /\ KnownAreStarted)'
  <2>1. Started \subseteq Started'
    BY StartedGrows
  <2>2. ASSUME NEW s \in Services,
               start_service(s) \/ \E h \in Handlers : AnnouncerHandles(s, h)
        PROVE  (\E t \in Started' : Arrive(Announced[t])) \/ Quiet
    <3>1. s \in Started'
      BY <2>2, AnnouncersAreStarted
    <3>2. AnnouncerStep(s)
      BY <2>2, StartsAnnouncing, HandlesAnnouncements
    <3> QED BY <3>1, <3>2, OthersAreQuiet DEF AnnouncerStep
  <2>3. ASSUME NEW s \in Services, AnnouncerTimer(s) \/ stop_service(s) \/ join_service(s)
        PROVE  Quiet
    BY <2>3, AnnouncerWaits, OthersAreQuiet
  <2>4. RegistrySends \/ RegistryElse => Hear \/ Record \/ Quiet
    BY OthersAreQuiet
  <2>5. (\E s \in Started' : Arrive(Announced[s])) \/ Hear \/ Record \/ Quiet
    BY <2>2, <2>3, <2>4 DEF DiscoveryNext
  <2> QED BY <2>1, <2>5, FollowsTheStarted
<1> QED BY <1>1, <1>4, <1>5, <1>6 DEF DiscoveryInv

LEMMA DiscoveryStutters == ASSUME DiscoveryInv, UNCHANGED allVars PROVE DiscoveryInv'
<1>1. UNCHANGED vars /\ UNCHANGED <<service, announcer, told>>
  BY DEF allVars, registryVars, serviceVars
<1>2. IInv'
  BY <1>1, StutterStep DEF DiscoveryInv
<1>3. UNCHANGED <<arrived, listiner, message, accepted, service_broadcaster>>
  BY <1>1 DEF vars, intake, histories
<1>4. DiscoveryTypeOK'
  BY <1>1, <1>2 DEF DiscoveryInv, DiscoveryTypeOK, IInv
<1>5. (OwnTextOnly /\ FromStarted /\ KnownAreStarted /\ ToldTheFront)'
  BY <1>1, <1>3 DEF DiscoveryInv, OwnTextOnly, FromStarted, KnownAreStarted,
     ToldTheFront, StartedTexts, Started
<1> QED BY <1>2, <1>4, <1>5 DEF DiscoveryInv

LEMMA DiscoveryInvariance == DiscoverySpec => []DiscoveryInv
<1>1. DiscoveryInv /\ [DiscoveryNext]_allVars => DiscoveryInv'
  BY DiscoveryStep, DiscoveryStutters
<1> QED BY <1>1, DiscoveryInitially, PTL DEF DiscoverySpec

-----------------------------------------------------------------------------

\* Services and registry stay of their type, whatever the group loses.
THEOREM DiscoveryTypeCorrect == DiscoverySpec => []DiscoveryTypeOK
<1>1. DiscoveryInv => DiscoveryTypeOK
  BY DEF DiscoveryInv
<1> QED BY <1>1, DiscoveryInvariance, PTL

\* The registry, heard through a group of services, behaves as the registry by
\* itself, so all that is proved of it there (Registry.cpp) holds here too.
THEOREM ImplementsRegistry == DiscoverySpec => Spec
<1>1. DiscoveryInit => Init
  BY DEF DiscoveryInit
<1>2. DiscoveryInv /\ [DiscoveryNext]_allVars => [Next]_vars
  <2> SUFFICES ASSUME DiscoveryInv, [DiscoveryNext]_allVars PROVE [Next]_vars
    OBVIOUS
  <2>1. CASE DiscoveryNext
    BY <2>1, RegistryStep
  <2>2. CASE UNCHANGED allVars
    BY <2>2 DEF allVars, registryVars
  <2> QED BY <2>1, <2>2
<1> QED BY <1>1, <1>2, DiscoveryInvariance, PTL DEF DiscoverySpec, Spec

\* A service whose stop() and join() have returned is told nothing more
\* (Service.cpp:135-150): only services with a listener thread are.
THEOREM QuietAfterJoinHolds == DiscoverySpec => QuietAfterJoin
<1> DEFINE Kept == \A s \in Services : service[s] = "down" => told'[s] = told[s]
<1>1. DiscoveryInv /\ [DiscoveryNext]_allVars => [Kept]_allVars
  <2> SUFFICES ASSUME DiscoveryInv, DiscoveryNext, NEW s \in Services, service[s] = "down"
               PROVE  told'[s] = told[s]
    OBVIOUS
  <2>1. UNCHANGED told \/ RegistrySends
    BY DEF DiscoveryNext, start_service, AnnouncerHandles, AnnouncerTimer, stop_service,
       join_service, RegistryElse, serviceVars
  <2>2. CASE RegistrySends
    <3>1. PICK L \in SUBSET Listening :
            told' = [t \in Services |->
                       IF t \in L THEN told[t] \cup {accepted[1]} ELSE told[t]]
      BY <2>2, TellsTheFront
    <3>2. s \notin Listening
      BY DEF Listening
    <3> QED BY <3>1, <3>2
  <2> QED BY <2>1, <2>2
<1> QED BY <1>1, DiscoveryInvariance, PTL DEF DiscoverySpec, QuietAfterJoin

-----------------------------------------------------------------------------
(* The directory.                                                          *)

Known == {accepted[i] : i \in 1..Len(accepted)}

Told == UNION {told[s] : s \in Services}

LEMMA DirectoryVars ==
  ASSUME Started' = Started, Known' = Known, Told' = Told
  PROVE  UNCHANGED Directory!vars
BY DEF Directory!vars, Started, Known, Told

LEMMA ServicesDirectory ==
  ASSUME DiscoveryInv, NEW s \in Services,
         \/ start_service(s) \/ (\E h \in Handlers : AnnouncerHandles(s, h))
         \/ AnnouncerTimer(s) \/ stop_service(s) \/ join_service(s)
  PROVE  [Directory!Next]_(Directory!vars)
<1>1. UNCHANGED told
  BY DEF start_service, AnnouncerHandles, AnnouncerTimer, stop_service, join_service
<1>2. AnnouncerStep(s)
  BY StartsAnnouncing, HandlesAnnouncements, AnnouncerWaits
<1>3. UNCHANGED accepted
  BY <1>2 DEF AnnouncerStep, Arrive, histories, registryVars, vars
<1>4. Known' = Known /\ Told' = Told
  BY <1>1, <1>3 DEF Known, Told
<1>5. service \in [Services -> {"created", "up", "stopping", "down"}]
  BY DEF DiscoveryInv, DiscoveryTypeOK
<1>6. CASE start_service(s)
  <2>1. Started' = Started \cup {s}
    BY <1>5, <1>6 DEF start_service, Started
  <2> QED BY <1>4, <2>1 DEF Directory!Next, Directory!Start, Started, Known, Told
<1>7. CASE ~start_service(s)
  <2>1. Started' = Started
    BY <1>5, <1>7 DEF AnnouncerHandles, AnnouncerTimer, stop_service, join_service, Started
  <2> QED BY <1>4, <2>1, DirectoryVars
<1> QED BY <1>6, <1>7

LEMMA RecordRegisters ==
  ASSUME DiscoveryInv, Record, UNCHANGED serviceVars
  PROVE  Directory!Next
<1>1. accepted' = Append(accepted, message) /\ listiner = "recording"
  BY DEF Record
<1>2. accepted \in Seq(Announcements) /\ message \in Announcements
  BY <1>1 DEF DiscoveryInv, IInv, TypeOK, HasMessage
<1>3. PICK s \in Started : message = Announced[s]
  BY <1>1 DEF DiscoveryInv, FromStarted, StartedTexts
<1>4. Known' = Known \cup {Announced[s]}
  <2>1. /\ Len(accepted') = Len(accepted) + 1 /\ Len(accepted) \in Nat
        /\ \A i \in 1..Len(accepted) : accepted'[i] = accepted[i]
        /\ accepted'[Len(accepted) + 1] = Announced[s]
    BY <1>1, <1>2, <1>3
  <2>2. 1..(Len(accepted) + 1) = 1..Len(accepted) \cup {Len(accepted) + 1}
    BY <2>1
  <2> QED BY <2>1, <2>2 DEF Known
<1>5. Started' = Started /\ Told' = Told
  BY DEF serviceVars, Started, Told
<1>6. s \in Services /\ s \in Started
  BY DEF Started
<1> QED BY <1>4, <1>5, <1>6 DEF Directory!Next, Directory!Register, Started, Known, Told

LEMMA RegistryTells ==
  ASSUME DiscoveryInv, RegistrySends
  PROVE  [Directory!Next]_(Directory!vars)
<1>1. PICK L \in SUBSET Listening :
        told' = [s \in Services |->
                   IF s \in L THEN told[s] \cup {accepted[1]} ELSE told[s]]
  BY TellsTheFront
<1>2. /\ UNCHANGED <<service, accepted>> /\ service_broadcaster'.buffer = accepted
      /\ accepted \in Seq(Announcements) /\ accepted # <<>>
  BY TellsTheFront
<1>3. Started' = Started /\ Known' = Known
  BY <1>2 DEF Started, Known
<1>4. told \in [Services -> SUBSET Announcements] /\ L \subseteq Services
  BY DEF DiscoveryInv, DiscoveryTypeOK, Listening
<1>5. CASE L = {}
  <2>1. told' = told
    BY <1>1, <1>4, <1>5
  <2> QED BY <1>3, <2>1, DirectoryVars DEF Told
<1>6. CASE L # {}
  <2>1. 1 \in 1..Len(accepted)
    BY <1>2
  <2>2. PICK s \in Started : accepted[1] = Announced[s]
    BY <2>1 DEF DiscoveryInv, KnownAreStarted, StartedTexts
  <2>3. Announced[s] \in Known
    BY <2>1, <2>2 DEF Known
  <2>4. \A t \in Services : told[t] \subseteq {Announced[s]}
    <3>1. \A t \in Services : \A m \in told[t] : m = service_broadcaster'.buffer[1]
      BY FrontStays DEF DiscoveryInv, ToldTheFront, DiscoveryNext
    <3> QED BY <1>2, <2>2, <3>1
  <2>5. \A t \in Services : told'[t] \subseteq {Announced[s]}
    BY <1>1, <2>2, <2>4
  <2>6. PICK t \in L : Announced[s] \in told'[t]
    BY <1>1, <1>4, <1>6, <2>2
  <2>7. Told' = {Announced[s]} /\ Told \subseteq {Announced[s]}
    BY <1>4, <2>4, <2>5, <2>6 DEF Told
  <2>8. s \in Services
    BY DEF Started
  <2> QED BY <1>3, <2>3, <2>7, <2>8
          DEF Directory!Next, Directory!Tell, Started, Known, Told
<1> QED BY <1>5, <1>6

\* Services and registry implement the directory, for any number of services
\* and however datagrams are lost: a service is told only of what the registry
\* has recorded from a started service, and of its first entry only.
THEOREM ImplementsDirectory == DiscoverySpec => IsADirectory
<1>1. DiscoveryInit => Directory!Init
  BY DEF DiscoveryInit, Init, Directory!Init
<1>2. DiscoveryInv /\ [DiscoveryNext]_allVars => [Directory!Next]_(Directory!vars)
  <2> SUFFICES ASSUME DiscoveryInv, [DiscoveryNext]_allVars
               PROVE  [Directory!Next]_(Directory!vars)
    OBVIOUS
  <2>1. CASE RegistryElse /\ ~Record
    <3>1. UNCHANGED <<service, told, accepted>>
      BY <2>1 DEF RegistryElse, serviceVars, Hear, RunOneReturns, ReceiveFails, histories,
         ListinerReturns, Timer, start, StopListiner, wait, StopBroadcaster, JoinListiner,
         Destroy
    <3> QED BY <3>1, DirectoryVars DEF Started, Known, Told
  <2>2. CASE UNCHANGED allVars
    <3>1. UNCHANGED <<service, told, accepted>>
      BY <2>2 DEF allVars, serviceVars, registryVars, vars, histories
    <3> QED BY <3>1, DirectoryVars DEF Started, Known, Told
  <2>3. CASE RegistryElse /\ Record
    BY <2>3, RecordRegisters DEF RegistryElse
  <2> QED BY <2>1, <2>2, <2>3, ServicesDirectory, RegistryTells DEF DiscoveryNext
<1> QED BY <1>1, <1>2, DiscoveryInvariance, PTL DEF DiscoverySpec, IsADirectory, Directory!Spec

-----------------------------------------------------------------------------
(* What a service can count on when nothing is lost.                       *)

\* Nothing has kept a datagram from the registry's socket.
Delivers ==
  /\ ~Lossy /\ ~NetworkFails
  /\ owner # "destroyed" /\ Len(arrived) < MaxArrivals

\* The first announcement of a service is sent by start() itself.
ArrivedWhenStarted ==
  Delivers => \A s \in Started : \E i \in 1..Len(arrived) : arrived[i] = Announced[s]

NothingWrittenYet == \A s \in Services : service[s] = "created" => announcer[s].buffer = <<>>

\* A registry that has caught up with its socket has every started service in
\* its table: what is left of Registers is that it does catch up.
RegisteredOnceHeard ==
  Delivers /\ heard = Len(arrived) /\ listiner # "recording"
    => \A s \in Services : service[s] # "created" => Key(Announced[s]) \in DOMAIN services

\* The datagrams that arrived stay where they are.
LEMMA ArrivalsStay ==
  ASSUME IInv, [Next]_vars
  PROVE  /\ arrived \in Seq(Announcements \cup {Malformed}) /\ Len(arrived) \in Nat
         /\ Len(arrived') \in Nat /\ Len(arrived') >= Len(arrived)
         /\ \A i \in 1..Len(arrived) : arrived'[i] = arrived[i]
         /\ owner = "destroyed" => owner' = "destroyed"
<1>1. arrived \in Seq(Announcements \cup {Malformed})
  BY DEF IInv, TypeOK
<1>2. CASE \E m \in Announcements \cup {Malformed} : Arrive(m)
  BY <1>1, <1>2 DEF Arrive
<1>3. CASE UNCHANGED arrived /\ (owner = "destroyed" => owner' = "destroyed")
  BY <1>1, <1>3
<1> QED
  BY <1>2, <1>3
     DEF Next, vars, intake, Hear, Record, Send, RunOne, RunOneReturns, ReceiveFails,
         ListinerReturns, Timer, start, StopListiner, wait, StopBroadcaster, JoinListiner,
         Destroy, Owner

\* start() puts the announcement on the group, and nothing can have filled the
\* sender's buffer before.
LEMMA StartArrives ==
  ASSUME DiscoveryInv, NothingWrittenYet, NEW s \in Services, start_service(s), Delivers
  PROVE  arrived' = Append(arrived, Announced[s])
<1> DEFINE text == <<Announced[s]>>
<1>1. PICK outcome \in Outcomes(announcer[s], text) :
        /\ announcer' = [announcer EXCEPT ![s] = multicast_broadcast(announcer[s], text, outcome)]
        /\ OnRegistrationPort(s, outcome)
  BY DEF start_service, announce_service_creation
<1>2. announcer[s].buffer = <<>> /\ Announced[s] \in Announcements
  BY AnnouncerEffect DEF NothingWrittenYet, start_service
<1>3. outcome = "sent"
  <2>1. Len(<<>> \o text) = 1
    OBVIOUS
  <2>2. ~(Len(<<>> \o text) > MaxDatagram) /\ ~NetworkFails
    BY <2>1, SenderAssumption DEF Delivers
  <2> HIDE DEF text
  <2> QED BY <1>1, <1>2, <2>2 DEF Outcomes
<1>4. Head(announcer'[s].buffer) = Announced[s]
  <2>1. announcer'[s] = multicast_broadcast(announcer[s], text, outcome)
    BY <1>1 DEF DiscoveryInv, DiscoveryTypeOK
  <2>2. announcer'[s].buffer = <<>> \o text
    <3>1. text \in Seq(Announcements) /\ outcome \in Handlers
      BY <1>2, <1>3 DEF Handlers
    <3> QED BY <1>2, <2>1, <3>1, AnnouncerEffect, BroadcastEffect
  <2> QED BY <2>2
<1>5. Arrive(Announced[s]) \/ Lossy \/ owner = "destroyed" \/ Len(arrived) = MaxArrivals
  BY <1>1, <1>3, <1>4 DEF OnRegistrationPort, ReachesRegistry
<1>6. Len(arrived) \in Nat
  BY DEF DiscoveryInv, IInv, TypeOK
<1> QED BY <1>5, <1>6, RegistryAssumption DEF Delivers, Arrive

LEMMA NothingWrittenStep ==
  ASSUME DiscoveryInv, NothingWrittenYet, DiscoveryNext
  PROVE  NothingWrittenYet'
<1>1. /\ service \in [Services -> {"created", "up", "stopping", "down"}]
      /\ announcer \in [Services -> Sender(Announcements)]
  BY DEF DiscoveryInv, DiscoveryTypeOK
<1>2. ASSUME NEW s \in Services, start_service(s) \/ stop_service(s) \/ join_service(s)
      PROVE  NothingWrittenYet'
  BY <1>1, <1>2 DEF start_service, stop_service, join_service, NothingWrittenYet
<1>3. ASSUME NEW s \in Services, NEW h \in Handlers, AnnouncerHandles(s, h)
      PROVE  NothingWrittenYet'
  BY <1>1, <1>3 DEF AnnouncerHandles, NothingWrittenYet
<1>4. ASSUME NEW s \in Services, AnnouncerTimer(s)
      PROVE  NothingWrittenYet'
  <2>1. announcer' = [announcer EXCEPT ![s] = TimerExpires(announcer[s])]
    BY <1>1, <1>4 DEF AnnouncerTimer
  <2>2. TimerExpires(announcer[s]).buffer = announcer[s].buffer
    BY <1>1, TimerEffect
  <2> QED BY <1>1, <1>4, <2>1, <2>2 DEF AnnouncerTimer, NothingWrittenYet
<1>5. CASE UNCHANGED <<service, announcer>>
  BY <1>5 DEF NothingWrittenYet
<1> QED BY <1>2, <1>3, <1>4, <1>5 DEF DiscoveryNext, RegistrySends, RegistryElse, serviceVars

LEMMA ArrivedStep ==
  ASSUME DiscoveryInv, NothingWrittenYet, ArrivedWhenStarted, DiscoveryNext
  PROVE  ArrivedWhenStarted'
<1> SUFFICES ASSUME Delivers', NEW s \in Started'
             PROVE  \E i \in 1..Len(arrived') : arrived'[i] = Announced[s]
  BY DEF ArrivedWhenStarted
<1>1. /\ arrived \in Seq(Announcements \cup {Malformed}) /\ Len(arrived) \in Nat
      /\ Len(arrived') \in Nat /\ Len(arrived') >= Len(arrived)
      /\ \A i \in 1..Len(arrived) : arrived'[i] = arrived[i]
      /\ owner = "destroyed" => owner' = "destroyed"
  BY RegistryStep, ArrivalsStay DEF DiscoveryInv
<1>2. Delivers
  BY <1>1, RegistryAssumption DEF Delivers
<1>3. CASE s \in Started
  <2>1. PICK i \in 1..Len(arrived) : arrived[i] = Announced[s]
    BY <1>2, <1>3 DEF ArrivedWhenStarted
  <2> QED BY <1>1, <2>1
<1>4. CASE s \notin Started
  <2>1. s \in Services /\ service[s] = "created" /\ service'[s] # "created"
    BY <1>4 DEF Started
  <2>2. start_service(s)
    BY <2>1 DEF DiscoveryNext, start_service, AnnouncerHandles, AnnouncerTimer, stop_service,
       join_service, RegistrySends, RegistryElse, serviceVars, DiscoveryInv, DiscoveryTypeOK
  <2>3. arrived' = Append(arrived, Announced[s])
    BY <1>2, <2>1, <2>2, StartArrives
  <2>4. Len(arrived') \in 1..Len(arrived') /\ arrived'[Len(arrived')] = Announced[s]
    BY <1>1, <2>3
  <2> QED BY <2>4
<1> QED BY <1>3, <1>4

\* Between start() and the table nothing of a service can get lost but by the
\* network: its announcement leaves before start() returns, and a registry that
\* has heard all that arrived has it in the table (Multicast_Sender.cpp,
\* Registry.cpp:58-72).
THEOREM RegisteredOnceHeardHolds == DiscoverySpec => []RegisteredOnceHeard
<1> DEFINE J == DiscoveryInv /\ NothingWrittenYet /\ ArrivedWhenStarted
<1>1. DiscoveryInit => J
  <2>1. DiscoveryInit => NothingWrittenYet
    BY DEF DiscoveryInit, NothingWrittenYet, NewSender
  <2>2. DiscoveryInit => ArrivedWhenStarted
    BY DEF DiscoveryInit, ArrivedWhenStarted, Started
  <2> QED BY <2>1, <2>2, DiscoveryInitially
<1>2. J /\ [DiscoveryNext]_allVars => J'
  <2>1. CASE DiscoveryNext
    BY <2>1, DiscoveryStep, NothingWrittenStep, ArrivedStep
  <2>2. ASSUME UNCHANGED allVars, J PROVE J'
    <3>1. UNCHANGED <<service, announcer, arrived, owner>>
      BY <2>2 DEF allVars, registryVars, serviceVars, vars, intake
    <3> QED
      BY <2>2, <3>1, DiscoveryStutters
         DEF NothingWrittenYet, ArrivedWhenStarted, Delivers, Started
  <2> QED BY <2>1, <2>2
<1>3. J /\ IInv /\ HeardInv => RegisteredOnceHeard
  <2> SUFFICES ASSUME J, IInv, TableShowsLatestHeard, Delivers, heard = Len(arrived),
                      listiner # "recording", NEW s \in Services, service[s] # "created"
               PROVE  Key(Announced[s]) \in DOMAIN services
    BY DEF RegisteredOnceHeard, HeardInv
  <2>1. PICK i \in 1..Len(arrived) : arrived[i] = Announced[s]
    BY DEF ArrivedWhenStarted, Started
  <2>2. arrived[i] # Malformed
    BY <2>1, DiscoveryAssumption, RegistryAssumption
  <2>3. i \in Recorded
    BY <2>2 DEF Recorded
  <2> QED BY <2>1, <2>3 DEF TableShowsLatestHeard
<1> HIDE DEF J
<1>4. DiscoverySpec => []J
  BY <1>1, <1>2, PTL DEF DiscoverySpec
<1> QED BY <1>3, <1>4, ImplementsRegistry, HeardInvariance, PTL

-----------------------------------------------------------------------------
(* Progress, with the conventions of Registry_proofs.                      *)

\* Some handler of the broadcaster may run in run_one().
RunsOne ==
  /\ listiner = "run_one" /\ ~service_broadcaster.stopped
  /\ \E h \in Handlers : service_broadcaster.ready[h] > 0

HearingReady ==
  \/ listiner = "recording"
  \/ listiner = "waiting" /\ ~listiner_stopped /\ heard < Len(arrived)

HearingGoesOn == [](HearingReady => ENABLED <<RegistryHears>>_allVars)

SendingGoesOn == [](listiner = "sending" \/ RunsOne => ENABLED <<RegistrySends>>_allVars)

ReturningGoesOn ==
  [](listiner = "run_one" /\ service_broadcaster.stopped => ENABLED <<RegistryReturns>>_allVars)

\* A context that was stopped stays so, and runs nothing more.
LEMMA BroadcasterStaysStopped ==
  ASSUME PInv, [Next]_vars, listiner = "run_one", service_broadcaster.stopped
  PROVE  listiner' = "waiting" \/ (listiner' = "run_one" /\ service_broadcaster'.stopped)
<1>1. service_broadcaster \in Sender(Announcements)
  BY DEF PInv, IInv, TypeOK
<1>2. CASE Timer
  BY <1>1, <1>2 DEF Timer, TimerExpires, Sender
<1>3. CASE StopBroadcaster
  BY <1>1, <1>3 DEF StopBroadcaster, Sender
<1>4. CASE UNCHANGED service_broadcaster
  BY <1>4 DEF Next, vars, Arrive, Hear, Record, Send, RunOne, RunOneReturns, ReceiveFails,
              ListinerReturns, Timer, start, StopListiner, wait, StopBroadcaster,
              JoinListiner, Destroy, Owner, PInv, IInv, NotStarted
<1> QED
  BY <1>2, <1>3, <1>4
     DEF Next, vars, Arrive, Hear, Record, Send, RunOne, RunOneReturns, ReceiveFails,
         ListinerReturns, start, StopListiner, wait, JoinListiner, Destroy

\* The registry of the composition goes on hearing what arrives, whatever the
\* services do and the group loses (Registry.cpp:31): with RegisteredOnceHeard this
\* is Registers, one datagram after the other.
THEOREM DiscoveryHears ==
  DiscoveryFairSpec /\ HearingGoesOn /\ SendingGoesOn /\ ReturningGoesOn
    => HearsWhatArrives
<1> SUFFICES ASSUME NEW n \in 0..(MaxArrivals - 1)
             PROVE  DiscoveryFairSpec /\ HearingGoesOn /\ SendingGoesOn /\ ReturningGoesOn =>
                      ((heard = n /\ Len(arrived) > n /\ owner = "serving")
                         ~> (heard > n \/ listiner_stopped))
  BY DEF HearsWhatArrives
<1> DEFINE Arrived == heard = n /\ Len(arrived) > n /\ ~listiner_stopped
           Recording == Arrived /\ listiner = "recording"
           Sending == Arrived /\ listiner = "sending"
           Running == Arrived /\ listiner = "run_one" /\ ~service_broadcaster.stopped
           Idle == Arrived /\ listiner = "run_one" /\ service_broadcaster.stopped
           Waiting == Arrived /\ listiner = "waiting"
           Due == heard = n /\ Len(arrived) > n /\ owner = "serving"
           Done == heard > n \/ listiner_stopped
<1>0. n \in Nat
  OBVIOUS
<1>1. PInv /\ Due => Recording \/ Sending \/ Running \/ Idle \/ Waiting \/ Done
  <2> SUFFICES ASSUME PInv, Due, ~Done
               PROVE  listiner \in {"recording", "sending", "run_one", "waiting"}
    OBVIOUS
  <2> QED BY DEF PInv, IInv, TypeOK, InStep
<1>2. PInv /\ Recording /\ [Next]_vars => Recording' \/ Sending' \/ Done'
  BY <1>0, ListinerHears
<1>3. PInv /\ Sending /\ [Next]_vars => Sending' \/ Running' \/ Idle' \/ Done'
  BY <1>0, ListinerHears
<1>4. PInv /\ Running /\ [Next]_vars => Running' \/ Idle' \/ Waiting' \/ Done'
  BY <1>0, ListinerHears
<1>5. PInv /\ Idle /\ [Next]_vars => Idle' \/ Waiting' \/ Done'
  BY <1>0, ListinerHears, BroadcasterStaysStopped
<1>6. PInv /\ Waiting /\ [Next]_vars => Waiting' \/ Done'
  BY <1>0, ListinerHears
<1>7. /\ Recording /\ <<RegistryHears>>_allVars => ~Recording'
      /\ Sending /\ <<RegistrySends>>_allVars => ~Sending'
      /\ Running /\ <<RegistrySends>>_allVars => ~Running'
      /\ Idle /\ <<RegistryReturns>>_allVars => ~Idle'
  BY DEF RegistryHears, RegistryReturns, RegistrySends, Hear, Record, Send, RunOne, RunOneReturns,
         ListinerReturns
<1>8. PInv /\ Waiting /\ <<RegistryHears>>_allVars => Done'
  BY <1>0 DEF RegistryHears, Hear, Record
<1>9. /\ PInv /\ (Recording \/ Waiting) => HearingReady
      /\ PInv /\ (Sending \/ Running) => listiner = "sending" \/ RunsOne
      /\ Idle => listiner = "run_one" /\ service_broadcaster.stopped
  BY <1>0 DEF PInv, IInv, TypeOK, RunOneIsPrompt, BroadcasterReady, RunsOne, HearingReady
<1> HIDE DEF Recording, Sending, Running, Idle, Waiting, Due, Done
<1>10. DiscoveryFairSpec => [][Next]_vars /\ []PInv
  BY ImplementsRegistry, Progress, PTL DEF DiscoveryFairSpec, Spec
<1>11. DiscoveryFairSpec => /\ WF_allVars(RegistryHears)
                            /\ WF_allVars(RegistrySends)
                            /\ WF_allVars(RegistryReturns)
  BY PTL DEF DiscoveryFairSpec
<1>12. DiscoveryFairSpec /\ HearingGoesOn => (Waiting ~> Done)
  BY <1>6, <1>8, <1>9, <1>10, <1>11, PTL DEF HearingGoesOn
<1>13. DiscoveryFairSpec /\ ReturningGoesOn => (Idle ~> Waiting \/ Done)
  BY <1>5, <1>7, <1>9, <1>10, <1>11, PTL DEF ReturningGoesOn
<1>14. DiscoveryFairSpec /\ SendingGoesOn => (Running ~> Idle \/ Waiting \/ Done)
  BY <1>4, <1>7, <1>9, <1>10, <1>11, PTL DEF SendingGoesOn
<1>15. DiscoveryFairSpec /\ SendingGoesOn => (Sending ~> Running \/ Idle \/ Done)
  BY <1>3, <1>7, <1>9, <1>10, <1>11, PTL DEF SendingGoesOn
<1>16. DiscoveryFairSpec /\ HearingGoesOn => (Recording ~> Sending \/ Done)
  BY <1>2, <1>7, <1>9, <1>10, <1>11, PTL DEF HearingGoesOn
<1>17. DiscoveryFairSpec /\ HearingGoesOn /\ SendingGoesOn /\ ReturningGoesOn
         => (Due ~> Done)
  BY <1>1, <1>10, <1>12, <1>13, <1>14, <1>15, <1>16, PTL
<1> QED BY <1>17, PTL DEF Due, Done
=============================================================================
