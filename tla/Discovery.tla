----------------------------- MODULE Discovery -----------------------------
(***************************************************************************)
(* Services (Service.cpp) and one registry on a multicast group.  A        *)
(* service's sender announces the service on the registration port, where  *)
(* the registry listens; the registry's datagrams reach, on the            *)
(* announcement port, the listeners of the services that are up.  The      *)
(* network loses datagrams.  A late, repeated or overtaken datagram of a   *)
(* service shows the same front as any other of its datagrams, so order    *)
(* matters only between services, and that every interleaving gives.       *)
(***************************************************************************)
EXTENDS Registry

CONSTANTS
  Services,
  Announced,   \* service_config: the announcement of each service
  Lossy        \* does the network lose datagrams?

ASSUME DiscoveryAssumption ==
  /\ Announced \in [Services -> Announcements]
  /\ Lossy \in BOOLEAN

VARIABLES
  service,     \* "created", "up", "stopping", "down"
  announcer,   \* multicast_announcement of each service
  told         \* what its service_broadcast_callback was called with

serviceVars == <<service, announcer, told>>
registryVars == vars
allVars == <<registryVars, serviceVars>>

DiscoveryInit ==
  /\ Init
  /\ service = [s \in Services |-> "created"]
  /\ announcer = [s \in Services |-> NewSender]
  /\ told = [s \in Services |-> {}]

-----------------------------------------------------------------------------
(* The services.                                                           *)

\* The front of a datagram on the registration port reaches the registry's
\* socket unless the network or the socket drops it or the registry is gone.
ReachesRegistry(m) ==
  \/ /\ owner # "destroyed" /\ Arrive(m)
  \/ /\ Lossy \/ owner = "destroyed" \/ Len(arrived) = MaxArrivals
     /\ UNCHANGED registryVars

\* What a listener reads from a datagram is the text it begins with.
OnRegistrationPort(s, outcome) ==
  IF outcome = "sent" THEN ReachesRegistry(Head(announcer'[s].buffer))
  ELSE UNCHANGED registryVars

\* Seeded fault: the configuration is read before the constructor has set it.
announce_service_creation_Default(s) == <<NoMessage>>

\* What the message function of the sender writes.
announce_service_creation(s) == <<Announced[s]>>

start_service(s) ==
  /\ service[s] = "created"
  /\ service' = [service EXCEPT ![s] = "up"]
  /\ \E outcome \in Outcomes(announcer[s], announce_service_creation(s)) :
       /\ announcer' = [announcer EXCEPT ![s] =
            multicast_broadcast(@, announce_service_creation(s), outcome)]
       /\ OnRegistrationPort(s, outcome)
  /\ UNCHANGED told

\* The thread of multicast_announcement.
AnnouncerHandles(s, h) ==
  /\ service[s] \in {"up", "stopping"}
  /\ ~announcer[s].stopped /\ announcer[s].ready[h] > 0
  /\ \E outcome \in IF Broadcasts(h)
                    THEN Outcomes(announcer[s], announce_service_creation(s))
                    ELSE {"none"} :
       /\ announcer' = [announcer EXCEPT ![s] =
            RunHandler(@, h, announce_service_creation(s), outcome)]
       /\ OnRegistrationPort(s, outcome)
  /\ UNCHANGED <<service, told>>

AnnouncerTimer(s) ==
  /\ announcer[s].armed = 1
  /\ announcer' = [announcer EXCEPT ![s] = TimerExpires(@)]
  /\ UNCHANGED <<registryVars, service, told>>

stop_service(s) ==
  /\ service[s] = "up"
  /\ service' = [service EXCEPT ![s] = "stopping"]
  /\ announcer' = [announcer EXCEPT ![s].stopped = TRUE]
  /\ UNCHANGED <<registryVars, told>>

\* join() of both threads, after which no callback is called.
join_service(s) ==
  /\ service[s] = "stopping"
  /\ service' = [service EXCEPT ![s] = "down"]
  /\ UNCHANGED <<registryVars, announcer, told>>

-----------------------------------------------------------------------------
(* The registry's steps, and what the services hear of them.               *)

\* The listeners of the services read one announcement from the front.
Hears(L) ==
  told' = [s \in Services |->
             IF s \in L THEN told[s] \cup {Head(service_broadcaster'.buffer)}
             ELSE told[s]]

\* Seeded fault: a listener is heard from the start, and never leaves.
Listening_Always == Services

Listening == {s \in Services : service[s] \in {"up", "stopping"}}

\* A datagram has left when one more handler is ready to be told so.
Tells ==
  IF service_broadcaster'.ready["sent"] > service_broadcaster.ready["sent"]
  THEN \E L \in (IF Lossy THEN SUBSET Listening ELSE {Listening}) : Hears(L)
  ELSE UNCHANGED told

RegistrySends ==
  /\ \/ Send
     \/ \E h \in Handlers : RunOne(h)
  /\ Tells
  /\ UNCHANGED <<service, announcer>>

RegistryElse ==
  /\ \/ Hear
     \/ Record
     \/ RunOneReturns
     \/ NetworkFails /\ ReceiveFails
     \/ ListinerReturns
     \/ Timer
     \/ start
     \/ StopListiner
     \/ wait
     \/ StopBroadcaster
     \/ JoinListiner
     \/ Destroy
  /\ UNCHANGED serviceVars

DiscoveryNext ==
  \/ \E s \in Services :
       \/ start_service(s)
       \/ \E h \in Handlers : AnnouncerHandles(s, h)
       \/ AnnouncerTimer(s)
       \/ stop_service(s)
       \/ join_service(s)
  \/ RegistrySends
  \/ RegistryElse

DiscoverySpec == DiscoveryInit /\ [][DiscoveryNext]_allVars

RegistryHears == (Hear \/ Record) /\ UNCHANGED serviceVars

RegistryReturns == (RunOneReturns \/ ListinerReturns) /\ UNCHANGED serviceVars

\* Every thread that can run does; time passes for the services' timers.
DiscoveryFairSpec ==
  /\ DiscoverySpec
  /\ \A s \in Services :
       /\ WF_allVars(\E h \in Handlers : AnnouncerHandles(s, h))
       /\ WF_allVars(AnnouncerTimer(s))
  /\ WF_allVars(RegistryHears) /\ WF_allVars(RegistrySends) /\ WF_allVars(RegistryReturns)
  /\ WF_allVars((start \/ Shutdown) /\ UNCHANGED serviceVars)

-----------------------------------------------------------------------------
(* Properties.                                                             *)

DiscoveryTypeOK ==
  /\ TypeOK
  /\ service \in [Services -> {"created", "up", "stopping", "down"}]
  /\ announcer \in [Services -> Sender(Announcements)]
  /\ told \in [Services -> SUBSET Announcements]

Directory == INSTANCE Directory
  WITH started <- {s \in Services : service[s] # "created"},
       known   <- {accepted[i] : i \in 1..Len(accepted)},
       told    <- UNION {told[s] : s \in Services}

\* The services and the registry implement the directory, however the network
\* loses datagrams: the registry learns of started services only, and a service
\* is told of what the registry knows - and of nothing but its first entry.
IsADirectory == Directory!Spec

\* A service whose stop() and join() have returned is told nothing more: its
\* callback may be destroyed.
QuietAfterJoin ==
  [][\A s \in Services : service[s] = "down" => told'[s] = told[s]]_allVars

\* Service.h:39: services register automatically: when no datagram is lost, a
\* service that is up gets into the registry's table.
Registers ==
  \A s \in Services :
    (service[s] = "up" /\ owner = "serving")
      ~> (Key(Announced[s]) \in DOMAIN services \/ listiner_stopped)
=============================================================================
