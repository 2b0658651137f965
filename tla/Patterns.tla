------------------------------ MODULE Patterns ------------------------------
(***************************************************************************)
(* The six nanomsg patterns (net/patterns): objects that open a descriptor *)
(* in their constructor, use it from a loop that runs in a blocking call   *)
(* or in a background thread, and give it up in shutdown() and in the      *)
(* destructor.  They differ in what the loop does with an outcome, in what *)
(* shutdown() does to the loop, and in how the destructor closes.          *)
(*                                                                         *)
(* Descriptors are small integers of the process, the first one is 0, and  *)
(* a number that was closed is given out again.  The patterns take 0 for   *)
(* "no descriptor".  Objects of different threads come and go side by      *)
(* side, a destructor takes two steps, and shutdown() may come from a      *)
(* thread that is not the owner's.                                         *)
(*                                                                         *)
(* Left out: rv, which decides only whether the destructor of the          *)
(* implementation calls nn_shutdown on a number before it closes it, and   *)
(* ec, which nothing reads.                                                *)
(***************************************************************************)
EXTENDS Integers

CONSTANTS
  Objects,      \* storage for patterns: constructed, destroyed, constructed again
  Descriptors   \* the numbers nn_socket may return

NoOwner == "closed"   \* of a number that is not open
Bad     == -1         \* what nn_socket returns when it fails, a closed descriptor

ASSUME PatternsAssumption ==
  /\ NoOwner \notin Objects
  /\ Descriptors \subseteq Nat
  /\ 0 \in Descriptors

Kinds == {"Publisher", "Subscriber", "Client", "Server", "Surveyor", "Participant"}

Broadcasters == {"Publisher", "Client", "Surveyor"}

\* The two whose destructor forgets the descriptor before the implementation
\* closes it once more.
Forgetful == {"Subscriber", "Server"}

VARIABLES
  owner,     \* nanomsg's table: which object opened the number
  kind,
  alive,     \* the objects that are constructed
  dying,     \* those among them whose implementation is about to be destroyed
  socket,    \* the member socket
  running,   \* the member running
  loop,      \* where the loop is: inside nn_send, inside nn_recv, in the
             \* function with a null pointer it then frees, at its test
  using,     \* the descriptor of the nn_send or nn_recv in progress
  caller,    \* who is in the loop: nobody, a blocking call, the thread
  joinable,  \* the member pubsub_main_thread is joinable
  down,      \* shutdown() has been called on the object
  shutdowns, \* history: shutdown() has been called on some object
  overlapped, \* history: a constructor has got the number of a dying object
  terminated \* how the program ended: "no" while it runs

members == <<socket, running, loop, using, caller, joinable, down>>
history == <<shutdowns, overlapped>>
vars == <<owner, kind, alive, dying, members, history, terminated>>

IsOpen(d) == d \in Descriptors /\ owner[d] # NoOwner

Init ==
  /\ owner = [d \in Descriptors |-> NoOwner]
  /\ kind \in [Objects -> Kinds]
  /\ alive = {}
  /\ dying = {}
  /\ socket = [p \in Objects |-> 0]
  /\ running = [p \in Objects |-> FALSE]
  /\ loop = [p \in Objects |-> "none"]
  /\ using = [p \in Objects |-> Bad]
  /\ caller = [p \in Objects |-> "none"]
  /\ joinable = [p \in Objects |-> FALSE]
  /\ down = [p \in Objects |-> FALSE]
  /\ shutdowns = FALSE
  /\ overlapped = FALSE
  /\ terminated = "no"

-----------------------------------------------------------------------------
(* nanomsg.                                                                *)

Free == {d \in Descriptors : owner[d] = NoOwner}

\* A number that is not open is refused; the calls in progress on one that is
\* fail, whoever made them.
nn_close(d) ==
  IF IsOpen(d)
  THEN /\ owner' = [owner EXCEPT ![d] = NoOwner]
       /\ using' = [p \in Objects |-> IF using[p] = d THEN Bad ELSE using[p]]
  ELSE UNCHANGED <<owner, using>>

\* How nn_send and nn_recv may end on a descriptor.  Any open socket may fail
\* (a signal, a wrong state, a direction it does not have); only a surveyor's
\* has a deadline.
OutcomesOn(d) ==
  IF ~IsOpen(d) THEN {"failed"}
  ELSE {"done", "failed"} \cup
       (IF kind[owner[d]] = "Surveyor" THEN {"timeout"} ELSE {})

-----------------------------------------------------------------------------
(* The loops: where each goes when nn_send or nn_recv has returned.        *)

Publisher_loop(call, outcome) == "test"

\* A failed receive is handed to the function like any other: it is given a
\* null pointer and the size -1.
Subscriber_loop(call, outcome) == IF outcome = "done" THEN "test" ELSE "null"

\* The errors of neither call keep the client from going on: its function is
\* given a stream that begins at a null pointer.
Client_loop(call, outcome) ==
  IF call = "nn_send" THEN "nn_recv"
  ELSE IF outcome = "done" THEN "test" ELSE "null"

\* Seeded fault: the failed receive is not skipped.
Server_loop_Handles(call, outcome) ==
  IF call = "nn_recv" THEN IF outcome = "done" THEN "nn_send" ELSE "null"
  ELSE "test"

Server_loop(call, outcome) ==
  IF call = "nn_recv" /\ outcome = "done" THEN "nn_send" ELSE "test"

\* Only the deadline leaves the inner loop.
Surveyor_loop(call, outcome) ==
  IF call = "nn_send"
  THEN IF outcome = "done" THEN "nn_recv" ELSE "test"
  ELSE IF outcome = "timeout" THEN "test" ELSE "nn_recv"

Participant_loop(call, outcome) ==
  IF call = "nn_recv" /\ outcome = "done" THEN "nn_send" ELSE "test"

After(k, call, outcome) ==
  CASE k = "Publisher"   -> Publisher_loop(call, outcome)
    [] k = "Subscriber"  -> Subscriber_loop(call, outcome)
    [] k = "Client"      -> Client_loop(call, outcome)
    [] k = "Server"      -> Server_loop(call, outcome)
    [] k = "Surveyor"    -> Surveyor_loop(call, outcome)
    [] k = "Participant" -> Participant_loop(call, outcome)

First(k) == IF k \in Broadcasters THEN "nn_send" ELSE "nn_recv"

\* The loop of p goes on at where, with the descriptor the member names now.
GoTo(p, where) ==
  /\ loop' = [loop EXCEPT ![p] = where]
  /\ using' = [using EXCEPT ![p] = IF where \in {"nn_send", "nn_recv"}
                                      /\ IsOpen(socket[p])
                                   THEN socket[p] ELSE Bad]

Returns(p, outcome) ==
  /\ loop[p] \in {"nn_send", "nn_recv"}
  /\ outcome \in OutcomesOn(using[p])
  /\ GoTo(p, After(kind[p], loop[p], outcome))
  /\ UNCHANGED <<owner, kind, alive, dying, socket, running, caller, joinable, down,
                 history, terminated>>

\* The function reads, and nn_freemsg is asked to free, what is not a message:
\* it may or may not come back.
FreesNull(p) ==
  /\ loop[p] = "null"
  /\ \/ GoTo(p, "test") /\ UNCHANGED terminated
     \/ terminated' = "null" /\ UNCHANGED <<loop, using>>
  /\ UNCHANGED <<owner, kind, alive, dying, socket, running, caller, joinable, down,
                 history>>

Test(p) ==
  /\ loop[p] = "test"
  /\ IF running[p]
     THEN GoTo(p, First(kind[p])) /\ UNCHANGED caller
     ELSE GoTo(p, "none") /\ caller' = [caller EXCEPT ![p] = "none"]
  /\ UNCHANGED <<owner, kind, alive, dying, socket, running, joinable, down, history,
                 terminated>>

-----------------------------------------------------------------------------
(* The constructors and the calls that enter the loop.                     *)

\* Seeded fault: socket = nn_socket(...) < 0, as the connects of Client and
\* Participant are written.
Opened_Precedence(p, d) ==
  socket' = [socket EXCEPT ![p] = IF d = Bad THEN 1 ELSE 0]

\* The member takes whatever nn_socket returned.
Opened(p, d) == socket' = [socket EXCEPT ![p] = d]

\* nn_socket may fail, and whether the bind or the connect after it succeeds
\* makes no difference to what follows.
Constructs(p, k) ==
  /\ p \notin alive /\ kind[p] = k
  /\ \E d \in Free \cup {Bad} :
       /\ Opened(p, d)
       /\ owner' = [e \in Descriptors |-> IF e = d THEN p ELSE owner[e]]
       /\ overlapped' = (overlapped \/
            \E q \in dying : d # Bad /\ kind[q] \notin Forgetful /\ socket[q] = d)
  /\ alive' = alive \cup {p}
  /\ running' = [running EXCEPT ![p] = FALSE]
  /\ down' = [down EXCEPT ![p] = FALSE]
  /\ UNCHANGED <<kind, dying, loop, using, caller, joinable, shutdowns, terminated>>

PubSub_Publisher(p)   == Constructs(p, "Publisher")
PubSub_Subscriber(p)  == Constructs(p, "Subscriber")
ReqRep_Client(p)      == Constructs(p, "Client")
ReqRep_Server(p)      == Constructs(p, "Server")
Survey_Surveyor(p)    == Constructs(p, "Surveyor")
Survey_Participant(p) == Constructs(p, "Participant")

\* shutdown() comes before the end of the object, nothing is started after it.
MayStart(p, k) ==
  p \in alive \ dying /\ kind[p] = k /\ caller[p] = "none" /\ ~down[p]

\* One pass through the loop, in the caller's thread.
Calls(p, k) ==
  /\ MayStart(p, k)
  /\ running' = [running EXCEPT ![p] = FALSE]
  /\ caller' = [caller EXCEPT ![p] = "call"]
  /\ GoTo(p, First(k))
  /\ UNCHANGED <<owner, kind, alive, dying, socket, joinable, down, history, terminated>>

Publisher_broadcast(p) == Calls(p, "Publisher")
Subscriber_listen(p)   == Calls(p, "Subscriber")
Client_broadcast(p)    == Calls(p, "Client")
Server_listen(p)       == Calls(p, "Server")
Surveyor_broadcast(p)  == Calls(p, "Surveyor")
Participant_listen(p)  == Calls(p, "Participant")

\* Nothing ever joins the thread, and assigning to a joinable one terminates
\* the process.
Launches(p, k) ==
  /\ MayStart(p, k)
  /\ running' = [running EXCEPT ![p] = TRUE]
  /\ caller' = [caller EXCEPT ![p] = "thread"]
  /\ GoTo(p, First(k))
  /\ joinable' = [joinable EXCEPT ![p] = TRUE]
  /\ terminated' = IF joinable[p] THEN "joinable" ELSE "no"
  /\ UNCHANGED <<owner, kind, alive, dying, socket, down, history>>

Publisher_async_broadcast(p) == Launches(p, "Publisher")
Subscriber_async_listen(p)   == Launches(p, "Subscriber")
Client_async_broadcast(p)    == Launches(p, "Client")
Server_async_listen(p)       == Launches(p, "Server")
Surveyor_async_broadcast(p)  == Launches(p, "Surveyor")
Participant_async_listen(p)  == Launches(p, "Participant")

-----------------------------------------------------------------------------
(* shutdown().                                                             *)

ShutsDown(p, k, run) ==
  /\ p \in alive \ dying /\ kind[p] = k
  /\ running' = [running EXCEPT ![p] = run]
  /\ down' = [down EXCEPT ![p] = TRUE]
  /\ shutdowns' = TRUE
  /\ UNCHANGED <<kind, alive, dying, loop, caller, joinable, overlapped, terminated>>

\* Descriptor 0 counts as none and stays open.
Closes(p) ==
  IF socket[p] # 0
  THEN nn_close(socket[p]) /\ socket' = [socket EXCEPT ![p] = 0]
  ELSE UNCHANGED <<owner, using, socket>>

KeepsOpen == UNCHANGED <<owner, using, socket>>

Publisher_shutdown(p)   == ShutsDown(p, "Publisher", TRUE)   /\ Closes(p)
Client_shutdown(p)      == ShutsDown(p, "Client", TRUE)      /\ Closes(p)
Surveyor_shutdown(p)    == ShutsDown(p, "Surveyor", FALSE)   /\ Closes(p)
Participant_shutdown(p) == ShutsDown(p, "Participant", TRUE) /\ Closes(p)

\* Seeded fault: running is set, as in the other four.
Subscriber_shutdown_KeepsRunning(p) ==
  ShutsDown(p, "Subscriber", TRUE) /\ KeepsOpen

Subscriber_shutdown(p)  == ShutsDown(p, "Subscriber", FALSE) /\ KeepsOpen
Server_shutdown(p)      == ShutsDown(p, "Server", FALSE)     /\ KeepsOpen

-----------------------------------------------------------------------------
(* The destructors.                                                        *)

\* The owner is not in the loop; a thread may be.
Destroys(p, k) ==
  /\ p \in alive \ dying /\ kind[p] = k /\ caller[p] # "call"
  /\ dying' = dying \cup {p}
  /\ UNCHANGED <<kind, alive, running, loop, caller, joinable, down, history, terminated>>

\* Four close without a look and remember the number.
ClosesAnything(p) == nn_close(socket[p]) /\ UNCHANGED socket

\* Two close what is not 0.
Forgets(p) ==
  /\ IF socket[p] # 0 THEN nn_close(socket[p]) ELSE UNCHANGED <<owner, using>>
  /\ socket' = [socket EXCEPT ![p] = 0]

\* Seeded fault: 0 is not closed here either.
Publisher_destructor_IfSocket(p) == Destroys(p, "Publisher") /\ Forgets(p)

Publisher_destructor(p)   == Destroys(p, "Publisher")   /\ ClosesAnything(p)
Subscriber_destructor(p)  == Destroys(p, "Subscriber")  /\ Forgets(p)
Client_destructor(p)      == Destroys(p, "Client")      /\ ClosesAnything(p)
Server_destructor(p)      == Destroys(p, "Server")      /\ Forgets(p)
Surveyor_destructor(p)    == Destroys(p, "Surveyor")    /\ ClosesAnything(p)
Participant_destructor(p) == Destroys(p, "Participant") /\ ClosesAnything(p)

\* Seeded faults: the thread is detached; 0 is taken for a descriptor.
DestroysImplementation_Detaches(p, k) ==
  /\ p \in dying /\ kind[p] = k
  /\ alive' = alive \ {p} /\ dying' = dying \ {p}
  /\ IF socket[p] # 0 THEN nn_close(socket[p]) ELSE UNCHANGED <<owner, using>>
  /\ UNCHANGED <<kind, socket, running, loop, caller, joinable, down, history, terminated>>

DestroysImplementation_ClosesZero(p, k) ==
  /\ p \in dying /\ kind[p] = k
  /\ alive' = alive \ {p} /\ dying' = dying \ {p}
  /\ nn_close(socket[p])
  /\ terminated' = IF joinable[p] THEN "joinable" ELSE "no"
  /\ UNCHANGED <<kind, socket, running, loop, caller, joinable, down, history>>

\* The implementation's destructor closes a second time; the thread, if there
\* was one, is still joinable.
DestroysImplementation(p, k) ==
  /\ p \in dying /\ kind[p] = k
  /\ alive' = alive \ {p} /\ dying' = dying \ {p}
  /\ IF socket[p] # 0 THEN nn_close(socket[p]) ELSE UNCHANGED <<owner, using>>
  /\ terminated' = IF joinable[p] THEN "joinable" ELSE "no"
  /\ UNCHANGED <<kind, socket, running, loop, caller, joinable, down, history>>

Publisher_Implementation_destructor(p)   == DestroysImplementation(p, "Publisher")
Subscriber_Implementation_destructor(p)  == DestroysImplementation(p, "Subscriber")
Client_Implementation_destructor(p)      == DestroysImplementation(p, "Client")
Server_Implementation_destructor(p)      == DestroysImplementation(p, "Server")
Surveyor_Implementation_destructor(p)    == DestroysImplementation(p, "Surveyor")
Participant_Implementation_destructor(p) == DestroysImplementation(p, "Participant")

-----------------------------------------------------------------------------

Publisher(p) ==
  \/ PubSub_Publisher(p)
  \/ Publisher_broadcast(p)
  \/ Publisher_async_broadcast(p)
  \/ Publisher_shutdown(p)
  \/ Publisher_destructor(p)
  \/ Publisher_Implementation_destructor(p)

Subscriber(p) ==
  \/ PubSub_Subscriber(p)
  \/ Subscriber_listen(p)
  \/ Subscriber_async_listen(p)
  \/ Subscriber_shutdown(p)
  \/ Subscriber_destructor(p)
  \/ Subscriber_Implementation_destructor(p)

Client(p) ==
  \/ ReqRep_Client(p)
  \/ Client_broadcast(p)
  \/ Client_async_broadcast(p)
  \/ Client_shutdown(p)
  \/ Client_destructor(p)
  \/ Client_Implementation_destructor(p)

Server(p) ==
  \/ ReqRep_Server(p)
  \/ Server_listen(p)
  \/ Server_async_listen(p)
  \/ Server_shutdown(p)
  \/ Server_destructor(p)
  \/ Server_Implementation_destructor(p)

Surveyor(p) ==
  \/ Survey_Surveyor(p)
  \/ Surveyor_broadcast(p)
  \/ Surveyor_async_broadcast(p)
  \/ Surveyor_shutdown(p)
  \/ Surveyor_destructor(p)
  \/ Surveyor_Implementation_destructor(p)

Participant(p) ==
  \/ Survey_Participant(p)
  \/ Participant_listen(p)
  \/ Participant_async_listen(p)
  \/ Participant_shutdown(p)
  \/ Participant_destructor(p)
  \/ Participant_Implementation_destructor(p)

Loop(p) ==
  \/ \E outcome \in {"done", "failed", "timeout"} : Returns(p, outcome)
  \/ FreesNull(p)
  \/ Test(p)

Next ==
  /\ terminated = "no"
  /\ \E p \in Objects :
       \/ Publisher(p)
       \/ Subscriber(p)
       \/ Client(p)
       \/ Server(p)
       \/ Surveyor(p)
       \/ Participant(p)
       \/ Loop(p)

Spec == Init /\ [][Next]_vars

\* A call on a descriptor that is not open returns; one on an open descriptor
\* may wait for ever.
Prompt(p) ==
  /\ terminated = "no"
  /\ \/ using[p] = Bad /\ Returns(p, "failed")
     \/ FreesNull(p)
     \/ Test(p)

\* The scheduler runs a thread that can run.
LoopGoesOn(p) == WF_vars(Prompt(p))

FairSpec == Spec /\ \A p \in Objects : LoopGoesOn(p)

-----------------------------------------------------------------------------
(* Properties.                                                             *)

\* The last conjunct: a loop runs while somebody is in it, and none outlives
\* its object but for the end of the process.
TypeOK ==
  /\ owner \in [Descriptors -> Objects \cup {NoOwner}]
  /\ kind \in [Objects -> Kinds]
  /\ dying \subseteq alive /\ alive \subseteq Objects
  /\ socket \in [Objects -> Descriptors \cup {Bad}]
  /\ running \in [Objects -> BOOLEAN]
  /\ loop \in [Objects -> {"none", "nn_send", "nn_recv", "null", "test"}]
  /\ using \in [Objects -> Descriptors \cup {Bad}]
  /\ caller \in [Objects -> {"none", "call", "thread"}]
  /\ joinable \in [Objects -> BOOLEAN]
  /\ down \in [Objects -> BOOLEAN]
  /\ shutdowns \in BOOLEAN /\ overlapped \in BOOLEAN
  /\ terminated \in {"no", "joinable", "null"}
  /\ \A p \in Objects :
       /\ loop[p] = "none" <=> caller[p] = "none"
       /\ caller[p] # "none" => p \in alive \/ terminated # "no"

\* The numbers an object that opened one can count on: descriptor 0 only as long
\* as nobody has called shutdown(), which leaves 0 in members that own nothing.
Kept == IF shutdowns THEN Descriptors \ {0} ELSE Descriptors

\* As long as no constructor has come between the two steps of a destructor to
\* get the number it closes twice, objects keep to themselves: the descriptor an
\* object holds and the one its loop waits on are its own, however often objects
\* come and go, are shut down, and calls of nn_socket fail.  All that shutdown()
\* endangers is descriptor 0.  The exception is the thread of a Subscriber or
\* Server that is being destroyed: it turns to descriptor 0.
KeepsToItself ==
  ~overlapped =>
    /\ \A p \in alive \ dying : socket[p] \in Kept => owner[socket[p]] = p
    /\ \A p \in alive :
         using[p] \in Kept =>
           owner[using[p]] = p \/ (p \in dying /\ kind[p] \in Forgetful /\ using[p] = 0)

\* Destruction gives back the descriptor, whether shutdown() came first or not,
\* and before the implementation is destroyed.  The exception is a Subscriber
\* or Server that was given 0: it is leaked.
ReleasedWhenDestroyed ==
  \A d \in Descriptors :
    (owner[d] \in Objects /\ owner[d] \notin alive \ dying) =>
      d = 0 /\ kind[owner[d]] \in Forgetful

\* A call that fails is never taken for a message but by a Subscriber or a
\* Client, and without one of these only a joinable thread ends the program.
FailureIsContained ==
  /\ \A p \in Objects : loop[p] = "null" => kind[p] \in {"Subscriber", "Client"}
  /\ terminated = "null" => \E p \in Objects : kind[p] \in {"Subscriber", "Client"}

Waits(p) == using[p] # Bad

\* shutdown() of a Subscriber or a Server ends the background thread, unless
\* it waits for ever in a call that does not return.
ListenersStop ==
  \A p \in Objects :
    (p \in alive /\ down[p] /\ kind[p] \in Forgetful)
      ~> (caller[p] = "none" \/ ~down[p] \/ terminated # "no" \/ []Waits(p))

-----------------------------------------------------------------------------
(* What the documentation says.                                            *)

\* Patterns.h:41: shutdown terminates the control variables of the associated
\* threads: the thread does not go round for ever.
ShutdownEndsThread ==
  \A p \in Objects :
    (p \in alive /\ down[p]) ~> (caller[p] # "thread" \/ terminated # "no" \/ []Waits(p))

\* Patterns.h:40: shutdown, which must be called before a pattern is destroyed,
\* releases what the pattern acquired - and nothing of an object that was not
\* shut down itself.
ReleasesItsOwn ==
  \A p \in alive \ dying : (~down[p] /\ socket[p] # Bad) => owner[socket[p]] = p
=============================================================================
