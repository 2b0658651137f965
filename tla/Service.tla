------------------------------ MODULE Service ------------------------------
(***************************************************************************)
(* Service.cpp: the Service objects of a program and the Implementations   *)
(* they own, each in a cell of the heap.  The two threads of an            *)
(* Implementation are bound to the cell and not to the Service, which may  *)
(* be moved while they run.                                                *)
(*                                                                         *)
(* A Service belongs to one thread of the program, its owner.  stop() may  *)
(* be called by any thread, also from the callback.  The contexts are      *)
(* those of Multicast_Sender and Multicast_Receiver with their handlers    *)
(* reduced to the one that calls the callback.                             *)
(***************************************************************************)
EXTENDS Uri

CONSTANTS
  Services,   \* the Service variables of the program
  Cells,      \* the Implementations the heap has room for
  Given,      \* what config.address of each service was constructed from
  None

ASSUME ServiceAssumption ==
  /\ None \notin Cells
  /\ Given \in [Services -> [uri : Text]
                  \cup [transport : Text, address : Text, port : Numbers]]

VARIABLES
  alive,      \* the services constructed and not destroyed
  _impl,      \* the cell of each service, None when it has been moved from
  allocated,  \* the cells that hold an Implementation
  announced,  \* service_config._address of a cell
  stopped,    \* io_context.stopped() of the announcer and the listener of a cell
  thread,     \* their threads: joinable from the start until they are joined,
              \* and their function has returned or not
  callback,   \* does service_broadcast_callback of a cell hold a function?
  handler,    \* how far the listener of a cell has got with it
  doing,      \* the call the owner of a service is in the middle of, the cell
              \* it works on and the thread it has to start or to wait for
  died,       \* how the program was terminated: "no" while it runs
  misused     \* has a service been moved, started while its threads were not
              \* joined, or given a callback while its listener was running?

serviceVars == <<alive, _impl>>
heapVars == <<allocated, announced>>
contextVars == <<stopped, thread>>
listinerVars == <<callback, handler>>
programVars == <<doing, died, misused>>
vars == <<serviceVars, heapVars, contextVars, listinerVars, programVars>>

Parts == {"announcer", "listiner"}

Nothing == [call |-> "nothing", cell |-> None, part |-> "announcer"]

Init ==
  /\ alive = {}
  /\ _impl = [s \in Services |-> None]
  /\ allocated = {}
  /\ announced = [i \in Cells |-> <<>>]
  /\ stopped = [i \in Cells |-> [part \in Parts |-> FALSE]]
  /\ thread = [i \in Cells |-> [part \in Parts |-> "none"]]
  /\ callback = [i \in Cells |-> FALSE]
  /\ handler = [i \in Cells |-> "idle"]
  /\ doing = [s \in Services |-> Nothing]
  /\ died = "no"
  /\ misused = FALSE

-----------------------------------------------------------------------------
(* The owner's calls.                                                      *)

\* The owner of s is between two calls and makes another one.
Calls(s) == died = "no" /\ s \in alive /\ doing[s] = Nothing

\* The URI in the configuration of s.
address(s) ==
  IF "uri" \in DOMAIN Given[s] THEN URI(Given[s].uri)
  ELSE URI_of_parts(Given[s].transport, Given[s].address, Given[s].port)

\* The address a Service announces is c_str() of its URI.
Construct(s) ==
  /\ died = "no" /\ s \notin alive
  /\ alive' = alive \cup {s}
  /\ \E i \in Cells \ allocated :
       /\ _impl' = [_impl EXCEPT ![s] = i]
       /\ allocated' = allocated \cup {i}
       /\ announced' = [announced EXCEPT ![i] = c_str(address(s))]
       /\ stopped' = [stopped EXCEPT ![i] = [part \in Parts |-> FALSE]]
       /\ thread' = [thread EXCEPT ![i] = [part \in Parts |-> "none"]]
       /\ callback' = [callback EXCEPT ![i] = FALSE]
       /\ handler' = [handler EXCEPT ![i] = "idle"]
  /\ UNCHANGED programVars

\* Seeded fault: the context is made ready again, as restart() would.
Run_Restarted(i, part) ==
  /\ thread' = [thread EXCEPT ![i][part] = "running"]
  /\ stopped' = [stopped EXCEPT ![i][part] = FALSE]
  /\ UNCHANGED died

\* async_send or async_receive: assigning to a std::thread that is joinable
\* terminates the program.  A context that was stopped stays so.
Run(i, part) ==
  /\ IF thread[i][part] = "none"
     THEN thread' = [thread EXCEPT ![i][part] = "running"] /\ UNCHANGED died
     ELSE died' = "joinable" /\ UNCHANGED thread
  /\ UNCHANGED stopped

\* start() runs the announcer first and the listener in a step of its own.
start(s) ==
  /\ Calls(s) /\ _impl[s] # None
  /\ Run(_impl[s], "announcer")
  /\ doing' = [doing EXCEPT ![s] =
       [call |-> "start", cell |-> _impl[s], part |-> "listiner"]]
  /\ misused' = (misused \/ thread[_impl[s]]["announcer"] # "none")
  /\ UNCHANGED <<serviceVars, heapVars, listinerVars>>

StartsListiner(s) ==
  /\ died = "no" /\ doing[s].call = "start"
  /\ Run(doing[s].cell, "listiner")
  /\ doing' = [doing EXCEPT ![s] = Nothing]
  /\ UNCHANGED <<serviceVars, heapVars, listinerVars, misused>>

\* Seeded fault: the listener is forgotten.
Stop_Announcer(i) == stopped' = [stopped EXCEPT ![i]["announcer"] = TRUE]

\* Both contexts are stopped.
Stop(i) == stopped' = [stopped EXCEPT ![i] = [part \in Parts |-> TRUE]]

\* stop() by any thread while the service is not being taken apart.
stop(s) ==
  /\ died = "no" /\ s \in alive /\ _impl[s] # None
  /\ doing[s].call \in {"nothing", "start", "join"}
  /\ Stop(_impl[s])
  /\ UNCHANGED <<serviceVars, heapVars, thread, listinerVars, programVars>>

\* Seeded fault: the part to wait for is left open.
Waits_Both(s, call, i) ==
  doing' = [doing EXCEPT ![s] = [call |-> call, cell |-> i, part |-> "both"]]

Waits(s, call, i) ==
  doing' = [doing EXCEPT ![s] = [call |-> call, cell |-> i, part |-> "announcer"]]

join(s) ==
  /\ Calls(s) /\ _impl[s] # None
  /\ Waits(s, "join", _impl[s])
  /\ UNCHANGED <<serviceVars, heapVars, contextVars, listinerVars, died, misused>>

\* ~Service: stop(), join(), and the destructor of the Implementation, which
\* stops and joins once more.
Destroy(s) ==
  /\ Calls(s) /\ _impl[s] # None
  /\ Stop(_impl[s])
  /\ Waits(s, "destroy", _impl[s])
  /\ UNCHANGED <<serviceVars, heapVars, thread, listinerVars, died, misused>>

\* Seeded faults: the pointer is dropped and not deleted; the cell is deleted
\* and nobody waits for its threads.
Replaces_Leaks(s) == UNCHANGED <<allocated, stopped, doing>>

Replaces_Detached(s) ==
  /\ allocated' = allocated \ {_impl[s]}
  /\ IF _impl[s] = None THEN UNCHANGED stopped ELSE Stop(_impl[s])
  /\ UNCHANGED doing

\* _impl is replaced: the cell it pointed to is destroyed.
Replaces(s) ==
  /\ IF _impl[s] = None THEN UNCHANGED <<stopped, doing>>
     ELSE Stop(_impl[s]) /\ Waits(s, "replace", _impl[s])
  /\ UNCHANGED allocated

\* operator=(Service&&).
MoveAssign(s, obj) ==
  /\ Calls(s) /\ Calls(obj) /\ s # obj
  /\ Replaces(s)
  /\ _impl' = [_impl EXCEPT ![s] = _impl[obj], ![obj] = None]
  /\ misused' = TRUE
  /\ UNCHANGED <<alive, announced, thread, listinerVars, died>>

MoveConstruct(s, obj) ==
  /\ died = "no" /\ s \notin alive /\ Calls(obj)
  /\ alive' = alive \cup {s}
  /\ _impl' = [_impl EXCEPT ![s] = _impl[obj], ![obj] = None]
  /\ misused' = TRUE
  /\ UNCHANGED <<heapVars, contextVars, listinerVars, doing, died>>

\* start(), stop(), join(), the destructor and the rest of a Service that has
\* been moved from follow a null pointer.
FollowsNull(s) ==
  /\ Calls(s) /\ _impl[s] = None
  /\ died' = "null"
  /\ UNCHANGED <<serviceVars, heapVars, contextVars, listinerVars, doing, misused>>

\* The assignment may destroy a function the listener is calling: what becomes
\* of the call is anybody's guess.
set_service_announcement_callback(s, func) ==
  /\ Calls(s) /\ _impl[s] # None
  /\ callback' = [callback EXCEPT ![_impl[s]] = func]
  /\ misused' = (misused \/ thread[_impl[s]]["listiner"] = "running")
  /\ \/ UNCHANGED died
     \/ handler[_impl[s]] = "calling" /\ died' = "race"
  /\ UNCHANGED <<serviceVars, heapVars, contextVars, handler, doing>>

-----------------------------------------------------------------------------
(* Waiting.                                                                *)

\* Seeded fault: the owner does not wait for a thread inside its callback.
Joined_Unless(i, part) == thread[i][part] # "running" \/ handler[i] # "idle"

\* The owner goes on when the thread it waits for was joined before or has
\* returned.
Joined(i, part) == thread[i][part] # "running"

JoinsAnnouncer(s) ==
  /\ died = "no" /\ doing[s].call \in {"join", "destroy", "replace"}
  /\ doing[s].part = "announcer"
  /\ Joined(doing[s].cell, "announcer")
  /\ thread' = [thread EXCEPT ![doing[s].cell]["announcer"] = "none"]
  /\ doing' = [doing EXCEPT ![s] =
       [call |-> doing[s].call, cell |-> doing[s].cell, part |-> "listiner"]]
  /\ UNCHANGED <<serviceVars, heapVars, stopped, listinerVars, died, misused>>

\* The last wait, after which join() returns and a destructor gives the cell
\* back.
JoinsListiner(s) ==
  /\ died = "no" /\ doing[s].call \in {"join", "destroy", "replace"}
  /\ doing[s].part = "listiner"
  /\ Joined(doing[s].cell, "listiner")
  /\ thread' = [thread EXCEPT ![doing[s].cell]["listiner"] = "none"]
  /\ allocated' =
       IF doing[s].call = "join" THEN allocated ELSE allocated \ {doing[s].cell}
  /\ IF doing[s].call = "destroy"
     THEN alive' = alive \ {s} /\ _impl' = [_impl EXCEPT ![s] = None]
     ELSE UNCHANGED serviceVars
  /\ doing' = [doing EXCEPT ![s] = Nothing]
  /\ UNCHANGED <<announced, stopped, listinerVars, died, misused>>

-----------------------------------------------------------------------------
(* The threads of a cell.                                                  *)

\* Seeded fault: the callback is not tested.
TestsCallback_Untested(i) ==
  /\ died = "no"
  /\ thread[i]["listiner"] = "running" /\ ~stopped[i]["listiner"]
  /\ handler[i] = "idle"
  /\ handler' = [handler EXCEPT ![i] = "tested"]
  /\ UNCHANGED <<serviceVars, heapVars, contextVars, callback, programVars>>

\* handle_service_broadcaster_message finds a function to call.
TestsCallback(i) ==
  /\ died = "no"
  /\ thread[i]["listiner"] = "running" /\ ~stopped[i]["listiner"]
  /\ handler[i] = "idle" /\ callback[i]
  /\ handler' = [handler EXCEPT ![i] = "tested"]
  /\ UNCHANGED <<serviceVars, heapVars, contextVars, callback, programVars>>

\* It calls what it finds now: nothing is a bad_function_call, which leaves
\* the thread.
CallsCallback(i) ==
  /\ died = "no" /\ handler[i] = "tested"
  /\ IF callback[i]
     THEN handler' = [handler EXCEPT ![i] = "calling"] /\ UNCHANGED died
     ELSE died' = "bad_function_call" /\ UNCHANGED handler
  /\ UNCHANGED <<serviceVars, heapVars, contextVars, callback, doing, misused>>

CallbackReturns(i) ==
  /\ died = "no" /\ handler[i] = "calling"
  /\ handler' = [handler EXCEPT ![i] = "idle"]
  /\ UNCHANGED <<serviceVars, heapVars, contextVars, callback, programVars>>

\* Seeded fault: the thread goes round, restarting the context.
RunReturns_Loops(i, part) ==
  /\ died = "no" /\ thread[i][part] = "running"
  /\ part = "listiner" => handler[i] = "idle"
  /\ stopped' = [stopped EXCEPT ![i][part] = FALSE]
  /\ UNCHANGED <<serviceVars, heapVars, thread, listinerVars, programVars>>

\* run() returns between two handlers, because the context was stopped or
\* because an operation failed and nothing is left to do, which stops it.
RunReturns(i, part) ==
  /\ died = "no" /\ thread[i][part] = "running"
  /\ part = "listiner" => handler[i] = "idle"
  /\ thread' = [thread EXCEPT ![i][part] = "returned"]
  /\ stopped' = [stopped EXCEPT ![i][part] = TRUE]
  /\ UNCHANGED <<serviceVars, heapVars, listinerVars, programVars>>

\* The program is no more.
Dead == died # "no" /\ UNCHANGED vars

-----------------------------------------------------------------------------

Owner(s) ==
  \/ Construct(s)
  \/ start(s)
  \/ StartsListiner(s)
  \/ join(s)
  \/ Destroy(s)
  \/ \E obj \in Services : MoveAssign(s, obj) \/ MoveConstruct(s, obj)
  \/ FollowsNull(s)
  \/ \E func \in BOOLEAN : set_service_announcement_callback(s, func)
  \/ JoinsAnnouncer(s)
  \/ JoinsListiner(s)

Threads(i) ==
  \/ TestsCallback(i)
  \/ CallsCallback(i)
  \/ CallbackReturns(i)
  \/ \E part \in Parts : RunReturns(i, part)

Next ==
  \/ \E s \in Services : Owner(s) \/ stop(s)
  \/ \E i \in Cells : Threads(i)
  \/ Dead

Spec == Init /\ [][Next]_vars

\* A call goes on when it can; the callback returns; and run() of a context
\* that was stopped returns.
OwnerGoesOn(s) == WF_vars(StartsListiner(s) \/ JoinsAnnouncer(s) \/ JoinsListiner(s))

HandlerGoesOn(i) == WF_vars(CallsCallback(i)) /\ WF_vars(CallbackReturns(i))

RunGoesOn(i, part) == WF_vars(stopped[i][part] /\ RunReturns(i, part))

FairSpec ==
  /\ Spec
  /\ \A s \in Services : OwnerGoesOn(s)
  /\ \A i \in Cells : HandlerGoesOn(i)
  /\ \A i \in Cells : \A part \in Parts : RunGoesOn(i, part)

-----------------------------------------------------------------------------
(* Properties.                                                             *)

TypeOK ==
  /\ alive \subseteq Services
  /\ _impl \in [Services -> Cells \cup {None}]
  /\ allocated \subseteq Cells
  /\ announced \in [Cells -> Text]
  /\ stopped \in [Cells -> [Parts -> BOOLEAN]]
  /\ thread \in [Cells -> [Parts -> {"none", "running", "returned"}]]
  /\ callback \in [Cells -> BOOLEAN]
  /\ handler \in [Cells -> {"idle", "tested", "calling"}]
  /\ doing \in [Services -> [call : {"nothing", "start", "join", "destroy", "replace"},
                             cell : Cells \cup {None}, part : Parts]]
  /\ died \in {"no", "joinable", "null", "race", "bad_function_call"}
  /\ misused \in BOOLEAN

\* A thread of a cell, and a handler inside its callback, run only while the
\* cell is allocated: moving, replacing or destroying a service in any of its
\* states frees nothing a thread still uses.
NoUseAfterFree ==
  \A i \in Cells \ allocated :
    handler[i] = "idle" /\ \A part \in Parts : thread[i][part] # "running"

Owns(s, i) ==
  s \in alive /\ (_impl[s] = i \/ (doing[s].call = "replace" /\ doing[s].cell = i))

\* Every Implementation has one owner, the service that points to it or that is
\* destroying the one it pointed to: none is deleted twice, none is forgotten.
OneOwner ==
  /\ \A i \in Cells : i \in allocated <=> \E s \in Services : Owns(s, i)
  /\ \A i \in Cells : \A s, t \in Services : Owns(s, i) /\ Owns(t, i) => s = t
  /\ \A s \in Services : doing[s].call = "replace" => _impl[s] # doing[s].cell

\* A program that sets the callback while the listener does not run, starts no
\* service it has not joined and moves none is never terminated - whenever
\* stop() is called and whenever the service is destroyed.
SafeByTheBook == ~misused => died = "no"

\* No handler begins after stop(), for as long as the cell lives: a service
\* that is started again hears nothing.
StoppedForGood ==
  [][\A i \in allocated \cap allocated' :
       stopped[i]["listiner"] =>
         /\ stopped'[i]["listiner"]
         /\ handler[i] = "idle" => handler'[i] = "idle"]_vars

\* A service whose configuration holds a valid URI announces a text that is not
\* one: who hears the announcement has no endpoint to connect to.
AnnouncesNoEndpoint ==
  (\A s \in Services : is_valid(address(s)))
    => \A i \in allocated : ~regex_match(announced[i])

\* stop() ends both threads, although it may come between the two halves of
\* start().
StopEndsThreads ==
  \A i \in Cells : \A part \in Parts :
    stopped[i][part] ~> (thread[i][part] # "running" \/ died # "no")

\* start(), the destructor and the assignment return, and so does join() once
\* the service was stopped.
OwnerReturns ==
  \A s \in Services : \A i \in Cells :
    (/\ doing[s].cell = i
     /\ \/ doing[s].call \in {"start", "destroy", "replace"}
        \/ doing[s].call = "join" /\ \A part \in Parts : stopped[i][part])
      ~> (doing[s] = Nothing \/ died # "no")
=============================================================================
