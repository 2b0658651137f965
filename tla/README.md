# A verification model of pfc_framework

TLA+ modules, TLC configurations and TLAPS proofs for the networking core of the
PFC framework: multicast service discovery, the registry that keeps track of the
services, the wire format of their messages, and the nanomsg patterns they talk
through. All paths are relative to the repository; `L` stands for
`projects/libpfc_net` (with its headers in `include/sustain/framework`).

Contents: [inventory](#1-inventory) · [modules](#2-modules-and-how-they-map-to-the-code) ·
[runs](#3-runs) · [fairness](#4-fairness) · [proofs](#5-proofs) ·
[what the work showed](#6-what-the-work-showed-about-the-code) ·
[not modelled](#7-not-modelled) · [plan](#8-plan)

## 1. Inventory

| Component | State | Operations | Talks to |
|---|---|---|---|
| **Wire protocol** `L/…/Protocol.h`, `L/cpp/Protocol.cpp` | none; six message classes, each with its own lists of members | `serialize`, `deserialize`, `Length`, `==` | called by the message functions and callbacks below |
| **Multicast_Receiver** `L/cpp/net/Multicast_Receiver.cpp` | UDP socket, one receive buffer, callback, io_context, thread | `receive`, `async_receive`, `stop`, `join`, `buffer_legth`, destructor | its io_context runs on its thread (or in the caller of `receive`) and calls back into Service or Registry |
| **Multicast_Sender** `L/cpp/net/Multicast_Sender.cpp` | UDP socket, message streambuf, timer, message function, io_context, thread | `send`, `async_send`, `stop`, `join`, destructor | calls the message function of Service or Registry |
| **Service** `L/cpp/net/Service.cpp` | an `Implementation` on the heap: configuration, a sender with the service's announcement, a receiver for the registry's, a callback | `start`, `stop`, `join`, both moves, destructor, accessors, callback setter | announces on the registration port what `Uri` made of the configuration, listens on the announcement port |
| **Registry** `projects/registry_server/cpp/Registry.cpp` | map key → announcement, queue of keys to send on, mutex, a receiver, a sender | `start`, `wait`, `shutdown`, subscription handler, broadcast function | hears services, sends on what it heard |
| **Patterns** `L/cpp/net/patterns/**` | a nanomsg descriptor and endpoint, `running`, a thread | `publish`, `broadcast`, `listen`, `async_*`, `shutdown`, destructors | nanomsg, a process-wide table of descriptors |
| **Uri** `L/…/net/Uri.h` | transport, address, port, endpoint, error | two constructors, `c_str`, `is_valid`, `==` | Service announces `c_str()`, the patterns bind and connect to it |
| **Error**, `nanomsg_helper.h` | an error mask; – | comparison, or-ing; errno translation | used everywhere |
| Example services, samples, CMake | – | – | not part of the framework's logic |

Interactions. A service's sender puts its announcement on the group once per
period. The registry's receiver calls `process_subscription_message`, which
reads the message, records it and queues its key under a mutex and then, outside
of the mutex and still in the receiver's handler, calls `service_broadcaster->send`.
`send` calls `broadcast_service_subscription` (which takes from the queue and
looks up the table without a lock), sends, and runs *one* handler of the
broadcaster's io_context in the receiver's thread. The registry's datagrams reach
the receivers of the services, which call the services' callbacks.

Behaviours that are hard to test:

* the operating system completes a receive into a buffer the callback reads in place;
* handlers of earlier `send` or `receive` calls are left in an io_context and run inside
  a later call;
* an io_context without work, or after `stop()`, stays stopped for ever;
* the chain broadcast → timeout → broadcast may die (an error), or might fork (a
  cancelled wait that is already due);
* the message buffer of a sender only grows, datagrams are limited;
* datagrams are lost, cut, or longer than what the reader reads;
* `stop`, `join` and the destructors in orders that leave a thread behind what it uses;
* services that are moved, assigned over, started again or given a callback while the
  two threads of their implementation run;
* numbers of descriptors that are closed twice while another thread opens a new one.

What makes each component correct:

* *Protocol*: what was written is read back; a stream that ends early is refused or
  loses only the end of its last string.
* *Receiver*: with a thread, the callback gets each datagram once, in order and
  undamaged; it never is up and deaf; `stop` then `join` returns.
* *Sender*: one chain, which ends only for a reason; calls return; nothing is sent after
  the destructor.
* *Registry*: the table holds the latest announcement per key, the broadcaster has written
  exactly what was recorded in that order, the queue never holds a stale key, shutdown
  terminates and leaves no thread.
* *Discovery* (services + registry): the registry knows only services that were started,
  every service gets in when nothing is lost, services are told only of what the registry
  knows.
* *Service*: threads and callbacks do not outlive the implementation; every implementation
  has one owner; a program that keeps to three rules is never terminated.
* *Patterns*: shutdown ends the thread and frees the descriptor, once, nobody closes
  a descriptor of somebody else, and a failed call is not taken for a message.

## 2. Modules and how they map to the code

`PROJECT.json` maps every definition to its lines. Names are the source's, misspellings
included (`listiner`, `protacol`, `buffer_legth`).

| Module | Role |
|---|---|
| `Errors` | `Error` as a set of bits, its operators, and the translation of nanomsg's error numbers |
| `Protocol` | serialisation as functions from messages to sequences of cells and back |
| `Intake` | abstract: what a receiver with a background thread promises |
| `Uri` | texts as sequences of the pieces the regular expression tells apart; the constructors, `c_str`, comparison |
| `Multicast_Receiver`, `MCMulticast_Receiver` | the receiver; an instance with messages that fit, leave a stale tail, are cut in the brief, or earlier |
| `SenderImplementation` | `Multicast_Sender::Implementation` as a record and pure operators on it, shared by the next three |
| `Multicast_Sender` | the sender, used through `send` or `async_send` |
| `Registry`, `MCRegistry` | the registry: listener thread, owner thread, the broadcaster as a record; two services, one with two texts |
| `Directory` | abstract: what services can count on |
| `Discovery`, `MCDiscovery` | services, registry and a lossy group, composed |
| `Service`, `MCService` | the Service objects of a program and the implementations on its heap; two services, two cells |
| `Patterns` | the six nanomsg patterns over the process-wide table of descriptors |
| `Protocol_proofs`, `SenderImplementation_proofs`, `Multicast_Receiver_proofs`, `Multicast_Sender_proofs`, `Registry_proofs`, `Discovery_proofs`, `Service_proofs`, `Patterns_proofs` | theorems and proofs (those of `Uri` are in `Service_proofs`) |

**Protocol.** A cell is a fixed-size member, the size of a string, or one character. The
reader is a record: what is left of the stream, whether the stream is good, the errors
or-ed so far, the message being filled. The code's peculiarities are kept: a fixed-size
member whose read fails reports nothing and only spoils the stream for the next one
(`Protocol.h:387`); a string is resized first and then overwritten by as much as the stream
has (`Protocol.h:402`), so that a string cut short is padded with `'\0'` and *accepted*. Each
of the six classes is a descriptor with the four lists of members its `Length`, `serialize`,
`deserialize` and `operator==` spell out, one mapped to each class's own code; the lists agree
today, and the theorems fail when one of them is changed. The reader takes whatever type is
in the stream: one of the receiver's messages is a signoff that passes for an announcement.

**Uri.** A text is a sequence of pieces: `"://"`, `":"` and runs of other characters, which
`Words`, `Hosts` and `Numbers` sort as `\w+`, `[A-Za-z0-9_.]+` and `\d+` do. `matches` gives the
five sub-matches as `std::smatch` has them, the whole text first, so that `URI` takes its members
one place too early, as the code does.

**Errors.** An `Error` is the set of its bits. `==` with a code tests a bit, `!=` compares values,
as in the code. `nano_to_Error` goes by error numbers; the patterns call it with what a nanomsg
function returned. The member `ec` it is assigned to is never read and left out.

**Multicast_Receiver.** `outstanding` counts receive operations in flight, `completed` is the
queue of completions without handler yet. `multicast_setup` leaves the socket closed when the
address to bind does not parse, and *bound but in no group* when only the group's does not
(`system_status` is an error in both); nothing in the program stops one from starting such a
receiver. `ReceiveCompletes` is the operating system
writing the buffer — only the front that the datagram covers. `HandlerStarts`/`HandlerEnds`
bracket the callback, so that a completion may come in between if an operation is in flight
then. `HandlerEnds` includes the re-arming `multicast_receive()` at the end of the handler.
`blocking` is chosen once: `receive` (whose `run_one` leaves after one handler) or
`async_receive` (whose thread stays in `run`).

**SenderImplementation.** asio hands a datagram to the socket when `async_send_to` is called;
what remains is to call the handler. `ready[h]` counts handlers that may run: a datagram
"sent" or "failed", the timer "due", a wait "aborted" by `expires_after`; `armed` is the wait in
progress. Buffer contents are sequences of texts, because what is broadcast is the whole
buffer. `Settle` is asio's rule that a context without work stops.

**Multicast_Sender.** `Call` is the part `send` and `async_send` share (install the message
function, broadcast); `Handle(h)` is one handler inside `run` or `run_one`. A sender whose group
address does not parse has a closed socket, which refuses every datagram.

**Registry.** The listener's thread goes through waiting → recording → sending → run_one →
waiting. `Record` is the critical section; `Send` is `multicast_broadcast` with the registry's
message function, `RunOne(h)`/`RunOneReturns` the `run_one` after it. The owner's thread
executes the calls of `shutdown()` one by one, in their order, and then destroys; `wait` returns
only to a thread that finds the listener ended by an error. What a
receiver does is taken from `Intake`, which `Multicast_Receiver` is shown to implement:
arrivals are heard one at a time, in order, none after the stop. `accepted`, `relayed` and
`read_first` are history variables.

**Discovery.** Each service is an announcer (again a `Sender` record) and the set of
announcements its callback was given. A service's datagram reaches the registry or is lost;
a registry's datagram reaches any subset of the services that are up, or all of them when
`Lossy` is false. Delayed and repeated datagrams need no variables: all datagrams of one
sender begin alike (`OneFront`) and readers read the front.

**Service.** The heap is a set of `Cells`, `_impl` the cell a service points to. Moving a service
moves the pointer; the threads stay with the cell. Each service has an owner thread, and
`doing[s]` is where it is in `start`, `join`, the destructor or an assignment, all of which take
several steps: `start` runs the announcer and then the listener, the others wait for one thread
and then the other. `stop` may come from any thread in between. The listener's handler is in two
steps, the test of the callback and the call (`Service.cpp:93`), and the callback setter takes no
lock: what becomes of a call under which the function is replaced is left open (`died' = "race"`),
as is nothing else. The ways a program ends are values of `died`: assigning to a joinable thread,
following the null `_impl` of a moved-from service, an empty function called, that race. `misused`
is a history variable: has the program moved a service, started one whose threads are not joined,
or set a callback under a running listener?

**Patterns.** `owner` is nanomsg's table: which object opened a number. `nn_socket` returns any
free number or fails; the smallest number of a process is 0, and 0 is what the patterns take for
"none". An object has the members `socket`, `running` and the thread (`joinable`), and its loop is
inside `nn_send`, inside `nn_recv`, in the callback with a null buffer it then frees, or at its
test; `using` is the descriptor of the call in progress, which closing makes fail. One function
per pattern (`Publisher_loop`, ...) says where its loop goes after each outcome; `FreesNull` is
what follows a failed receive of a Subscriber or a Client, after which the program may be over.
Each class has its own constructor, blocking call, background call, `shutdown` and two steps of
its destructor (that of the class and that of its `Implementation`, which closes a second time) as
actions; `dying` are the objects between the two steps, in which another thread may open a
descriptor and get the number that is closed again (`overlapped` remembers it). `shutdown()` may
come from a thread that is not the owner's. Any number of objects are constructed, used, shut down
and destroyed, again and again, in one order per object: nothing is started after its `shutdown`
(`MayStart`; `Publisher.cpp:167` is the end of an object's use), and a blocking call has returned
before the destructor. `rv` is left out: all it decides is an `nn_shutdown` on a descriptor that
is closed by then. `running` is a plain `bool` two threads share; every pass of a loop calls into
nanomsg, so that it is read again each time. Contents of messages and `nn_bind`/`nn_connect` make
no difference to these properties and are left out.

## 3. Runs

| Run | Module | What it shows | States |
|---|---|---|---|
| `receiver` | `MCMulticast_Receiver` | the receiver with a thread implements `Intake` (`IsAnIntake`); in-place buffer is not overwritten (`BufferIsTheHandlers`); even repeated `receive()` gives only what peers sent (`HeardIsGenuine`); `stop()` ends the thread (`StopEndsThread`); a receiver that says it is valid is never up and deaf (`NeverDeaf`) | 132 612 |
| `sender` | `Multicast_Sender` | the chain never forks and ends only on stop or error (`ChainNeverForks`, `StopsForAReason`, `HasWork`, `AnnouncesWhileItFits`); each datagram extends the last (`DatagramsGrow`); calls return (`SendReturns`, `StopEndsThread`) | 3 368 |
| `registry` | `MCRegistry` | queue, log and front (`OneKeyPending`, `RelayLog`, `OneFront`), the table against what the socket gave (`TableShowsLatestHeard`), shutdown (`NoUseAfterShutdown`, `ShutdownReturns`), `RelayedWhileItFits`, `HearsWhatArrives` | 135 236 |
| `discovery_safety` | `MCDiscovery` | the composition implements `Directory` (`IsADirectory`), and a joined service is told nothing more (`QuietAfterJoin`), with loss and failing sends | 2.79 million |
| `discovery_live` | `MCDiscovery` | without loss each service that stays up gets into the table (`Registers`) | 91 673 |
| `service` | `MCService` | nothing outlives the implementation (`NoUseAfterFree`), which has one owner (`OneOwner`); a program that keeps the three rules is never terminated (`SafeByTheBook`); a stopped listener hears nothing again (`StoppedForGood`); `stop()` ends both threads (`StopEndsThreads`) and the owner's calls return (`OwnerReturns`); no valid URI is announced as one (`AnnouncesNoEndpoint`) | 100 779 |
| `patterns` | `Patterns` | unless somebody opens a descriptor between the two closes of a destructor, objects hold and wait on their own descriptors only, where after the first `shutdown()` descriptor 0 is excepted (`KeepsToItself`); destruction gives the descriptor back, except for number 0 of a listener (`ReleasedWhenDestroyed`); only a Subscriber or a Client takes a failed call for a message (`FailureIsContained`); `shutdown()` ends a listener's thread (`ListenersStop`) | 681 360 |
| `receiver_repeated` | `MCMulticast_Receiver` | *violation*: a second `receive()` hands over another datagram than the one it completed with | |
| `sender_periodic` | `Multicast_Sender` | *violation*: announcements cease when the datagram has outgrown the socket | |
| `registry_echo` | `MCRegistry` | *violation*: a second service is never echoed | |
| `patterns_shutdown` | `Patterns` | *violation*: `shutdown()` of a broadcaster leaves its thread going round for ever | |
| `patterns_release` | `Patterns` | *violation*: an object that was shut down and is destroyed closes another's descriptor 0 | |

Bounds, and why they are enough.

* `Minimum = 10` cells stand for the 1024 bytes of the receive buffer: the four messages of the
  instance are shorter, exactly as long (with a second message behind), longer in the brief
  and longer before it — every relation a message may have to the buffer. `Lengths = {12}` is a
  buffer enlarged by `buffer_legth`. `TruncationIsError` tells Windows (a cut datagram is an
  error) from POSIX.
* `MaxArrivals = 3`, `MaxReceives = 3` (receiver): the races need two datagrams, one in hand and
  one arriving; a third shows that the order is kept after the race.
* `MaxDatagram` stands for the roughly 65 kB a UDP socket accepts, counted in messages. Two
  messages are enough to tell a growing datagram from a fresh one; 3 to 5 let the chain go round
  several times before the limit.
* `MaxCalls = 4` (sender): handlers that two earlier calls left behind meet a third and a fourth.
* `MaxArrivals = 4` (registry) with three announcements of two keys and a malformed datagram: a
  key announced again with another text, and one more datagram than the limit of 3.
* Two services (discovery): the smallest number for which one may hide the other.
* Two services and two cells (service): a service can be assigned to another, or take the cell
  another gave up, while the threads of either run; one is configured with one text and one with
  parts, with and without a port. Nothing is bounded in time: the state space is complete.
* Two objects of any of the 36 pairs of kinds and the descriptors 0 and 1: one object can take
  the number the other gave up, or be in the way of it. Objects may be constructed again without
  limit, so the state space is complete for these constants. `Patterns_proofs` lifts the two
  invariants to every number of objects and descriptors.

`service` checks for deadlock: a program that was not terminated can always take another step.
The other configurations have `CHECK_DEADLOCK FALSE`: the bounds on arrivals and calls end every
behaviour there, and the components really stop once they are destroyed or the process ends.

Each passing property has a seeded fault (the operators commented so, next to the definitions
they replace) that makes it fail under the run's own configuration.

## 4. Fairness

* Thread steps (`Thread`, `Listiner`, `AnnouncerHandles`) are weakly fair: the scheduler runs a
  thread that can run. A handler that is ready stays ready, so weak fairness is enough.
* `ReceiveCompletes` is weakly fair: with a datagram in the socket and an operation
  outstanding the operating system completes it.
* `Timer` is weakly fair where a property needs the period to pass: time passes.
* `start` and `Shutdown` of the registry are weakly fair because they are consecutive calls of one
  thread; `StopListiner`, the signal, and `wait` are not fair: they need never come. The same
  holds of `stop`, `join` and the destructors, of arrivals, and of all failures.
* `Prompt` of a pattern is weakly fair: a nanomsg call on a descriptor that is not open returns at
  once, and a thread at the test of its loop goes on. A call on an open descriptor may wait for
  ever; `ListenersStop` and `ShutdownEndsThread` except a thread that does.
  A callback that was handed a null buffer ends, or the program does (`FreesNull`).
* Service: the owner goes on when the thread it waits for has returned; a callback returns; `run()`
  of a context that was stopped returns between two handlers. Nothing makes a program call `stop`,
  and `OwnerReturns` asks of `join()` only that it return once the service was stopped.
* Nothing is assumed of the network beyond `Lossy`; the one property that needs delivery,
  `Registers`, is checked with `Lossy = FALSE` and says so.

## 5. Proofs

All proofs are checked by tlapm for every value of the constants under the named assumptions. They
say of the constants what their types would: `SenderAssumption`, `UsageAssumption`,
`RegistryAssumption`, `DiscoveryAssumption` and `ReceiverAssumption` that limits and lengths are
naturals, that a buffer is not empty, announcements have an address and a port, and a malformed
datagram is not an announcement; `UriAssumption` that digits are word characters, word characters
may occur in a host and neither `":"` nor `"://"` is one of them; `ServiceAssumption` that the
null pointer is no cell and what services are configured with; `PatternsAssumption` that
descriptors are naturals and 0 is one of them. Every invariant and action property of the passing
runs is proved, and so are both refinements; so are all their liveness properties but one, each
from named facts about when an action is enabled (see *Progress* below).

* `Protocol_proofs!RoundTrip`: what one of the six classes wrote, read by any of the six,
  *whatever follows in the stream*, is the message again, without error, and leaves exactly what
  followed. This is what lets Registry and Discovery treat a datagram of many messages as its
  first one. `CutIsRefusedOrPadded`: of a message cut at any place, reading reports an error, or
  all but the last string is as it was written and the lost end of that is zeroes.
  `AcceptedIsWritten` is the converse of both: a stream that is read without an error *begins with*
  the wire form of the message that was read, or ends within its last string and lacks only zeroes
  of it, so nothing is accepted that no peer could have written. `WireFormIsUnambiguous`: no
  message's wire form begins another's, of whichever classes.
  `EqualIsIdentity`: the comparison leaves no member out. `LengthOfEncoding`: `Length()` is three
  sizes short of it. `ErrorsAccumulate`, `EqualAndDifferent`, `NegativeIsSuccess`: what or-ing
  keeps, when `==` and `!=` of a code agree, and that `nano_to_Error` makes a success of every
  failed call's return value.
* `SenderImplementation_proofs`: every operator on the sender record maps senders to senders
  and what it does to the buffer.
* `Multicast_Receiver_proofs`: `TypeOK`, `BufferIsTheHandlers`, `HeardIsGenuine`,
  `ImplementsIntake` (the receiver with a background thread implements `Intake`), and the progress
  properties `StopEndsThread` and `NeverDeaf`.
* `Multicast_Sender_proofs`: `TypeOK`, `ChainNeverForks`, `StopsForAReason`, `HasWork`,
  `DatagramsGrow`, and the progress properties `StopEndsThread`, `SendReturns` and
  `AnnouncesWhileItFits`.
* `Registry_proofs`: `TypeOK`, `OneKeyPending`, `RelayLog`, `TableShowsLatestHeard`, `OneFront`,
  `NoUseAfterShutdown`, for any number of announcements, any datagram limit, and failing networks;
  the progress properties `ShutdownReturns`, `HearsWhatArrives` and, of a network that does not
  fail, `RelayedWhileItFits`.
* `Discovery_proofs`: `ImplementsRegistry`, which carries the registry's theorems over to the
  composition, `DiscoveryTypeOK`, `QuietAfterJoin`, and `ImplementsDirectory`: any number of
  services and a registry on a group that loses datagrams implement `Directory`.
  `RegisteredOnceHeard` and `DiscoveryHears` are the two halves of `Registers`.
* `Service_proofs`: of `Uri`, that what `c_str()` gives of a valid URI is itself no URI
  (`NoEndpointFromValid`) and which URIs it confuses (`OneEndpointTwoURIs`); of services `TypeOK`,
  `NoUseAfterFree`, `OneOwner`, `SafeByTheBook`, `StoppedForGood`, `AnnouncesNoEndpoint`, and the
  progress properties `StopEndsThreads` and `OwnerReturns`, for any number of services and cells.
* `Patterns_proofs`: `TypeOK`, `KeepsToItself`, `ReleasedWhenDestroyed`, `FailureIsContained`, and
  the progress property `ListenersStop`, for any objects, kinds and descriptors.

The inductive invariant of the receiver. What makes reading in place safe is a count: the
operations in flight, completed and in their handler are together at most one while anybody heeds
them (`OneOperation`), because only the first call and the end of a handler start one.
`FrontIsLatest` says what the buffer begins with as long as a handler is to read it, and
`NextInHand` which datagram that is, so that each call gets the next. The refinement then needs
what the callback makes of a front of a datagram, longer or shorter than the message at its head,
which is `RoundTrip` and `CutIsRefusedOrPadded` again: `Hears`, the abstract promise, is exactly
what the two allow.

The inductive invariant of the sender. That a context with handlers left has something to wait for
(`HasWork`) fails to be inductive at the handler of a cancelled wait, which starts nothing and
might be the last. It never is: a wait is cancelled only by the wait that takes its place, so that
one operation from which the chain goes on is always there until a send failed (`ChainLives`).
`BufferExtendsLast`, the last datagram being the front of the buffer, carries `DatagramsGrow`.

The inductive invariant of the registry. None of these is inductive alone, `TypeOK` included: the
broadcast looks up `services[Head(pending_broadcast)]` after the lock was released, and the result
is an announcement only if that key is in the table (`LatestWins` — its domain is the keys of
`accepted`), `accepted` ends in the message in hand (`RelayLog`), and the queue holds that
message's key and nothing else (`OneKeyPending`). `IInv` is their conjunction with what the
listener's thread knows at each point (`HasMessage`, `HasSent`), that it has not begun before
`start` (`NotStarted`), and that a front read means something was recorded (`FrontIsRecorded`).
`Record`, `Send` and `RunOne` have a lemma each; the remaining actions leave the log alone and
share `LogKept`. The table seen from the socket, `TableShowsLatestHeard`, leaves the histories of
the model out: `Recorded`, the datagrams heard that have passed the critical section, grows only at
`Record`, which writes the entry of the one it adds.

The argument for the directory. It follows an announcement on its way: a service's sender holds
nothing but that service's announcement, over and over, so every datagram shows it
(`OwnTextOnly`); what reached the registry was announced by a service that had been started
(`FromStarted`), and so was what it recorded (`KnownAreStarted`); and whatever a listener was told
stands at the front of the broadcaster's buffer (`ToldTheFront`), which is the first announcement
recorded and never changes (`FrontStays`).

The inductive invariant of services. `Shape` says what a service and the call of its owner know of
each other, in particular that a wait for the second thread finds the first one joined: that is
what the deletion at the end of the wait rests on. `Book` is `SafeByTheBook` with what keeps it
so: a handler that found a function still has it, and a listener is joinable only while its
announcer is, so that the owner who starts only joined services assigns to no joinable thread in
either half of `start`.

The inductive invariant of the patterns. `ReleasedWhenDestroyed` is about descriptors whose owner
is gone and `KeepsToItself` about those that are held; neither says what a destructor closes.
`OwnedOrLeaked` does: the owner of an open descriptor is alive and its member `socket` names it, or
it is number 0 of a Subscriber or a Server. `Forgotten` says what the second close finds: 0, or a
number that is closed unless somebody overlapped. `Kept` is the whole effect of `shutdown()` on
others: a member that is 0 and owns nothing, so that 0 is all it can take from them. `Quiet` (a loop nobody is
in waits on nothing) is what `KeepsToItself` needs when an object is constructed anew, and
`ThreadIsJoinable` (a thread in the loop is a joinable one) gives `TypeOK` its last conjunct: an
object destroyed under its thread ends the process.

Progress. What weak fairness promises is said of `ENABLED`, which no prover here expands. Each
progress theorem therefore assumes, beside the fair specification, one named fact per fair action
it uses (`ListinerGoesOn`, `ShutdownGoesOn`, `ThreadGoesOn`, `TimePasses`, `NetworkDelivers`,
`OwnersGoOn`, `HandlersGoOn`, `RunsGoOn`, `ListenersGoOn`, `HearingGoesOn`, `SendingGoesOn`,
`ReturningGoesOn`): *whenever the guards of the action hold, it is enabled*. The facts are true of
the modules, whose actions are guards and assignments. TLC found each of them to hold in every
reachable state of the instance of the module's passing run (`discovery_live` for the registry in
the composition), and it checks the properties themselves without them. What is proved is the rest:
that the guards of the awaited step hold until it is taken, whatever anybody else does in between,
that the step leads on, and that the stages are finitely many.

* `ShutdownReturns`: at any moment of a shutdown the listener is between two announcements after
  four steps at most, and finds its context stopped; `run_one()` cannot block, since the send
  before it left a handler that nobody else runs.
* `HearsWhatArrives`, `NeverDeaf` and `AnnouncesWhileItFits` are stated one datagram at a time,
  the n-th leading to the next, for every n below the bound. That they add up to all datagrams is
  an induction over leads-to, which the temporal prover cannot do.
* `SendReturns`: `run_one()` finds a handler, or a wait that time ends, or a stopped context;
  nothing takes these away from the caller, as a blocking send has no thread beside it.
* `OwnerReturns` goes through both joins; each rests on `StopEndsThreads`, and on the fact that
  nobody else starts, moves or frees the implementation whose threads the owner waits for
  (`OneOwner`).
* `Registers` is the sum of `RegisteredOnceHeard` (with nothing lost, a registry that has heard all
  that arrived has every started service in its table), a safety property, and of `DiscoveryHears`,
  by the same induction.

Only model-checked: `Registers` as a whole; the facts about `ENABLED`.

## 6. What the work showed about the code

Runs that end in a counterexample:

1. `receiver_repeated` — `Multicast_Receiver.cpp:153`: the handler re-arms before `run_one()`
   returns; the next `receive()` arms a second operation on the same buffer, and what completes
   it overwrites the datagram whose handler has not run.
2. `sender_periodic` — `Multicast_Sender.cpp:95`: the message streambuf is never consumed;
   datagrams grow by a message per period until the socket refuses; the error ends the chain
   and with it the io_context.
3. `registry_echo` — `Registry.cpp:71`: for the same reason each datagram of the registry begins
   with the first announcement ever recorded, and readers read one per datagram.
4. `patterns_shutdown` — `Publisher.cpp:171`, `Client.cpp:189`, `Participant.cpp:167` set `running`
   to true in `shutdown()`, and the loops leave only when it is false; `Surveyor.cpp:121` leaves
   its inner loop only on `ETIMEDOUT`. The interface promises the end of the threads.
5. `patterns_release` — `Publisher.cpp:130`: the destructor closes `socket` a second time, after
   `shutdown()` has set it to 0; number 0 may be another object's. No other number is at risk
   (`KeepsToItself`).

Observed while modelling, without a counterexample run of their own:

* `Uri.h:76` takes the sub-matches one place too early. `transport()` is the whole text and
  `c_str()` the scheme; the condition on four sub-matches is never met, so the port of a URI made
  of one text is always 80. Services announce `c_str()` and the patterns bind and connect to it:
  nobody who hears an announcement learns an endpoint (`AnnouncesNoEndpoint`). As the registry's
  keys are made of that address and the port, two services of one scheme and one port share an
  entry of the table.
* A Subscriber hands a failed receive to its callback as a null buffer of size -1 and frees it, a
  Client builds a stream over it (`Subscriber.cpp:93`, `Client.cpp:119`; `FailureIsContained`).
* A receiver whose group address does not parse is bound and can be started, and hears no group
  (`Multicast_Receiver.cpp:130`); neither the registry's `main` nor Service asks `is_valid()`.
* A service started again after `stop()` and `join()` announces once and hears nothing
  (`StoppedForGood`); starting it without the join, moving it and then using or destroying it, or
  setting the callback under a running listener may end the program (`SafeByTheBook` needs all three
  rules). The destructor of a moved-from service follows a null pointer (`FollowsNull`).

Also: a datagram cut within the brief is accepted, padded with `'\0'` (`Protocol.h:411`; `Hears`
allows it, `CutIsRefusedOrPadded`); `Length()` leaves the sizes of strings out
(`LengthOfEncoding`); `send()` documents one message but its `run_one()` may run a left-over timer
and broadcast again (`Multicast_Sender.cpp:143`; `OneKeyPending` shows that the registry then has
nothing left to send twice); the registry never removes a service, whatever `Service.h:52` says of
a heartbeat; a failure of nanomsg whose return value is translated becomes a success
(`NegativeIsSuccess`; `Publisher.cpp:101`), and where the descriptor is passed instead
(`Subscriber.cpp:74`) the error is the one whose number the descriptor happens to have — nobody
reads either; a signoff that reaches the registry registers its sender (`RoundTrip`).

## 7. Not modelled

* Moves of senders, receivers, registries; a second `async_*` on a thread that is not joined (that
  it ends the program is modelled where a program can reach it: Service and Patterns); a `send`
  that blocks on a full socket buffer.
* The destruction of a registry without `shutdown`, which frees the queue and the table under the
  listener's thread (the program never does it); a `wait` that another thread's `shutdown` ends;
  the command line, and the null registry the signal handler meets when construction failed.
* Patterns: the contents of messages, which function is called, `nn_bind`/`nn_connect`, answers
  that come after the deadline of their survey (the descriptor's deadline is modelled, the
  identity of a survey is nanomsg's). nanomsg itself stays external, as asio does.
* Formatting operators (`operator<<`), example programs that print a line, samples, build files.

## 8. Plan

1. *(done)* Protocol with its six classes; receiver with its abstract intake; sender; registry;
   discovery with its abstract directory; `Uri`; service lifecycle; the nanomsg patterns over the
   descriptor table; `Error`.
2. *(done)* Proofs of every invariant and action property of the passing runs, of both
   refinements, of the round trip, of what becomes of a cut stream and of what a reader accepts.
3. *(done)* Proofs of the progress properties from when their actions are enabled.
4. *Left to model.* An abstract owner of one descriptor that a pattern implements when it is shut
   down at most once; the destructor of a registry that was not shut down.
5. *Left to prove.* That `Service` and `Discovery` agree on when a listener may be called, as a
   refinement.
