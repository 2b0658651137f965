--------------------------- MODULE Patterns_proofs ---------------------------
(***************************************************************************)
(* Who owns the descriptors of the patterns, for any number of objects of  *)
(* any kinds and any number of descriptors.                                *)
(*                                                                         *)
(* ReleasedWhenDestroyed says nothing of living objects and is not         *)
(* inductive: OwnedOrLeaked adds that what a living object owns is the     *)
(* descriptor it remembers, which is the one the destructor closes.        *)
(* KeepsToItself needs to know that a loop nobody is in waits on nothing,  *)
(* and, as Forgotten, that what an implementation closes is closed.        *)
(*                                                                         *)
(* A listener that was told to stop leaves its loop at the next test,      *)
(* since nothing sets its member running again (NotRunning).               *)
(***************************************************************************)
EXTENDS Patterns, TLAPS

Quiet == \A p \in Objects : caller[p] = "none" => using[p] = Bad

ThreadIsJoinable == \A p \in Objects : caller[p] = "thread" => joinable[p]

OwnedOrLeaked ==
  \A d \in Descriptors :
    owner[d] \in Objects =>
      \/ owner[d] \in alive \ dying /\ socket[owner[d]] = d
      \/ d = 0 /\ kind[owner[d]] \in Forgetful

Forgotten ==
  \A p \in dying :
    /\ caller[p] # "call"
    /\ kind[p] \in Forgetful => socket[p] = 0
    /\ (kind[p] \notin Forgetful /\ ~overlapped /\ socket[p] \in Kept)
         => owner[socket[p]] = NoOwner

IInv ==
  /\ TypeOK
  /\ Quiet
  /\ ThreadIsJoinable
  /\ OwnedOrLeaked
  /\ Forgotten
  /\ KeepsToItself
  /\ FailureIsContained

-----------------------------------------------------------------------------

LEMMA Initially == Init => IInv
<1> SUFFICES ASSUME Init PROVE IInv
  OBVIOUS
<1> USE DEF Init
<1>1. TypeOK
  BY PatternsAssumption DEF TypeOK, NoOwner, Bad
<1>2. Quiet /\ ThreadIsJoinable /\ Forgotten /\ KeepsToItself /\ FailureIsContained
  BY PatternsAssumption DEF Kept, Bad, Quiet, ThreadIsJoinable, Forgotten, KeepsToItself, FailureIsContained
<1>3. OwnedOrLeaked
  BY PatternsAssumption DEF OwnedOrLeaked, NoOwner
<1> QED BY <1>1, <1>2, <1>3 DEF IInv

\* A loop stays in the program, and hands over nothing for a message only where
\* it is a Subscriber's or a Client's.
LEMMA AfterIsALocation ==
  ASSUME NEW k \in Kinds, NEW call \in {"nn_send", "nn_recv", "null", "test"}, NEW outcome
  PROVE  /\ After(k, call, outcome) \in {"nn_send", "nn_recv", "null", "test"}
         /\ After(k, call, outcome) = "null" => k \in {"Subscriber", "Client"}
BY DEF Kinds, After, Publisher_loop, Subscriber_loop, Client_loop, Server_loop,
  Surveyor_loop, Participant_loop

\* Moving a loop on leaves the table alone and makes it wait on nothing but its
\* member's descriptor, if that is open.
LEMMA GoToEffect ==
  ASSUME IInv, NEW p \in Objects,
         NEW where \in {"none", "nn_send", "nn_recv", "null", "test"}, GoTo(p, where)
  PROVE  /\ loop' \in [Objects -> {"none", "nn_send", "nn_recv", "null", "test"}]
         /\ using' \in [Objects -> Descriptors \cup {Bad}]
         /\ loop'[p] = where
         /\ \A q \in Objects \ {p} : loop'[q] = loop[q] /\ using'[q] = using[q]
         /\ using'[p] = Bad \/ (using'[p] = socket[p] /\ IsOpen(socket[p]))
         /\ where \in {"none", "null", "test"} => using'[p] = Bad
BY DEF IInv, TypeOK, GoTo

\* A loop that goes on is within its bounds.
LEMMA LoopStep ==
  ASSUME IInv, NEW p \in Objects,
         NEW where \in {"none", "nn_send", "nn_recv", "null", "test"}, GoTo(p, where),
         where = "null" => kind[p] \in {"Subscriber", "Client"},
         NEW c \in {"none", "call", "thread"}, caller' = [caller EXCEPT ![p] = c],
         where = "none" <=> c = "none",
         c = "call" => p \notin dying,
         c # "none" => p \in alive \/ terminated # "no",
         \A q \in Objects : joinable[q] => joinable'[q],
         c = "thread" => joinable'[p],
         joinable' \in [Objects -> BOOLEAN], running' \in [Objects -> BOOLEAN],
         terminated' \in {"no", "joinable"} \cup {terminated},
         terminated # "no" => terminated' # "no",
         UNCHANGED <<owner, kind, alive, dying, socket, down, shutdowns, overlapped>>
  PROVE  IInv'
<1>1. /\ loop' \in [Objects -> {"none", "nn_send", "nn_recv", "null", "test"}]
      /\ using' \in [Objects -> Descriptors \cup {Bad}]
      /\ loop'[p] = where
      /\ \A q \in Objects \ {p} : loop'[q] = loop[q] /\ using'[q] = using[q]
      /\ using'[p] = Bad \/ (using'[p] = socket[p] /\ IsOpen(socket[p]))
      /\ where \in {"none", "null", "test"} => using'[p] = Bad
  BY GoToEffect
<1>2. TypeOK'
  BY <1>1 DEF IInv, TypeOK
<1>3. Quiet'
  BY <1>1 DEF IInv, TypeOK, Quiet
<1>4. ThreadIsJoinable' /\ OwnedOrLeaked'
  BY DEF IInv, TypeOK, ThreadIsJoinable, OwnedOrLeaked
<1>5. Forgotten' /\ Kept' = Kept
  BY DEF IInv, TypeOK, Forgotten, Kept
<1>6. KeepsToItself'
  <2> SUFFICES ASSUME ~overlapped, NEW q \in alive, using'[q] \in Kept
               PROVE  owner[using'[q]] = q
                        \/ (q \in dying /\ kind[q] \in Forgetful /\ using'[q] = 0)
    BY <1>5 DEF IInv, KeepsToItself
  <2>0. using'[q] # Bad
    BY PatternsAssumption DEF Kept, Bad
  <2>1. CASE q # p
    BY <1>1, <2>1 DEF IInv, TypeOK, KeepsToItself
  <2>2. CASE q = p /\ p \notin dying
    BY <1>1, <2>0, <2>2 DEF IInv, KeepsToItself
  <2>3. CASE q = p /\ p \in dying
    BY <1>1, <2>0, <2>3 DEF IInv, Forgotten, IsOpen
  <2> QED BY <2>1, <2>2, <2>3
<1>7. FailureIsContained'
  BY <1>1 DEF IInv, TypeOK, FailureIsContained
<1> QED BY <1>2, <1>3, <1>4, <1>5, <1>6, <1>7 DEF IInv

\* Closing a descriptor takes it from its owner and wakes who waits on it.
LEMMA CloseEffect ==
  ASSUME IInv, NEW d \in Descriptors \cup {Bad}, nn_close(d)
  PROVE  /\ owner' \in [Descriptors -> Objects \cup {NoOwner}]
         /\ using' \in [Objects -> Descriptors \cup {Bad}]
         /\ \A e \in Descriptors : owner'[e] = (IF e = d THEN NoOwner ELSE owner[e])
         /\ \A p \in Objects :
              \/ using'[p] = using[p] /\ (using[p] = d => ~IsOpen(d))
              \/ using'[p] = Bad
BY PatternsAssumption DEF IInv, TypeOK, nn_close, IsOpen, NoOwner, Bad

-----------------------------------------------------------------------------

LEMMA ReturnsStep ==
  ASSUME IInv, NEW p \in Objects, NEW outcome, Returns(p, outcome)
  PROVE  IInv'
<1> DEFINE where == After(kind[p], loop[p], outcome)
<1>1. /\ where \in {"nn_send", "nn_recv", "null", "test"}
      /\ where = "null" => kind[p] \in {"Subscriber", "Client"}
  BY AfterIsALocation DEF IInv, TypeOK, Returns
<1> HIDE DEF where
<1>2. /\ GoTo(p, where)
      /\ loop[p] # "none"
      /\ UNCHANGED <<owner, kind, alive, dying, socket, running, caller, joinable, down,
                     shutdowns, overlapped, terminated>>
  BY DEF Returns, where, history
<1>3. /\ caller[p] \in {"call", "thread"} /\ caller' = [caller EXCEPT ![p] = caller[p]]
      /\ p \in alive \/ terminated # "no"
      /\ caller[p] = "call" => p \notin dying
      /\ caller[p] = "thread" => joinable[p]
      /\ joinable \in [Objects -> BOOLEAN] /\ running \in [Objects -> BOOLEAN]
  BY <1>2 DEF IInv, TypeOK, Forgotten, ThreadIsJoinable
<1> QED BY <1>1, <1>2, <1>3, LoopStep

\* The program goes on, or not.
LEMMA FreesNullStep ==
  ASSUME IInv, NEW p \in Objects, FreesNull(p)
  PROVE  IInv'
<1>1. /\ loop[p] = "null"
      /\ UNCHANGED <<owner, kind, alive, dying, socket, running, caller, joinable, down,
                     shutdowns, overlapped>>
  BY DEF FreesNull, history
<1>2. CASE GoTo(p, "test") /\ UNCHANGED terminated
  <2>1. /\ caller[p] \in {"call", "thread"} /\ caller' = [caller EXCEPT ![p] = caller[p]]
        /\ p \in alive \/ terminated # "no"
        /\ caller[p] = "call" => p \notin dying
        /\ caller[p] = "thread" => joinable[p]
        /\ joinable \in [Objects -> BOOLEAN] /\ running \in [Objects -> BOOLEAN]
    BY <1>1 DEF IInv, TypeOK, Forgotten, ThreadIsJoinable
  <2> QED BY <1>1, <1>2, <2>1, LoopStep
<1>3. CASE terminated' = "null" /\ UNCHANGED <<loop, using>>
  <2>1. TypeOK'
    BY <1>1, <1>3 DEF IInv, TypeOK
  <2>2. Quiet' /\ ThreadIsJoinable' /\ OwnedOrLeaked' /\ Forgotten'
    BY <1>1, <1>3 DEF IInv, Quiet, ThreadIsJoinable, OwnedOrLeaked, Forgotten, Kept
  <2>3. KeepsToItself'
    BY <1>1, <1>3 DEF IInv, KeepsToItself, Kept
  <2>4. FailureIsContained'
    BY <1>1, <1>3 DEF IInv, FailureIsContained
  <2> QED BY <2>1, <2>2, <2>3, <2>4 DEF IInv
<1> QED BY <1>2, <1>3 DEF FreesNull

LEMMA TestStep ==
  ASSUME IInv, NEW p \in Objects, Test(p)
  PROVE  IInv'
<1> DEFINE where == IF running[p] THEN First(kind[p]) ELSE "none"
           c == IF running[p] THEN caller[p] ELSE "none"
<1>1. /\ loop[p] = "test"
      /\ GoTo(p, where)
      /\ where = "none" <=> ~running[p]
      /\ where \in {"none", "nn_send", "nn_recv"}
      /\ UNCHANGED <<owner, kind, alive, dying, socket, running, joinable, down, shutdowns,
                     overlapped, terminated>>
  BY DEF Test, First, history
<1>2. /\ caller' = [caller EXCEPT ![p] = c]
      /\ c \in {"none", "call", "thread"}
      /\ c = "none" <=> ~running[p]
      /\ c = "call" => p \notin dying
      /\ c = "thread" => joinable[p]
      /\ c # "none" => p \in alive \/ terminated # "no"
      /\ joinable \in [Objects -> BOOLEAN] /\ running \in [Objects -> BOOLEAN]
  BY <1>1 DEF Test, IInv, TypeOK, Forgotten, ThreadIsJoinable
<1> HIDE DEF where, c
<1> QED BY <1>1, <1>2, LoopStep

LEMMA StartStep ==
  ASSUME IInv, terminated = "no", NEW p \in Objects, NEW k \in Kinds,
         Calls(p, k) \/ Launches(p, k)
  PROVE  IInv'
<1> DEFINE where == First(k)
<1>1. /\ p \in alive /\ p \notin dying
      /\ GoTo(p, where)
      /\ where \in {"nn_send", "nn_recv"}
      /\ running' \in [Objects -> BOOLEAN]
      /\ joinable' \in [Objects -> BOOLEAN]
      /\ terminated' \in {"no", "joinable"}
      /\ UNCHANGED <<owner, kind, alive, dying, socket, down, shutdowns, overlapped>>
  BY DEF Calls, Launches, MayStart, First, IInv, TypeOK, history
<1>2. PICK c \in {"call", "thread"} : caller' = [caller EXCEPT ![p] = c]
  BY DEF Calls, Launches
<1>3. /\ \A q \in Objects : joinable[q] => joinable'[q]
      /\ caller'[p] = "thread" => joinable'[p]
      /\ caller'[p] = c
  BY <1>2 DEF Calls, Launches, IInv, TypeOK
<1> HIDE DEF where
<1> QED BY <1>1, <1>2, <1>3, LoopStep

\* A new object is given a number nobody owns.
LEMMA ConstructStep ==
  ASSUME IInv, terminated = "no", NEW p \in Objects, NEW k \in Kinds, Constructs(p, k)
  PROVE  IInv'
<1>1. PICK d \in Free \cup {Bad} :
        /\ Opened(p, d)
        /\ owner' = [e \in Descriptors |-> IF e = d THEN p ELSE owner[e]]
        /\ overlapped' = (overlapped \/
             \E q \in dying : d # Bad /\ kind[q] \notin Forgetful /\ socket[q] = d)
  BY DEF Constructs
<1>2. d \in Descriptors \cup {Bad} /\ (d \in Descriptors => owner[d] = NoOwner)
  BY PatternsAssumption DEF Free, Bad
<1>3. /\ socket' = [socket EXCEPT ![p] = d]
      /\ p \notin alive /\ p \notin dying /\ alive' = alive \cup {p}
      /\ running' = [running EXCEPT ![p] = FALSE]
      /\ down' = [down EXCEPT ![p] = FALSE]
      /\ UNCHANGED <<kind, dying, loop, using, caller, joinable, shutdowns, terminated>>
  BY <1>1 DEF Constructs, Opened, IInv, TypeOK
<1>4. TypeOK'
  <2>1. overlapped' \in BOOLEAN
    BY <1>1, Zenon
  <2> QED BY <1>1, <1>2, <1>3, <2>1 DEF IInv, TypeOK
<1>0. Kept' = Kept /\ Bad \notin Kept /\ Kept \subseteq Descriptors
  BY PatternsAssumption, <1>3 DEF Kept, Bad
<1>5. Quiet' /\ ThreadIsJoinable' /\ FailureIsContained'
  BY <1>3 DEF IInv, Quiet, ThreadIsJoinable, FailureIsContained
<1>6. OwnedOrLeaked'
  BY <1>1, <1>2, <1>3 DEF IInv, TypeOK, OwnedOrLeaked
<1>7. using[p] = Bad
  BY <1>3 DEF IInv, TypeOK, Quiet
<1>8. Forgotten'
  <2> SUFFICES ASSUME NEW q \in dying
               PROVE  /\ caller[q] # "call"
                      /\ kind[q] \in Forgetful => socket'[q] = 0
                      /\ (kind[q] \notin Forgetful /\ ~overlapped' /\ socket'[q] \in Kept)
                           => owner'[socket'[q]] = NoOwner
    BY <1>0, <1>3 DEF Forgotten
  <2>1. q # p /\ q \in Objects /\ socket'[q] = socket[q]
    BY <1>3 DEF IInv, TypeOK
  <2>2. caller[q] # "call" /\ (kind[q] \in Forgetful => socket'[q] = 0)
    BY <2>1 DEF IInv, Forgotten
  <2>3. ASSUME kind[q] \notin Forgetful, ~overlapped', socket[q] \in Kept
        PROVE  owner'[socket[q]] = NoOwner
    <3>1. owner[socket[q]] = NoOwner /\ socket[q] # d
      BY <1>0, <1>1, <2>3 DEF IInv, Forgotten
    <3> QED BY <1>0, <1>1, <2>3, <3>1
  <2> QED BY <2>1, <2>2, <2>3
<1>9. KeepsToItself'
  <2> SUFFICES ASSUME ~overlapped, NEW q \in alive'
               PROVE  /\ (q \notin dying /\ socket'[q] \in Kept) => owner'[socket'[q]] = q
                      /\ using[q] \in Kept => owner'[using[q]] = q
                           \/ (q \in dying /\ kind[q] \in Forgetful /\ using[q] = 0)
    BY <1>0, <1>1, <1>3 DEF KeepsToItself
  <2>1. CASE q = p
    BY <1>0, <1>1, <1>2, <1>3, <1>7, <2>1 DEF IInv, TypeOK
  <2>2. CASE q # p
    <3>1. q \in alive /\ q \in Objects /\ socket'[q] = socket[q]
      BY <1>3, <2>2 DEF IInv, TypeOK
    <3>2. \A e \in Descriptors : owner[e] = q => owner'[e] = q
      BY PatternsAssumption, <1>1, <1>2, <3>1
    <3>3. socket[q] \in Descriptors \cup {Bad} /\ using[q] \in Descriptors \cup {Bad}
      BY <3>1 DEF IInv, TypeOK
    <3> QED BY <1>0, <3>1, <3>2, <3>3 DEF IInv, KeepsToItself
  <2> QED BY <2>1, <2>2
<1> QED BY <1>4, <1>5, <1>6, <1>8, <1>9 DEF IInv

\* What the six have in common: the object forgets its descriptor after closing
\* it, or keeps it.
LEMMA ShutdownStep ==
  ASSUME IInv, NEW p \in Objects, NEW k \in Kinds, NEW run \in BOOLEAN,
         ShutsDown(p, k, run),
         Closes(p) \/ KeepsOpen
  PROVE  IInv'
<1>1. /\ p \in alive /\ p \notin dying
      /\ running' \in [Objects -> BOOLEAN] /\ down' \in [Objects -> BOOLEAN]
      /\ shutdowns' = TRUE
      /\ UNCHANGED <<kind, alive, dying, loop, caller, joinable, overlapped, terminated>>
  BY DEF ShutsDown, IInv, TypeOK
<1>2. /\ Kept' = Descriptors \ {0} /\ Kept' \subseteq Kept
      /\ Kept \subseteq Descriptors /\ Bad \notin Kept
  BY <1>1, PatternsAssumption DEF Kept, Bad
<1>3. ThreadIsJoinable' /\ FailureIsContained'
  BY <1>1 DEF IInv, ThreadIsJoinable, FailureIsContained
<1>4. CASE UNCHANGED <<owner, using, socket>>
  <2>1. TypeOK'
    BY <1>1, <1>4 DEF IInv, TypeOK
  <2>2. Quiet' /\ OwnedOrLeaked'
    BY <1>1, <1>4 DEF IInv, Quiet, OwnedOrLeaked
  <2>3. Forgotten' /\ KeepsToItself'
    BY <1>1, <1>2, <1>4 DEF IInv, Forgotten, KeepsToItself
  <2> QED BY <1>3, <2>1, <2>2, <2>3 DEF IInv
<1>5. CASE nn_close(socket[p]) /\ socket' = [socket EXCEPT ![p] = 0]
  <2> DEFINE d == socket[p]
  <2>1. d \in Descriptors \cup {Bad}
    BY DEF IInv, TypeOK
  <2>2. nn_close(d)
    BY <1>5
  <2> HIDE DEF d
  <2>3. /\ owner' \in [Descriptors -> Objects \cup {NoOwner}]
        /\ using' \in [Objects -> Descriptors \cup {Bad}]
        /\ \A e \in Descriptors : owner'[e] = (IF e = d THEN NoOwner ELSE owner[e])
        /\ \A q \in Objects :
             \/ using'[q] = using[q] /\ (using[q] = d => ~IsOpen(d))
             \/ using'[q] = Bad
    BY <2>1, <2>2, CloseEffect
  <2>4. TypeOK'
    BY <1>1, <1>5, <2>3, PatternsAssumption DEF IInv, TypeOK
  <2>5. Quiet'
    BY <1>1, <2>3 DEF IInv, Quiet
  <2>6. OwnedOrLeaked'
    BY <1>1, <1>5, <2>3, PatternsAssumption DEF IInv, TypeOK, OwnedOrLeaked, d
  <2>7. /\ alive \subseteq Objects /\ dying \subseteq alive
        /\ \A q \in Objects : socket[q] \in Descriptors \cup {Bad}
        /\ \A q \in Objects \ {p} : socket'[q] = socket[q]
        /\ socket'[p] = 0
    BY <1>5 DEF IInv, TypeOK
  <2>8. Forgotten'
    BY <1>1, <1>2, <2>3, <2>7 DEF IInv, Forgotten
  <2>9. KeepsToItself'
    <3> SUFFICES ASSUME ~overlapped, NEW q \in alive
                 PROVE  /\ (q \notin dying /\ socket'[q] \in Kept') => owner'[socket'[q]] = q
                        /\ using'[q] \in Kept' => owner'[using'[q]] = q
                             \/ (q \in dying /\ kind[q] \in Forgetful /\ using'[q] = 0)
      BY <1>1 DEF KeepsToItself
    <3>1. ASSUME q \notin dying, socket'[q] \in Kept' PROVE owner'[socket'[q]] = q
      <4>1. q # p /\ socket[q] \in Kept /\ socket'[q] = socket[q]
        BY <1>2, <2>7, <3>1
      <4>2. owner[socket[q]] = q
        BY <3>1, <4>1 DEF IInv, KeepsToItself
      <4>3. socket[q] # d
        BY <1>1, <1>2, <3>1, <4>1, <4>2 DEF IInv, KeepsToItself, d
      <4> QED BY <1>2, <2>3, <4>1, <4>2, <4>3
    <3>2. ASSUME using'[q] \in Kept'
          PROVE  owner'[using'[q]] = q
                   \/ (q \in dying /\ kind[q] \in Forgetful /\ using'[q] = 0)
      <4>1. using'[q] = using[q] /\ using[q] \in Kept /\ using[q] # 0
        BY <1>2, <2>3, <2>7, <3>2
      <4>2. owner[using[q]] = q
        BY <4>1 DEF IInv, KeepsToItself
      <4>3. owner'[using[q]] = owner[using[q]]
        BY <1>2, <2>3, <2>7, <3>2, <4>1, <4>2, PatternsAssumption DEF IsOpen
      <4> QED BY <4>1, <4>2, <4>3
    <3> QED BY <3>1, <3>2
  <2> QED BY <1>3, <2>4, <2>5, <2>6, <2>8, <2>9 DEF IInv
<1> QED BY <1>4, <1>5 DEF Closes, KeepsOpen

\* What both steps of a destructor do: they close the number, or leave 0 alone.
LEMMA GiveUp ==
  ASSUME IInv, NEW d \in Descriptors \cup {Bad},
         nn_close(d) \/ (d = 0 /\ UNCHANGED <<owner, using>>)
  PROVE  /\ owner' \in [Descriptors -> Objects \cup {NoOwner}]
         /\ using' \in [Objects -> Descriptors \cup {Bad}]
         /\ \A e \in Descriptors : owner'[e] = owner[e] \/ (e = d /\ owner'[e] = NoOwner)
         /\ d = 0 \/ (d # Bad => owner'[d] = NoOwner)
         /\ \A q \in Objects : using'[q] = using[q] \/ using'[q] = Bad
         /\ \A q \in Objects : using'[q] # Bad => owner'[using'[q]] = owner[using'[q]]
<1>1. CASE nn_close(d)
  <2>1. /\ owner' \in [Descriptors -> Objects \cup {NoOwner}]
        /\ using' \in [Objects -> Descriptors \cup {Bad}]
        /\ \A e \in Descriptors : owner'[e] = (IF e = d THEN NoOwner ELSE owner[e])
        /\ \A q \in Objects :
              \/ using'[q] = using[q] /\ (using[q] = d => ~IsOpen(d))
              \/ using'[q] = Bad
    BY <1>1, CloseEffect
  <2> QED BY <2>1 DEF IInv, TypeOK, IsOpen
<1>2. CASE d = 0 /\ UNCHANGED <<owner, using>>
  BY <1>2 DEF IInv, TypeOK
<1> QED BY <1>1, <1>2

\* The descriptor an object gives up in its destructor is the only one it owns.
LEMMA DestructorStep ==
  ASSUME IInv, terminated = "no", NEW p \in Objects, NEW k \in Kinds,
         Destroys(p, k),
         \/ ClosesAnything(p) /\ k \notin Forgetful
         \/ Forgets(p) /\ k \in Forgetful
  PROVE  IInv'
<1>1. /\ p \in alive /\ p \notin dying /\ kind[p] = k /\ caller[p] # "call"
      /\ dying' = dying \cup {p}
      /\ UNCHANGED <<kind, alive, running, loop, caller, joinable, down, shutdowns,
                     overlapped, terminated>>
  BY DEF Destroys, history
<1> DEFINE d == socket[p]
<1>2. d \in Descriptors \cup {Bad}
  BY DEF IInv, TypeOK
<1>3. nn_close(d) \/ (d = 0 /\ UNCHANGED <<owner, using>>)
  BY DEF ClosesAnything, Forgets
<1>4. /\ k \in Forgetful => socket' = [socket EXCEPT ![p] = 0]
      /\ k \notin Forgetful => nn_close(d) /\ socket' = socket
  BY DEF ClosesAnything, Forgets
<1>5. /\ owner' \in [Descriptors -> Objects \cup {NoOwner}]
      /\ using' \in [Objects -> Descriptors \cup {Bad}]
      /\ \A e \in Descriptors : owner'[e] = owner[e] \/ (e = d /\ owner'[e] = NoOwner)
      /\ d = 0 \/ (d # Bad => owner'[d] = NoOwner)
      /\ \A q \in Objects : using'[q] = using[q] \/ using'[q] = Bad
      /\ \A q \in Objects : using'[q] # Bad => owner'[using'[q]] = owner[using'[q]]
  <2> HIDE DEF d
  <2> QED BY <1>2, <1>3, GiveUp
<1>6. k \notin Forgetful /\ d # Bad => owner'[d] = NoOwner
  <2> HIDE DEF d
  <2>1. CASE nn_close(d)
    BY <1>2, <2>1, CloseEffect
  <2> QED BY <1>4, <2>1
<1>7. TypeOK'
  BY <1>1, <1>4, <1>5, PatternsAssumption DEF IInv, TypeOK
<1>8. Quiet' /\ ThreadIsJoinable' /\ FailureIsContained'
  BY <1>1, <1>5 DEF IInv, Quiet, ThreadIsJoinable, FailureIsContained
<1>0. Kept' = Kept /\ Bad \notin Kept /\ Kept \subseteq Descriptors
  BY PatternsAssumption, <1>1 DEF Kept, Bad
<1>9. Forgotten'
  <2>1. \A q \in dying : q \in Objects /\ q # p /\ socket'[q] = socket[q]
                         /\ socket[q] \in Descriptors \cup {Bad}
    BY <1>1, <1>4 DEF IInv, TypeOK
  <2>2. \A q \in dying : kind'[q] = kind[q] /\ caller'[q] = caller[q]
    BY <1>1
  <2>3. k \in Forgetful => socket'[p] = 0
    BY <1>4 DEF IInv, TypeOK
  <2>4. k \notin Forgetful => socket'[p] = d
    BY <1>4
  <2>5. ASSUME NEW q \in dying
        PROVE  /\ caller[q] # "call"
               /\ kind[q] \in Forgetful => socket'[q] = 0
               /\ (kind[q] \notin Forgetful /\ ~overlapped /\ socket'[q] \in Kept)
                    => owner'[socket'[q]] = NoOwner
    BY <1>0, <1>5, <2>1 DEF IInv, Forgotten
  <2>6. /\ caller[p] # "call"
        /\ kind[p] \in Forgetful => socket'[p] = 0
        /\ (kind[p] \notin Forgetful /\ socket'[p] # Bad) => owner'[socket'[p]] = NoOwner
    BY <1>1, <1>6, <2>3, <2>4, PatternsAssumption DEF IInv, TypeOK
  <2> HIDE DEF d
  <2> QED BY <1>0, <1>1, <2>5, <2>6 DEF Forgotten
<1>10. OwnedOrLeaked'
  <2> SUFFICES ASSUME NEW e \in Descriptors, owner'[e] \in Objects
               PROVE  \/ owner'[e] \in alive \ dying' /\ socket'[owner'[e]] = e
                      \/ e = 0 /\ kind[owner'[e]] \in Forgetful
    BY <1>1 DEF OwnedOrLeaked
  <2>1. owner'[e] = owner[e]
    BY PatternsAssumption, <1>5
  <2>2. \/ owner[e] \in alive \ dying /\ socket[owner[e]] = e
        \/ e = 0 /\ kind[owner[e]] \in Forgetful
    BY <2>1 DEF IInv, OwnedOrLeaked
  <2>3. CASE owner[e] # p
    BY <1>1, <1>4, <2>1, <2>2, <2>3 DEF IInv, TypeOK
  <2>4. CASE owner[e] = p
    <3>1. e # Bad
      BY PatternsAssumption DEF Bad
    <3>2. CASE e = d
      BY PatternsAssumption, <1>1, <1>5, <1>6, <2>1, <2>4, <3>1, <3>2
    <3>3. CASE e # d
      BY <1>1, <2>1, <2>2, <2>4, <3>3
    <3> QED BY <3>2, <3>3
  <2> QED BY <2>3, <2>4
<1>11. KeepsToItself'
  <2> SUFFICES ASSUME ~overlapped, NEW q \in alive
               PROVE  /\ (q \notin dying' /\ socket'[q] \in Kept) => owner'[socket'[q]] = q
                      /\ using'[q] \in Kept => owner'[using'[q]] = q
                           \/ (q \in dying' /\ kind[q] \in Forgetful /\ using'[q] = 0)
    BY <1>0, <1>1 DEF KeepsToItself
  <2>1. q \in Objects
    BY DEF IInv, TypeOK
  <2>2. ASSUME q \notin dying', socket'[q] \in Kept PROVE owner'[socket'[q]] = q
    <3>1. q # p /\ q \notin dying /\ socket'[q] = socket[q]
      BY <1>1, <1>4, <2>1, <2>2 DEF IInv, TypeOK
    <3>2. owner[socket[q]] = q /\ (d \in Kept => owner[d] = p)
      BY <1>1, <2>2, <3>1 DEF IInv, KeepsToItself
    <3>3. socket[q] \in Descriptors
      BY <1>0, <2>2, <3>1
    <3>4. socket[q] # d
      BY <2>2, <3>1, <3>2
    <3> QED BY <1>5, <3>1, <3>2, <3>3, <3>4
  <2>3. ASSUME using'[q] \in Kept
        PROVE  owner'[using'[q]] = q
                 \/ (q \in dying' /\ kind[q] \in Forgetful /\ using'[q] = 0)
    <3>1. using'[q] = using[q] /\ owner'[using'[q]] = owner[using[q]]
      BY <1>0, <1>5, <2>1, <2>3
    <3> QED BY <1>1, <2>3, <3>1 DEF IInv, KeepsToItself
  <2> QED BY <2>2, <2>3
<1> QED BY <1>7, <1>8, <1>9, <1>10, <1>11 DEF IInv

\* What the implementation closes again is closed, unless the number was given
\* out in between.
LEMMA DestroysImplementationStep ==
  ASSUME IInv, terminated = "no", NEW p \in Objects, NEW k \in Kinds,
         DestroysImplementation(p, k)
  PROVE  IInv'
<1>1. /\ p \in dying /\ alive' = alive \ {p} /\ dying' = dying \ {p}
      /\ terminated' = IF joinable[p] THEN "joinable" ELSE "no"
      /\ UNCHANGED <<kind, socket, running, loop, caller, joinable, down, shutdowns, overlapped>>
  BY DEF DestroysImplementation, history
<1> DEFINE d == socket[p]
<1>2. d \in Descriptors \cup {Bad}
  BY DEF IInv, TypeOK
<1>3. nn_close(d) \/ (d = 0 /\ UNCHANGED <<owner, using>>)
  BY DEF DestroysImplementation
<1>4. /\ owner' \in [Descriptors -> Objects \cup {NoOwner}]
      /\ using' \in [Objects -> Descriptors \cup {Bad}]
      /\ \A e \in Descriptors : owner'[e] = owner[e] \/ (e = d /\ owner'[e] = NoOwner)
      /\ \A q \in Objects : using'[q] = using[q] \/ using'[q] = Bad
      /\ \A q \in Objects : using'[q] # Bad => owner'[using'[q]] = owner[using'[q]]
  <2> HIDE DEF d
  <2> QED BY <1>2, <1>3, GiveUp
<1>5. caller[p] # "call" /\ (caller[p] = "thread" => joinable[p])
  BY <1>1 DEF IInv, Forgotten, ThreadIsJoinable
<1>6. TypeOK'
  BY <1>1, <1>4, <1>5 DEF IInv, TypeOK
<1>7. Quiet' /\ ThreadIsJoinable'
  BY <1>1, <1>4 DEF IInv, Quiet, ThreadIsJoinable
<1>8. FailureIsContained'
  BY <1>1 DEF IInv, FailureIsContained
<1>9. OwnedOrLeaked'
  BY PatternsAssumption, <1>1, <1>4 DEF IInv, TypeOK, OwnedOrLeaked
<1>0. Kept' = Kept /\ Bad \notin Kept /\ Kept \subseteq Descriptors
  BY PatternsAssumption, <1>1 DEF Kept, Bad
<1>10. Forgotten'
  BY <1>0, <1>1, <1>4 DEF IInv, TypeOK, Forgotten
<1>11. KeepsToItself'
  <2> SUFFICES ASSUME ~overlapped, NEW q \in alive, q # p
               PROVE  /\ (q \notin dying /\ socket[q] \in Kept) => owner'[socket[q]] = q
                      /\ using'[q] \in Kept => owner'[using'[q]] = q
                           \/ (q \in dying /\ kind[q] \in Forgetful /\ using'[q] = 0)
    BY <1>0, <1>1 DEF KeepsToItself
  <2>1. q \in Objects /\ p \in Objects
    BY DEF IInv, TypeOK
  <2>2. ASSUME q \notin dying, socket[q] \in Kept PROVE owner'[socket[q]] = q
    <3>1. owner[socket[q]] = q /\ socket[q] \in Descriptors
      BY <1>0, <2>1, <2>2 DEF IInv, TypeOK, KeepsToItself
    <3>2. CASE kind[p] \in Forgetful
      <4>1. d = 0 /\ UNCHANGED <<owner, using>>
        BY <1>1, <3>2 DEF IInv, Forgotten, DestroysImplementation
      <4> QED BY <3>1, <4>1
    <3>3. CASE kind[p] \notin Forgetful
      <4>1. d \in Kept => owner[d] = NoOwner
        BY <1>1, <3>3 DEF IInv, Forgotten
      <4>2. socket[q] # d
        BY PatternsAssumption, <2>1, <2>2, <3>1, <4>1
      <4> QED BY <1>4, <3>1, <4>2
    <3> QED BY <3>2, <3>3
  <2>3. ASSUME using'[q] \in Kept
        PROVE  owner'[using'[q]] = q
                 \/ (q \in dying /\ kind[q] \in Forgetful /\ using'[q] = 0)
    <3>1. using'[q] = using[q] /\ owner'[using'[q]] = owner[using[q]]
      BY <1>0, <1>4, <2>1, <2>3
    <3> QED BY <2>3, <3>1 DEF IInv, KeepsToItself
  <2> QED BY <2>2, <2>3
<1> QED BY <1>6, <1>7, <1>8, <1>9, <1>10, <1>11 DEF IInv

LEMMA PublisherStep ==
  ASSUME IInv, terminated = "no", NEW p \in Objects, Publisher(p)
  PROVE  IInv'
<1>1. CASE PubSub_Publisher(p)
  BY <1>1, ConstructStep DEF Kinds, PubSub_Publisher
<1>2. CASE Publisher_broadcast(p) \/ Publisher_async_broadcast(p)
  BY <1>2, StartStep DEF Kinds, Publisher_broadcast, Publisher_async_broadcast
<1>3. CASE Publisher_shutdown(p)
  BY <1>3, ShutdownStep DEF Kinds, Publisher_shutdown
<1>4. CASE Publisher_destructor(p)
  BY <1>4, DestructorStep DEF Kinds, Forgetful, Publisher_destructor
<1>5. CASE Publisher_Implementation_destructor(p)
  BY <1>5, DestroysImplementationStep DEF Kinds, Publisher_Implementation_destructor
<1> QED BY <1>1, <1>2, <1>3, <1>4, <1>5 DEF Publisher

LEMMA SubscriberStep ==
  ASSUME IInv, terminated = "no", NEW p \in Objects, Subscriber(p)
  PROVE  IInv'
<1>1. CASE PubSub_Subscriber(p)
  BY <1>1, ConstructStep DEF Kinds, PubSub_Subscriber
<1>2. CASE Subscriber_listen(p) \/ Subscriber_async_listen(p)
  BY <1>2, StartStep DEF Kinds, Subscriber_listen, Subscriber_async_listen
<1>3. CASE Subscriber_shutdown(p)
  BY <1>3, ShutdownStep DEF Kinds, Subscriber_shutdown
<1>4. CASE Subscriber_destructor(p)
  BY <1>4, DestructorStep DEF Kinds, Forgetful, Subscriber_destructor
<1>5. CASE Subscriber_Implementation_destructor(p)
  BY <1>5, DestroysImplementationStep DEF Kinds, Subscriber_Implementation_destructor
<1> QED BY <1>1, <1>2, <1>3, <1>4, <1>5 DEF Subscriber

LEMMA ClientStep ==
  ASSUME IInv, terminated = "no", NEW p \in Objects, Client(p)
  PROVE  IInv'
<1>1. CASE ReqRep_Client(p)
  BY <1>1, ConstructStep DEF Kinds, ReqRep_Client
<1>2. CASE Client_broadcast(p) \/ Client_async_broadcast(p)
  BY <1>2, StartStep DEF Kinds, Client_broadcast, Client_async_broadcast
<1>3. CASE Client_shutdown(p)
  BY <1>3, ShutdownStep DEF Kinds, Client_shutdown
<1>4. CASE Client_destructor(p)
  BY <1>4, DestructorStep DEF Kinds, Forgetful, Client_destructor
<1>5. CASE Client_Implementation_destructor(p)
  BY <1>5, DestroysImplementationStep DEF Kinds, Client_Implementation_destructor
<1> QED BY <1>1, <1>2, <1>3, <1>4, <1>5 DEF Client

LEMMA ServerStep ==
  ASSUME IInv, terminated = "no", NEW p \in Objects, Server(p)
  PROVE  IInv'
<1>1. CASE ReqRep_Server(p)
  BY <1>1, ConstructStep DEF Kinds, ReqRep_Server
<1>2. CASE Server_listen(p) \/ Server_async_listen(p)
  BY <1>2, StartStep DEF Kinds, Server_listen, Server_async_listen
<1>3. CASE Server_shutdown(p)
  BY <1>3, ShutdownStep DEF Kinds, Server_shutdown
<1>4. CASE Server_destructor(p)
  BY <1>4, DestructorStep DEF Kinds, Forgetful, Server_destructor
<1>5. CASE Server_Implementation_destructor(p)
  BY <1>5, DestroysImplementationStep DEF Kinds, Server_Implementation_destructor
<1> QED BY <1>1, <1>2, <1>3, <1>4, <1>5 DEF Server

LEMMA SurveyorStep ==
  ASSUME IInv, terminated = "no", NEW p \in Objects, Surveyor(p)
  PROVE  IInv'
<1>1. CASE Survey_Surveyor(p)
  BY <1>1, ConstructStep DEF Kinds, Survey_Surveyor
<1>2. CASE Surveyor_broadcast(p) \/ Surveyor_async_broadcast(p)
  BY <1>2, StartStep DEF Kinds, Surveyor_broadcast, Surveyor_async_broadcast
<1>3. CASE Surveyor_shutdown(p)
  BY <1>3, ShutdownStep DEF Kinds, Surveyor_shutdown
<1>4. CASE Surveyor_destructor(p)
  BY <1>4, DestructorStep DEF Kinds, Forgetful, Surveyor_destructor
<1>5. CASE Surveyor_Implementation_destructor(p)
  BY <1>5, DestroysImplementationStep DEF Kinds, Surveyor_Implementation_destructor
<1> QED BY <1>1, <1>2, <1>3, <1>4, <1>5 DEF Surveyor

LEMMA ParticipantStep ==
  ASSUME IInv, terminated = "no", NEW p \in Objects, Participant(p)
  PROVE  IInv'
<1>1. CASE Survey_Participant(p)
  BY <1>1, ConstructStep DEF Kinds, Survey_Participant
<1>2. CASE Participant_listen(p) \/ Participant_async_listen(p)
  BY <1>2, StartStep DEF Kinds, Participant_listen, Participant_async_listen
<1>3. CASE Participant_shutdown(p)
  BY <1>3, ShutdownStep DEF Kinds, Participant_shutdown
<1>4. CASE Participant_destructor(p)
  BY <1>4, DestructorStep DEF Kinds, Forgetful, Participant_destructor
<1>5. CASE Participant_Implementation_destructor(p)
  BY <1>5, DestroysImplementationStep DEF Kinds, Participant_Implementation_destructor
<1> QED BY <1>1, <1>2, <1>3, <1>4, <1>5 DEF Participant

LEMMA Inductive == IInv /\ [Next]_vars => IInv'
<1> SUFFICES ASSUME IInv, [Next]_vars PROVE IInv'
  OBVIOUS
<1>1. CASE UNCHANGED vars
  <2> USE <1>1 DEF vars, members, history
  <2>1. TypeOK' /\ Quiet' /\ ThreadIsJoinable' /\ OwnedOrLeaked'
    BY DEF IInv, TypeOK, Quiet, ThreadIsJoinable, OwnedOrLeaked
  <2>2. Forgotten' /\ KeepsToItself' /\ FailureIsContained'
    BY DEF IInv, Forgotten, Kept, KeepsToItself, FailureIsContained
  <2> QED BY <2>1, <2>2 DEF IInv
<1>2. CASE Next
  <2>1. PICK p \in Objects :
          \/ Publisher(p) \/ Subscriber(p) \/ Client(p) \/ Server(p)
          \/ Surveyor(p) \/ Participant(p)
          \/ Loop(p)
    BY <1>2 DEF Next
  <2>2. CASE Loop(p)
    BY <2>2, ReturnsStep, FreesNullStep, TestStep DEF Loop
  <2> QED BY <1>2, <2>1, <2>2, PublisherStep, SubscriberStep, ClientStep, ServerStep,
          SurveyorStep, ParticipantStep DEF Next
<1> QED BY <1>1, <1>2

THEOREM Invariance == Spec => []IInv
<1>1. Init => IInv
  BY Initially
<1>2. IInv /\ [Next]_vars => IInv'
  BY Inductive
<1> QED BY <1>1, <1>2, PTL DEF Spec

\* The types, and that no loop outlives its object but for the end of the
\* process (the destructors of std::thread in Publisher.cpp and its five peers).
THEOREM TypeCorrect == Spec => []TypeOK
<1>1. IInv => TypeOK
  BY DEF IInv
<1> QED BY <1>1, Invariance, PTL

\* No object holds, or waits on, a descriptor of another, in any history of
\* constructions, calls, shutdowns and destructions in which no constructor gets
\* a number between its two closes (Publisher.cpp:130 and 78): all that shutdown()
\* puts at risk is descriptor 0 (Publisher.cpp:171).
THEOREM KeepsToItselfHolds == Spec => []KeepsToItself
<1>1. IInv => KeepsToItself
  BY DEF IInv
<1> QED BY <1>1, Invariance, PTL

\* The destructors give back the descriptor, after shutdown() or without it, but
\* for descriptor 0 of a Subscriber (Subscriber.cpp:108) or a Server.
THEOREM ReleasedWhenDestroyedHolds == Spec => []ReleasedWhenDestroyed
<1>1. IInv => ReleasedWhenDestroyed
  BY DEF IInv, OwnedOrLeaked, ReleasedWhenDestroyed
<1> QED BY <1>1, Invariance, PTL

\* The four loops that test the result of nn_recv before they use the buffer
\* (Server.cpp:90, Participant.cpp:104, Surveyor.cpp:120, and Publisher.cpp, which
\* receives nothing) hand over nothing for a message.
THEOREM FailureIsContainedHolds == Spec => []FailureIsContained
<1>1. IInv => FailureIsContained
  BY DEF IInv
<1> QED BY <1>1, Invariance, PTL

-----------------------------------------------------------------------------
(* Progress.  As no prover here expands ENABLED, the theorem below names    *)
(* the condition under which the guards of the fair action let it happen,   *)
(* and asks that it then be enabled; TLC, which evaluates ENABLED, checks   *)
(* the same property without.                                               *)

\* Where the loop of p can go on by itself.
LoopReady(p) ==
  /\ terminated = "no"
  /\ \/ loop[p] \in {"nn_send", "nn_recv"} /\ using[p] = Bad
     \/ loop[p] \in {"null", "test"}

ListenersGoOn ==
  \A p \in Objects :
    [](kind[p] \in Forgetful /\ LoopReady(p) => ENABLED <<Prompt(p)>>_vars)

\* shutdown() of the two listeners clears running, and nothing sets it again.
NotRunning == \A p \in Objects : (down[p] /\ kind[p] \in Forgetful) => ~running[p]

PInv == IInv /\ NotRunning

LEMMA NotRunningInit == Init => NotRunning
BY DEF Init, NotRunning

\* What a step is, whichever kind of pattern takes it.
LEMMA StepsByShape ==
  ASSUME [Next]_vars
  PROVE  \/ UNCHANGED vars
         \/ /\ terminated = "no"
            /\ \E p \in Objects :
                 \/ \E k \in Kinds :
                      \/ Constructs(p, k) \/ Calls(p, k) \/ Launches(p, k)
                      \/ Destroys(p, k) /\ (ClosesAnything(p) \/ Forgets(p))
                      \/ DestroysImplementation(p, k)
                      \/ \E run \in BOOLEAN :
                           /\ ShutsDown(p, k, run) /\ (Closes(p) \/ KeepsOpen)
                           /\ k \in Forgetful => ~run
                 \/ Loop(p)
<1>1. CASE UNCHANGED vars
  BY <1>1
<1>2. CASE Next
  <2>1. terminated = "no"
    BY <1>2 DEF Next
  <2>2. PICK p \in Objects :
          \/ Publisher(p) \/ Subscriber(p) \/ Client(p) \/ Server(p)
          \/ Surveyor(p) \/ Participant(p) \/ Loop(p)
    BY <1>2 DEF Next
  <2>3. CASE Loop(p)
    BY <2>1, <2>3
  <2>4. CASE Publisher(p)
    BY <2>1, <2>4 DEF Publisher, PubSub_Publisher, Publisher_broadcast,
       Publisher_async_broadcast, Publisher_shutdown, Publisher_destructor,
       Publisher_Implementation_destructor, Kinds, Forgetful
  <2>5. CASE Subscriber(p)
    BY <2>1, <2>5 DEF Subscriber, PubSub_Subscriber, Subscriber_listen,
       Subscriber_async_listen, Subscriber_shutdown, Subscriber_destructor,
       Subscriber_Implementation_destructor, Kinds, Forgetful
  <2>6. CASE Client(p)
    BY <2>1, <2>6 DEF Client, ReqRep_Client, Client_broadcast, Client_async_broadcast,
       Client_shutdown, Client_destructor, Client_Implementation_destructor, Kinds, Forgetful
  <2>7. CASE Server(p)
    BY <2>1, <2>7 DEF Server, ReqRep_Server, Server_listen, Server_async_listen,
       Server_shutdown, Server_destructor, Server_Implementation_destructor, Kinds, Forgetful
  <2>8. CASE Surveyor(p)
    BY <2>1, <2>8 DEF Surveyor, Survey_Surveyor, Surveyor_broadcast,
       Surveyor_async_broadcast, Surveyor_shutdown, Surveyor_destructor,
       Surveyor_Implementation_destructor, Kinds, Forgetful
  <2>9. CASE Participant(p)
    BY <2>1, <2>9 DEF Participant, Survey_Participant, Participant_listen,
       Participant_async_listen, Participant_shutdown, Participant_destructor,
       Participant_Implementation_destructor, Kinds, Forgetful
  <2> QED BY <2>2, <2>3, <2>4, <2>5, <2>6, <2>7, <2>8, <2>9
<1> QED BY <1>1, <1>2

LEMMA NotRunningStep == IInv /\ NotRunning /\ [Next]_vars => NotRunning'
<1> SUFFICES ASSUME IInv, NotRunning, [Next]_vars PROVE NotRunning'
  OBVIOUS
<1>0. TypeOK
  BY DEF IInv
<1>1. CASE UNCHANGED vars
  BY <1>1 DEF NotRunning, vars, members
<1>2. ASSUME NEW p \in Objects, NEW k \in Kinds, Constructs(p, k) \/ Calls(p, k)
      PROVE  NotRunning'
  BY <1>0, <1>2 DEF Constructs, Calls, NotRunning, TypeOK
<1>3. ASSUME NEW p \in Objects, NEW k \in Kinds, Launches(p, k) PROVE NotRunning'
  BY <1>0, <1>3 DEF Launches, MayStart, NotRunning, TypeOK
<1>4. ASSUME NEW p \in Objects, NEW k \in Kinds, NEW run \in BOOLEAN,
             ShutsDown(p, k, run), k \in Forgetful => ~run
      PROVE  NotRunning'
  BY <1>0, <1>4 DEF ShutsDown, NotRunning, TypeOK
<1>5. ASSUME UNCHANGED <<down, kind, running>> PROVE NotRunning'
  BY <1>5 DEF NotRunning
<1>6. ASSUME NEW p \in Objects, NEW k \in Kinds, Destroys(p, k) \/ DestroysImplementation(p, k)
      PROVE  NotRunning'
  BY <1>5, <1>6 DEF Destroys, DestroysImplementation
<1>7. ASSUME NEW p \in Objects, Loop(p) PROVE NotRunning'
  BY <1>5, <1>7 DEF Loop, Returns, FreesNull, Test
<1> QED BY <1>1, <1>2, <1>3, <1>4, <1>6, <1>7, StepsByShape

LEMMA Progress == Spec => []PInv
<1>1. Init => PInv
  BY Initially, NotRunningInit DEF PInv
<1>2. PInv /\ [Next]_vars => PInv'
  BY Inductive, NotRunningStep DEF PInv
<1> QED BY <1>1, <1>2, PTL DEF Spec

\* A loop that was told to stop and has not yet.
Ending(p) ==
  kind[p] \in Forgetful /\ down[p] /\ caller[p] # "none" /\ terminated = "no"

Over(p) == caller[p] = "none" \/ ~down[p] \/ terminated # "no"

\* Steps of others leave the loop where it is, and can only wake it.
Rests(p) == loop'[p] = loop[p] /\ (using[p] = Bad => using'[p] = Bad)

LEMMA OthersWake ==
  ASSUME PInv, NEW p \in Objects, Ending(p), [Next]_vars
  PROVE  Over(p)' \/ (Ending(p)' /\ (Rests(p) \/ Loop(p)))
<1> SUFFICES ASSUME ~Over(p)' PROVE Ending(p)' /\ (Rests(p) \/ Loop(p))
  OBVIOUS
<1>0. IInv /\ TypeOK
  BY DEF PInv, IInv
<1>1. kind' = kind
  <2>1. CASE UNCHANGED vars
    BY <2>1 DEF vars
  <2>2. ASSUME NEW q \in Objects, Loop(q) PROVE kind' = kind
    BY <2>2 DEF Loop, Returns, FreesNull, Test
  <2>3. ASSUME NEW q \in Objects, NEW k \in Kinds,
               \/ Constructs(q, k) \/ Calls(q, k) \/ Launches(q, k)
               \/ Destroys(q, k) \/ DestroysImplementation(q, k)
        PROVE  kind' = kind
    BY <2>3 DEF Constructs, Calls, Launches, Destroys, DestroysImplementation
  <2>4. ASSUME NEW q \in Objects, NEW k \in Kinds, NEW run \in BOOLEAN, ShutsDown(q, k, run)
        PROVE  kind' = kind
    BY <2>4 DEF ShutsDown
  <2> QED BY <2>1, <2>2, <2>3, <2>4, StepsByShape
<1>2. Ending(p)'
  BY <1>1 DEF Over, Ending
<1>3. CASE UNCHANGED vars
  BY <1>2, <1>3 DEF Rests, vars, members
<1>4. ASSUME NEW q \in Objects, NEW k \in Kinds, Constructs(q, k) PROVE Rests(p)
  BY <1>4 DEF Constructs, Rests
<1>5. ASSUME NEW q \in Objects, NEW k \in Kinds, Calls(q, k) \/ Launches(q, k) PROVE Rests(p)
  <2>1. q # p
    BY <1>5 DEF Calls, Launches, MayStart, Ending
  <2>2. First(k) \in {"none", "nn_send", "nn_recv", "null", "test"} /\ GoTo(q, First(k))
    BY <1>5 DEF Calls, Launches, First
  <2> QED BY <1>0, <2>1, <2>2, GoToEffect DEF Rests
<1>6. ASSUME NEW q \in Objects, loop' = loop,
             \/ nn_close(socket[q])
             \/ UNCHANGED using
      PROVE  Rests(p)
  <2>1. CASE nn_close(socket[q])
    <3>1. socket[q] \in Descriptors \cup {Bad}
      BY <1>0 DEF TypeOK
    <3> QED BY <1>0, <1>6, <2>1, <3>1, CloseEffect DEF Rests
  <2>2. CASE UNCHANGED using
    BY <1>6, <2>2 DEF Rests
  <2> QED BY <1>6, <2>1, <2>2
<1>7. ASSUME NEW q \in Objects, NEW k \in Kinds,
             \/ Destroys(q, k) /\ (ClosesAnything(q) \/ Forgets(q))
             \/ DestroysImplementation(q, k)
      PROVE  Rests(p)
  BY <1>6, <1>7 DEF Destroys, ClosesAnything, Forgets, DestroysImplementation
<1>8. ASSUME NEW q \in Objects, NEW k \in Kinds, NEW run \in BOOLEAN,
             ShutsDown(q, k, run), Closes(q) \/ KeepsOpen
      PROVE  Rests(p)
  BY <1>6, <1>8 DEF ShutsDown, Closes, KeepsOpen
<1>9. ASSUME NEW q \in Objects, Loop(q), q # p PROVE Rests(p)
  <2>1. CASE UNCHANGED <<loop, using>>
    BY <2>1 DEF Rests
  <2>2. ASSUME NEW where \in {"none", "nn_send", "nn_recv", "null", "test"}, GoTo(q, where)
        PROVE  Rests(p)
    BY <1>0, <1>9, <2>2, GoToEffect DEF Rests
  <2>3. ASSUME NEW outcome, Returns(q, outcome)
        PROVE  GoTo(q, After(kind[q], loop[q], outcome))
                 /\ After(kind[q], loop[q], outcome) \in {"nn_send", "nn_recv", "null", "test"}
    <3>1. kind[q] \in Kinds /\ loop[q] \in {"nn_send", "nn_recv", "null", "test"}
      BY <1>0, <2>3 DEF Returns, TypeOK
    <3> QED BY <2>3, <3>1, AfterIsALocation DEF Returns
  <2>4. First(kind[q]) \in {"nn_send", "nn_recv"}
    BY DEF First
  <2> QED BY <1>9, <2>1, <2>2, <2>3, <2>4 DEF Loop, FreesNull, Test
<1> QED BY <1>2, <1>3, <1>4, <1>5, <1>7, <1>8, <1>9, StepsByShape

\* The loop's own steps lead out of it.
LEMMA OwnSteps ==
  ASSUME PInv, NEW p \in Objects, Ending(p), Loop(p)
  PROVE  \/ Over(p)'
         \/ /\ loop[p] = "nn_recv" /\ using[p] # Bad
            /\ loop'[p] \in {"nn_send", "null", "test"}
         \/ /\ loop[p] = "nn_recv" \/ loop[p] = "nn_send"
            /\ loop'[p] \in {"null", "test"}
         \/ loop[p] = "null" /\ loop'[p] = "test"
<1>0. TypeOK /\ ~running[p] /\ kind[p] \in {"Subscriber", "Server"}
  BY DEF PInv, IInv, NotRunning, Ending, Forgetful
<1>1. ASSUME NEW outcome, Returns(p, outcome)
      PROVE  \/ /\ loop[p] = "nn_recv" /\ using[p] # Bad
                /\ loop'[p] \in {"nn_send", "null", "test"}
             \/ /\ loop[p] = "nn_recv" \/ loop[p] = "nn_send"
                /\ loop'[p] \in {"null", "test"}
  <2>1. /\ loop[p] \in {"nn_send", "nn_recv"}
        /\ loop'[p] = After(kind[p], loop[p], outcome)
        /\ outcome \in OutcomesOn(using[p])
    BY <1>0, <1>1 DEF Returns, GoTo, TypeOK
  <2>2. using[p] = Bad => outcome = "failed"
    BY <2>1, PatternsAssumption DEF OutcomesOn, IsOpen, Bad
  <2>3. After(kind[p], loop[p], outcome) =
          IF kind[p] = "Subscriber" THEN Subscriber_loop(loop[p], outcome)
          ELSE Server_loop(loop[p], outcome)
    BY <1>0 DEF After
  <2> QED BY <1>0, <2>1, <2>2, <2>3 DEF Subscriber_loop, Server_loop
<1>2. CASE FreesNull(p)
  BY <1>0, <1>2 DEF FreesNull, GoTo, TypeOK, Over
<1>3. CASE Test(p)
  BY <1>0, <1>3 DEF Test, TypeOK, Over
<1> QED BY <1>1, <1>2, <1>3 DEF Loop

\* Subscriber.cpp:167 and Server.cpp:164: shutdown() ends the thread of the two
\* patterns that clear running, whatever the other objects do and close, if it
\* does not wait for ever in a call on an open descriptor.
THEOREM ListenersStopHolds == FairSpec /\ ListenersGoOn => ListenersStop
<1> SUFFICES ASSUME NEW p \in Objects
             PROVE  FairSpec /\ ListenersGoOn =>
                      ((p \in alive /\ down[p] /\ kind[p] \in Forgetful)
                         ~> (caller[p] = "none" \/ ~down[p] \/ terminated # "no" \/ []Waits(p)))
  BY DEF ListenersStop
<1> DEFINE Told == p \in alive /\ down[p] /\ kind[p] \in Forgetful
           Done == Over(p)
           Waiting == Waits(p)
           Receiving == Ending(p) /\ loop[p] = "nn_recv"
           Sending == Ending(p) /\ loop[p] = "nn_send"
           Handling == Ending(p) /\ loop[p] = "null"
           Testing == Ending(p) /\ loop[p] = "test"
<1>1. PInv /\ Told => Receiving \/ Sending \/ Handling \/ Testing \/ Done
  BY DEF PInv, IInv, TypeOK, Ending, Over
<1>2. /\ PInv /\ Receiving /\ Waiting /\ [Next]_vars =>
           Receiving' \/ Sending' \/ Handling' \/ Testing' \/ Done'
      /\ PInv /\ Receiving /\ ~Waiting /\ [Next]_vars =>
           (Receiving' /\ ~Waiting') \/ Handling' \/ Testing' \/ Done'
      /\ PInv /\ Sending /\ [Next]_vars =>
           (Sending' /\ (~Waiting => ~Waiting')) \/ Handling' \/ Testing' \/ Done'
      /\ PInv /\ Handling /\ [Next]_vars => Handling' \/ Testing' \/ Done'
      /\ PInv /\ Testing /\ [Next]_vars => Testing' \/ Done'
  <2> SUFFICES ASSUME PInv, Ending(p), [Next]_vars, ~Done'
               PROVE  /\ Receiving /\ Waiting => Receiving' \/ Sending' \/ Handling' \/ Testing'
                      /\ Receiving /\ ~Waiting =>
                           (Receiving' /\ ~Waiting') \/ Handling' \/ Testing'
                      /\ Sending => (Sending' /\ (~Waiting => ~Waiting')) \/ Handling' \/ Testing'
                      /\ Handling => Handling' \/ Testing'
                      /\ Testing => Testing'
    OBVIOUS
  <2>1. Ending(p)'
    BY OthersWake
  <2>2. CASE Rests(p)
    BY <2>1, <2>2 DEF Rests, Waits
  <2>3. CASE Loop(p)
    BY <2>1, <2>3, OwnSteps DEF Waits
  <2> QED BY <2>2, <2>3, OthersWake
<1>3. /\ PInv /\ Receiving /\ ~Waiting /\ <<Prompt(p)>>_vars => ~Receiving'
      /\ PInv /\ Sending /\ ~Waiting /\ <<Prompt(p)>>_vars => ~Sending'
      /\ PInv /\ Handling /\ <<Prompt(p)>>_vars => ~Handling'
      /\ PInv /\ Testing /\ <<Prompt(p)>>_vars => ~Testing'
  <2> SUFFICES ASSUME PInv, Ending(p), Prompt(p), Ending(p)'
               PROVE  loop'[p] # loop[p]
    OBVIOUS
  <2>1. Loop(p)
    BY DEF Prompt, Loop
  <2>2. ~Over(p)'
    BY DEF Ending, Over
  <2>3. CASE loop[p] = "test"
    <3>1. Test(p) /\ ~running[p] /\ TypeOK
      BY <2>3 DEF Prompt, Returns, FreesNull, PInv, IInv, NotRunning, Ending
    <3> QED BY <2>2, <3>1 DEF Test, TypeOK, Over
  <2> QED BY <2>1, <2>2, <2>3, OwnSteps
<1>4. /\ (Receiving \/ Sending) /\ ~Waiting => kind[p] \in Forgetful /\ LoopReady(p)
      /\ Handling \/ Testing => kind[p] \in Forgetful /\ LoopReady(p)
  BY DEF LoopReady, Waits, Ending
<1>5. FairSpec => Spec /\ LoopGoesOn(p)
  BY DEF FairSpec
<1>6. ListenersGoOn =>
        [](kind[p] \in Forgetful /\ LoopReady(p) => ENABLED <<Prompt(p)>>_vars)
  BY DEF ListenersGoOn
<1>7. Done => caller[p] = "none" \/ ~down[p] \/ terminated # "no"
  BY DEF Over
<1> HIDE DEF Told, Done, Waiting, Receiving, Sending, Handling, Testing
<1>8. FairSpec /\ ListenersGoOn => (Told ~> (Done \/ []Waiting))
  BY <1>1, <1>2, <1>3, <1>4, <1>5, <1>6, Progress, PTL DEF Spec, LoopGoesOn
<1> QED BY <1>7, <1>8, PTL DEF Told, Waiting
=============================================================================

