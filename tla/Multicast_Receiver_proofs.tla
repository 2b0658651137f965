---------------------- MODULE Multicast_Receiver_proofs ----------------------
(***************************************************************************)
(* The receiver implements its abstract intake, for every set of           *)
(* datagrams, every size of the buffer, cut datagrams that are errors or   *)
(* not, and setups and receives that fail.                                 *)
(*                                                                         *)
(* Why the buffer is safe to read in place: an operation is started only   *)
(* by the first call or by the end of a handler, so that with a thread     *)
(* there is never more than one, in flight, completed or in its handler    *)
(* (OneOperation).  A receiver that was stopped may be started again and   *)
(* have more, but then no handler ever runs.                               *)
(*                                                                         *)
(* Why it never goes deaf: the operation that the handler starts before it *)
(* returns is there as long as the context runs, so a datagram in the      *)
(* socket completes one, and the handler of that starts the next.          *)
(***************************************************************************)
EXTENDS Multicast_Receiver, Protocol_proofs

\* The receive operations that are in flight, completed or in their handler.
Operations == outstanding + Len(completed) + (IF runner = "callback" THEN 1 ELSE 0)

\* The front of the stream is the n-th datagram, as far as the stream goes.
IsFront(stream, n) ==
  LET wire == Wire(arrived[n])
  IN \A i \in 1..Least(Len(wire), Len(stream)) : stream[i] = wire[i]

OperationsAreCounted == Operations <= receives

\* The buffer is large enough as long as somebody may read it or write to it.
LongEnough == Operations > 0 => Len(buffer) >= Minimum

HandlesADatagram == runner = "callback" => handling > 0

FinishedAfterStop == runner \in {"finished", "joined"} => stopped

\* The last datagram taken is what the buffer begins with, if any handler is
\* still to read it.
FrontIsLatest ==
  (runner = "callback" \/ \E i \in 1..Len(completed) : completed[i] # 0) =>
    taken > 0 /\ IsFront(buffer, taken)

\* Each call was given a front of a datagram that had been taken by then.
CallsAreFronts ==
  \A i \in 1..Len(calls) :
    /\ Len(calls[i].stream) >= Minimum
    /\ \E n \in 1..taken : IsFront(calls[i].stream, n)

Heeds == runner = "callback" \/ ~stopped

\* With a background thread.
OneOperation     == Heeds => Operations <= 1
IdleBeforeStart  == runner = "none" => Operations = 0 /\ taken = 0 /\ calls = <<>>
CallsInOrder     ==
  \A i \in 1..Len(calls) : calls[i].source = i /\ IsFront(calls[i].stream, i)
NextInHand ==
  /\ runner = "callback" => handling = taken /\ taken = Len(calls) + 1
  /\ (~stopped /\ completed # <<>> /\ completed[1] # 0) =>
       completed[1] = taken /\ taken = Len(calls) + 1
  /\ (~stopped /\ outstanding > 0) => taken = Len(calls)

Background ==
  ~blocking =>
    /\ OneOperation
    /\ IdleBeforeStart
    /\ CallsInOrder
    /\ NextInHand

IInv ==
  /\ TypeOK
  /\ OperationsAreCounted
  /\ LongEnough
  /\ HandlesADatagram
  /\ FinishedAfterStop
  /\ FrontIsLatest
  /\ CallsAreFronts
  /\ Background

-----------------------------------------------------------------------------
(* What the steps have in common.                                          *)

LEMMA Counting ==
  ASSUME TypeOK
  PROVE  /\ outstanding \in Nat /\ Len(completed) \in Nat /\ Operations \in Nat
         /\ receives \in Nat /\ taken \in Nat /\ Len(buffer) \in Nat
         /\ Minimum \in Nat /\ Minimum > 0 /\ Len(calls) \in Nat
         /\ (runner = "callback" \/ outstanding > 0 \/ completed # <<>>) => Operations > 0
<1>1. /\ outstanding \in 0..MaxReceives /\ receives \in 0..MaxReceives
      /\ completed \in Seq(0..taken) /\ buffer \in Seq(Int)
      /\ calls \in Seq([source : 1..taken, stream : Seq(Int)])
      /\ arrived \in Seq(Datagrams) /\ taken \in 0..Len(arrived)
      /\ MaxReceives \in Nat /\ Minimum \in Nat \ {0}
  BY ReceiverAssumption DEF TypeOK
<1>2. /\ Len(completed) \in Nat /\ Len(buffer) \in Nat /\ Len(calls) \in Nat
      /\ Len(arrived) \in Nat
  BY <1>1, LenProperties
<1>3. completed # <<>> => Len(completed) > 0
  BY <1>1, EmptySeq
<1> QED BY <1>1, <1>2, <1>3 DEF Operations

\* Steps that touch no datagram, no operation and no handler.
LEMMA OnlyTheThread ==
  ASSUME IInv,
         UNCHANGED <<setup, arrived, taken, buffer, outstanding, completed,
                     handling, calls, receives>>,
         runner' \in {"none", "running", "callback", "finished", "joined"},
         stopped' \in BOOLEAN, stopped => stopped', alive' \in BOOLEAN,
         runner' = "callback" <=> runner = "callback",
         runner' = "none" => blocking \/ runner = "none",
         runner' \in {"finished", "joined"} => stopped'
  PROVE  IInv'
<1>1. Operations' = Operations
  BY DEF Operations
<1>2. TypeOK'
  BY DEF IInv, TypeOK, setup
<1>3. OperationsAreCounted' /\ LongEnough' /\ HandlesADatagram' /\ FinishedAfterStop'
  BY <1>1 DEF IInv, OperationsAreCounted, LongEnough, HandlesADatagram, FinishedAfterStop
<1>4. FrontIsLatest' /\ CallsAreFronts'
  BY DEF IInv, FrontIsLatest, CallsAreFronts, IsFront
<1>5. Background'
  BY <1>1 DEF IInv, Background, OneOperation, Heeds, IdleBeforeStart,
     CallsInOrder, NextInHand, IsFront, setup
<1> QED BY <1>2, <1>3, <1>4, <1>5 DEF IInv

LEMMA WholeSubSeq ==
  ASSUME NEW s \in Seq(Int)
  PROVE  SubSeq(s, 1, Len(s)) = s
<1> DEFINE u == SubSeq(s, 1, Len(s))
<1>1. Len(s) \in Nat /\ \A i \in 1..Len(s) : s[i] \in Int
  BY LenProperties, ElementOfSeq
<1>2. u \in Seq(Int) /\ Len(u) = Len(s) /\ \A i \in 1..Len(s) : u[i] = s[i]
  BY <1>1, SubSeqProperties
<1> HIDE DEF u
<1>3. u = s
  BY <1>2, SeqEqual
<1> QED BY <1>3 DEF u

\* A sequence is its front and what follows.
LEMMA FrontAndRest ==
  ASSUME NEW s \in Seq(Int), NEW stream \in Seq(Int), Len(s) <= Len(stream),
         \A i \in 1..Len(stream) : i <= Len(s) => stream[i] = s[i]
  PROVE  \E tail \in Seq(Int) : stream = s \o tail
<1> DEFINE n == Len(stream) - Len(s)
           tail == [i \in 1..n |-> stream[Len(s) + i]]
<1>1. Len(s) \in Nat /\ Len(stream) \in Nat /\ n \in Nat
  BY LenProperties
<1>2. \A i \in 1..n : stream[Len(s) + i] \in Int
  <2> TAKE i \in 1..n
  <2>1. Len(s) + i \in 1..Len(stream)
    BY <1>1
  <2> QED BY <2>1, ElementOfSeq
<1>3. /\ tail \in Seq(Int) /\ Len(tail) = n
      /\ \A i \in 1..n : tail[i] = stream[Len(s) + i]
  BY <1>1, <1>2
<1> HIDE DEF tail
<1>4. /\ s \o tail \in Seq(Int) /\ Len(s \o tail) = Len(s) + n
      /\ \A i \in 1..Len(s) + n :
           (s \o tail)[i] = IF i <= Len(s) THEN s[i] ELSE tail[i - Len(s)]
  BY <1>3, ConcatProperties
<1>5. ASSUME NEW i \in 1..Len(stream) PROVE stream[i] = (s \o tail)[i]
  <2>1. CASE i <= Len(s)
    <3>1. i \in 1..Len(s) + n
      BY <1>1
    <3> QED BY <1>4, <2>1, <3>1
  <2>2. CASE ~(i <= Len(s))
    <3>1. i \in 1..Len(s) + n /\ i - Len(s) \in 1..n /\ Len(s) + (i - Len(s)) = i
      BY <1>1, <2>2
    <3>2. tail[i - Len(s)] = stream[i]
      BY <1>3, <3>1
    <3> QED BY <1>4, <2>2, <3>1, <3>2
  <2> QED BY <2>1, <2>2
<1>6. Len(stream) = Len(s \o tail)
  BY <1>1, <1>4
<1>7. stream = s \o tail
  BY <1>4, <1>5, <1>6, SeqEqual
<1> QED BY <1>3, <1>7

LEMMA WireIsCells ==
  ASSUME NEW d \in Datagrams
  PROVE  /\ Serialize(d.class, d.head) \in Seq(Int) /\ d.tail \in Seq(Int)
         /\ Wire(d) \in Seq(Int)
<1>1. d.class \in MessageClasses /\ d.head \in Message /\ d.tail \in Seq(Int)
  BY ReceiverAssumption
<1>2. Serialize(d.class, d.head) \in Seq(Int)
  BY <1>1, SerializeIsCells
<1> QED BY <1>1, <1>2, ConcatProperties DEF Wire

-----------------------------------------------------------------------------

LEMMA InitHolds == Init => IInv
<1> SUFFICES ASSUME Init PROVE IInv
  OBVIOUS
<1>1. /\ <<>> \in Seq(Datagrams) /\ <<>> \in Seq(Int) /\ <<>> \in Seq(0..0)
      /\ <<>> \in Seq([source : 1..0, stream : Seq(Int)]) /\ Len(<<>>) = 0
  OBVIOUS
<1>2. socket \in {"closed", "bound", "member"} /\ system_status \in Error
  BY DEF Init, multicast_setup, Error, Success, PFC_NONE, PFC_IP_PARSE_ERROR
<1>3. TypeOK
  <2>1. /\ blocking \in BOOLEAN /\ stopped \in BOOLEAN /\ alive \in BOOLEAN
        /\ runner \in {"none", "running", "callback", "finished", "joined"}
    BY DEF Init
  <2>2. /\ outstanding \in 0..MaxReceives /\ receives \in 0..MaxReceives
        /\ taken \in 0..Len(arrived) /\ handling \in 0..taken
    BY <1>1, ReceiverAssumption DEF Init
  <2>3. /\ arrived \in Seq(Datagrams) /\ buffer \in Seq(Int)
        /\ completed \in Seq(0..taken)
        /\ calls \in Seq([source : 1..taken, stream : Seq(Int)])
    BY <1>1 DEF Init
  <2> QED BY <1>2, <2>1, <2>2, <2>3 DEF TypeOK
<1>4. Operations = 0
  BY <1>1 DEF Init, Operations
<1> QED BY <1>1, <1>3, <1>4
    DEF Init, IInv, OperationsAreCounted, LongEnough, HandlesADatagram,
        FinishedAfterStop, FrontIsLatest, CallsAreFronts, Background, OneOperation, IdleBeforeStart, CallsInOrder, NextInHand, Heeds

LEMMA LengthStep ==
  ASSUME IInv, NEW length \in Lengths, buffer_legth(length), UNCHANGED setup
  PROVE  IInv'
<1>1. buffer' \in Seq(Int)
  <2>1. length \in Nat /\ buffer \in Seq(Int)
    BY ReceiverAssumption DEF IInv, TypeOK
  <2>2. \A i \in 1..length : (IF i <= Len(buffer) THEN buffer[i] ELSE 0) \in Int
    BY <2>1
  <2> QED BY <2>1, <2>2 DEF buffer_legth
<1>2. Operations = 0 /\ Operations' = 0
  BY DEF buffer_legth, Operations
<1>3. TypeOK'
  BY <1>1 DEF IInv, TypeOK, buffer_legth, setup
<1>4. OperationsAreCounted' /\ LongEnough' /\ HandlesADatagram' /\ FinishedAfterStop'
  BY <1>2 DEF IInv, OperationsAreCounted, LongEnough, HandlesADatagram, FinishedAfterStop, buffer_legth
<1>5. FrontIsLatest' /\ CallsAreFronts'
  BY DEF IInv, FrontIsLatest, CallsAreFronts, IsFront, buffer_legth
<1>6. Background'
  BY <1>2 DEF IInv, Background, OneOperation, Heeds, IdleBeforeStart,
     CallsInOrder, NextInHand, IsFront, setup, buffer_legth
<1> QED BY <1>3, <1>4, <1>5, <1>6 DEF IInv

\* A receive that starts inflates the buffer only if nobody is using it.
LEMMA Inflates ==
  ASSUME IInv, multicast_receive
  PROVE  /\ buffer' \in Seq(Int) /\ Len(buffer') >= Minimum
         /\ Operations > 0 => buffer' = buffer
<1>1. buffer \in Seq(Int) /\ Len(buffer) \in Nat /\ Minimum \in Nat
  BY Counting DEF IInv, TypeOK
<1>2. CASE Len(buffer) < Minimum
  <2> DEFINE z == Zeros(Minimum - Len(buffer))
  <2>1. z \in Seq(Int) /\ Len(z) = Minimum - Len(buffer)
    BY <1>1, <1>2 DEF Zeros
  <2>2. buffer' = buffer \o z
    BY <1>2 DEF multicast_receive
  <2> HIDE DEF z
  <2>3. buffer \o z \in Seq(Int) /\ Len(buffer \o z) = Len(buffer) + Len(z)
    BY <1>1, <2>1, ConcatProperties
  <2> QED BY <1>1, <1>2, <2>1, <2>2, <2>3 DEF IInv, LongEnough
<1>3. CASE ~(Len(buffer) < Minimum)
  BY <1>1, <1>3 DEF multicast_receive
<1> QED BY <1>2, <1>3

LEMMA StartStep ==
  ASSUME IInv, receive \/ async_receive, UNCHANGED setup
  PROVE  IInv'
<1>1. /\ runner # "callback" /\ runner' = "running" /\ receives < MaxReceives
      /\ multicast_receive /\ receives' = receives + 1
      /\ UNCHANGED <<arrived, taken, completed, stopped, handling, calls, alive>>
      /\ ~blocking => runner \in {"none", "joined"}
  BY DEF receive, async_receive
<1>2. /\ Operations \in Nat /\ Len(completed) \in Nat /\ outstanding \in Nat
      /\ receives \in Nat /\ MaxReceives \in Nat
      /\ completed # <<>> => Operations > 0
  BY Counting, ReceiverAssumption DEF IInv
<1>3. outstanding' = outstanding + 1 /\ Operations' = Operations + 1
  BY <1>1, <1>2 DEF Operations, multicast_receive
<1>4. /\ buffer' \in Seq(Int) /\ Len(buffer') >= Minimum
      /\ Operations > 0 => buffer' = buffer
  BY <1>1, Inflates
<1>5. OperationsAreCounted' /\ LongEnough' /\ HandlesADatagram' /\ FinishedAfterStop'
  BY <1>1, <1>2, <1>3, <1>4 DEF IInv, OperationsAreCounted, LongEnough, HandlesADatagram, FinishedAfterStop
<1>6. outstanding' \in 0..MaxReceives /\ receives' \in 0..MaxReceives
  BY <1>1, <1>2, <1>3 DEF IInv, OperationsAreCounted, Operations
<1>7. TypeOK'
  BY <1>1, <1>4, <1>6 DEF IInv, TypeOK, setup
<1>8. FrontIsLatest'
  <2>1. ASSUME NEW i \in 1..Len(completed), completed[i] # 0
        PROVE  Operations > 0
    BY <1>2, <2>1 DEF Operations
  <2> QED BY <1>1, <1>4, <2>1 DEF IInv, FrontIsLatest, IsFront
<1>9. CallsAreFronts'
  BY <1>1 DEF IInv, CallsAreFronts, IsFront
<1>10. Background'
  <2> SUFFICES ASSUME ~blocking PROVE Background'
    BY DEF Background, setup
  <2>1. Background /\ blocking' = blocking
    BY DEF IInv, setup
  <2>2. OneOperation'
    BY <1>1, <1>2, <1>3, <2>1
    DEF IInv, Background, OneOperation, Heeds, IdleBeforeStart, FinishedAfterStop
  <2>3. IdleBeforeStart'
    BY <1>1 DEF IdleBeforeStart
  <2>4. CallsInOrder'
    BY <1>1, <2>1 DEF Background, CallsInOrder, IsFront
  <2>5. NextInHand'
    <3>1. CASE stopped
      BY <1>1, <3>1 DEF NextInHand
    <3>2. CASE ~stopped
      <4>1. Operations = 0 /\ taken = 0 /\ calls = <<>>
        BY <1>1, <2>1, <3>2 DEF IInv, Background, IdleBeforeStart, FinishedAfterStop
      <4>2. completed = <<>> /\ Len(calls) = 0
        BY <1>2, <4>1
      <4> QED BY <1>1, <4>1, <4>2 DEF NextInHand
    <3> QED BY <3>1, <3>2
  <2> QED BY <2>2, <2>3, <2>4, <2>5 DEF Background
<1> QED BY <1>5, <1>7, <1>8, <1>9, <1>10 DEF IInv

LEMMA ArriveStep ==
  ASSUME IInv, NEW d \in Datagrams, Arrive(d), UNCHANGED setup
  PROVE  IInv'
<1>1. /\ arrived \in Seq(Datagrams) /\ taken \in 0..Len(arrived)
      /\ calls \in Seq([source : 1..taken, stream : Seq(Int)])
  BY DEF IInv, TypeOK
<1>2. /\ arrived' \in Seq(Datagrams) /\ Len(arrived') = Len(arrived) + 1
      /\ \A n \in 1..Len(arrived) : arrived'[n] = arrived[n]
  BY <1>1, AppendProperties DEF Arrive
<1>3. /\ UNCHANGED <<taken, buffer, outstanding, completed, stopped, runner, handling,
                     calls, receives, alive, blocking, socket, system_status>>
      /\ Len(arrived) \in Nat
  BY <1>1, LenProperties DEF Arrive, setup
<1>4. Operations' = Operations
  BY <1>3 DEF Operations
<1>5. TypeOK'
  BY <1>1, <1>2, <1>3 DEF IInv, TypeOK
<1>6. \A n \in 1..taken : arrived'[n] = arrived[n]
  BY <1>1, <1>2, <1>3
<1>7. OperationsAreCounted' /\ LongEnough' /\ HandlesADatagram' /\ FinishedAfterStop'
  BY <1>3, <1>4 DEF IInv, OperationsAreCounted, LongEnough, HandlesADatagram, FinishedAfterStop
<1>8. FrontIsLatest'
  <2> SUFFICES ASSUME runner = "callback" \/ \E i \in 1..Len(completed) : completed[i] # 0
               PROVE  taken > 0 /\ IsFront(buffer, taken)'
    BY <1>3 DEF FrontIsLatest
  <2>1. taken > 0 /\ IsFront(buffer, taken)
    BY DEF IInv, FrontIsLatest
  <2>2. arrived'[taken] = arrived[taken]
    BY <1>1, <1>6, <2>1
  <2> QED BY <1>3, <2>1, <2>2 DEF IsFront
<1>9. CallsAreFronts'
  BY <1>3, <1>6 DEF IInv, CallsAreFronts, IsFront
<1>10. ASSUME Background PROVE Background'
  <2> SUFFICES ASSUME ~blocking PROVE Background'
    BY <1>3 DEF Background
  <2>1. OneOperation' /\ IdleBeforeStart' /\ NextInHand'
    BY <1>3, <1>4, <1>10
    DEF Background, OneOperation, Heeds, IdleBeforeStart, NextInHand
  <2>2. CallsInOrder'
    <3> SUFFICES ASSUME NEW i \in 1..Len(calls)
                 PROVE  calls[i].source = i /\ IsFront(calls[i].stream, i)'
      BY <1>3 DEF CallsInOrder
    <3>1. calls[i].source = i /\ IsFront(calls[i].stream, i)
      BY <1>10 DEF Background, CallsInOrder
    <3>2. calls[i].source \in 1..taken
      <4>1. calls[i] \in [source : 1..taken, stream : Seq(Int)]
        BY <1>1, ElementOfSeq
      <4> QED BY <4>1
    <3> QED BY <1>3, <1>6, <3>1, <3>2 DEF IsFront
  <2> QED BY <2>1, <2>2 DEF Background
<1> QED BY <1>5, <1>7, <1>8, <1>9, <1>10 DEF IInv

LEMMA EmptyWhenNone ==
  ASSUME NEW S, NEW seq \in Seq(S)
  PROVE  seq = <<>> <=> Len(seq) = 0
BY EmptySeq

\* A completion appended to the queue, with an error or not.
LEMMA Completes ==
  ASSUME IInv, outstanding > 0, NEW result \in 0..taken',
         completed' = Append(completed, result), outstanding' = outstanding - 1,
         taken \in Nat, taken' \in Nat, taken <= taken',
         UNCHANGED runner
  PROVE  /\ completed' \in Seq(0..taken')
         /\ Len(completed') = Len(completed) + 1
         /\ \A i \in 1..Len(completed) : completed'[i] = completed[i]
         /\ completed'[Len(completed) + 1] = result
         /\ Operations' = Operations /\ Operations > 0
<1>1. completed \in Seq(0..taken')
  <2>1. completed \in Seq(0..taken) /\ 0..taken \subseteq 0..taken'
    BY DEF IInv, TypeOK
  <2> QED BY <2>1, SeqMonotonic
<1>2. outstanding \in Nat /\ Len(completed) \in Nat
  BY Counting DEF IInv
<1>3. /\ completed' \in Seq(0..taken')
      /\ Len(completed') = Len(completed) + 1
      /\ \A i \in 1..Len(completed) : completed'[i] = completed[i]
      /\ completed'[Len(completed) + 1] = result
  BY <1>1, AppendProperties
<1> QED BY <1>2, <1>3 DEF Operations

LEMMA FailsStep ==
  ASSUME IInv, ReceiveFails, UNCHANGED setup
  PROVE  IInv'
<1>1. /\ outstanding > 0 /\ outstanding' = outstanding - 1
      /\ completed' = Append(completed, 0)
      /\ UNCHANGED <<arrived, taken, buffer, stopped, runner, handling, calls, receives,
                     alive, blocking, socket, system_status>>
  BY DEF ReceiveFails, setup
<1>2. /\ outstanding \in Nat /\ Len(completed) \in Nat /\ taken \in Nat
      /\ Operations \in Nat
  BY Counting DEF IInv
<1>3. /\ completed' \in Seq(0..taken')
      /\ Len(completed') = Len(completed) + 1
      /\ \A i \in 1..Len(completed) : completed'[i] = completed[i]
      /\ completed'[Len(completed) + 1] = 0
      /\ Operations' = Operations /\ Operations > 0
  BY <1>1, <1>2, Completes
<1>4. TypeOK'
  <2>1. outstanding' \in 0..MaxReceives
    BY <1>1, <1>2, ReceiverAssumption DEF IInv, TypeOK
  <2> QED BY <1>1, <1>3, <2>1 DEF IInv, TypeOK
<1>5. OperationsAreCounted' /\ LongEnough' /\ HandlesADatagram' /\ FinishedAfterStop'
  BY <1>1, <1>3 DEF IInv, OperationsAreCounted, LongEnough, HandlesADatagram, FinishedAfterStop
<1>6. FrontIsLatest'
  <2> SUFFICES ASSUME (runner = "callback"
                        \/ \E i \in 1..Len(completed) : completed[i] # 0)'
               PROVE  taken > 0 /\ IsFront(buffer, taken)'
    BY <1>1 DEF FrontIsLatest
  <2>1. runner = "callback" \/ \E i \in 1..Len(completed) : completed[i] # 0
    <3> SUFFICES ASSUME NEW i \in 1..Len(completed'), completed'[i] # 0
                 PROVE  i \in 1..Len(completed) /\ completed[i] # 0
      BY <1>1
    <3> QED BY <1>2, <1>3
  <2>2. taken > 0 /\ IsFront(buffer, taken)
    BY <2>1 DEF IInv, FrontIsLatest
  <2> QED BY <1>1, <2>2 DEF IsFront
<1>7. CallsAreFronts'
  BY <1>1 DEF IInv, CallsAreFronts, IsFront
<1>8. ASSUME Background PROVE Background'
  <2> SUFFICES ASSUME ~blocking PROVE Background'
    BY <1>1 DEF Background
  <2>1. OneOperation' /\ IdleBeforeStart' /\ CallsInOrder'
    BY <1>1, <1>3, <1>8
    DEF Background, OneOperation, Heeds, IdleBeforeStart, CallsInOrder,
        IsFront
  <2>2. NextInHand'
    <3>1. CASE completed = <<>>
      BY <1>1, <1>2, <1>3, <1>8, <3>1 DEF Background, NextInHand
    <3>2. CASE completed # <<>>
      BY <1>1, <1>2, <1>3, <1>8, <3>2 DEF Background, NextInHand
    <3> QED BY <3>1, <3>2
  <2> QED BY <2>1, <2>2 DEF Background
<1> QED BY <1>4, <1>5, <1>6, <1>7, <1>8 DEF IInv

\* A completion with a datagram, or with the error of one that was cut.
LEMMA CompletesStep ==
  ASSUME IInv, ReceiveCompletes, UNCHANGED setup
  PROVE  IInv'
<1> DEFINE wire == Wire(arrived[taken + 1])
           result == IF TruncationIsError /\ Len(wire) > Len(buffer) THEN 0 ELSE taken + 1
<1>1. /\ outstanding > 0 /\ taken < Len(arrived) /\ taken' = taken + 1
      /\ outstanding' = outstanding - 1
      /\ completed' = Append(completed, result)
      /\ buffer' = [i \in 1..Len(buffer) |-> IF i <= Len(wire) THEN wire[i] ELSE buffer[i]]
      /\ UNCHANGED <<arrived, stopped, runner, handling, calls, receives,
                     alive, blocking, socket, system_status>>
  BY DEF ReceiveCompletes, setup
<1>2. /\ outstanding \in Nat /\ Len(completed) \in Nat /\ taken \in Nat
      /\ Operations \in Nat /\ Len(buffer) \in Nat /\ Len(calls) \in Nat
  BY Counting DEF IInv
<1>3. wire \in Seq(Int) /\ Len(wire) \in Nat
  <2>1. arrived[taken + 1] \in Datagrams
    BY <1>1, <1>2, ElementOfSeq DEF IInv, TypeOK
  <2> QED BY <2>1, WireIsCells, LenProperties
<1>4. result \in {0, taken + 1} /\ result \in 0..taken'
  BY <1>1, <1>2
<1> HIDE DEF result
<1>5. /\ completed' \in Seq(0..taken')
      /\ Len(completed') = Len(completed) + 1
      /\ \A i \in 1..Len(completed) : completed'[i] = completed[i]
      /\ completed'[Len(completed) + 1] = result
      /\ Operations' = Operations /\ Operations > 0
  BY <1>1, <1>2, <1>4, Completes
<1>6. /\ buffer' \in Seq(Int) /\ Len(buffer') = Len(buffer)
      /\ IsFront(buffer, taken)'
  <2>1. buffer \in Seq(Int)
    BY DEF IInv, TypeOK
  <2> HIDE DEF wire
  <2>2. \A i \in 1..Len(buffer) : (IF i <= Len(wire) THEN wire[i] ELSE buffer[i]) \in Int
    BY <1>2, <1>3, <2>1, ElementOfSeq
  <2>3. buffer' \in Seq(Int) /\ Len(buffer') = Len(buffer)
    BY <1>1, <1>2, <2>2
  <2>4. \A i \in 1..Least(Len(wire), Len(buffer')) : buffer'[i] = wire[i]
    BY <1>1, <1>2, <1>3, <2>3 DEF Least
  <2>5. wire = Wire(arrived'[taken'])
    BY <1>1 DEF wire
  <2> QED BY <2>3, <2>4, <2>5 DEF IsFront
<1> HIDE DEF wire
<1>7. TypeOK'
  <2>1. 1..taken \subseteq 1..taken' /\ taken' \in 0..Len(arrived') /\ handling' \in 0..taken'
    BY <1>1, <1>2 DEF IInv, TypeOK
  <2>2. calls' \in Seq([source : 1..taken', stream : Seq(Int)])
    <3> DEFINE Before == [source : 1..taken, stream : Seq(Int)]
               After  == [source : 1..taken', stream : Seq(Int)]
    <3>1. Before \subseteq After
      BY <2>1
    <3>2. calls \in Seq(Before)
      BY DEF IInv, TypeOK
    <3> HIDE DEF Before, After
    <3>3. calls \in Seq(After)
      BY <3>1, <3>2, SeqMonotonic
    <3> QED BY <1>1, <3>3 DEF After
  <2>3. outstanding' \in 0..MaxReceives
    BY <1>1, <1>2, ReceiverAssumption DEF IInv, TypeOK
  <2> QED BY <1>1, <1>5, <1>6, <2>1, <2>2, <2>3 DEF IInv, TypeOK
<1>8. OperationsAreCounted' /\ LongEnough' /\ HandlesADatagram' /\ FinishedAfterStop'
  BY <1>1, <1>5, <1>6 DEF IInv, OperationsAreCounted, LongEnough, HandlesADatagram, FinishedAfterStop
<1>9. FrontIsLatest'
  BY <1>1, <1>2, <1>6 DEF FrontIsLatest
<1>10. CallsAreFronts'
  <2> SUFFICES ASSUME NEW i \in 1..Len(calls)
               PROVE  /\ Len(calls[i].stream) >= Minimum
                      /\ \E n \in 1..taken' : IsFront(calls[i].stream, n)
    BY <1>1 DEF CallsAreFronts, IsFront
  <2>1. PICK n \in 1..taken : IsFront(calls[i].stream, n)
    BY DEF IInv, CallsAreFronts
  <2>2. n \in 1..taken'
    BY <1>1, <1>2
  <2> QED BY <2>1, <2>2 DEF IInv, CallsAreFronts
<1>11. ASSUME Background PROVE Background'
  <2> SUFFICES ASSUME ~blocking PROVE Background'
    BY <1>1 DEF Background
  <2>1. OneOperation' /\ CallsInOrder'
    BY <1>1, <1>5, <1>11
    DEF Background, OneOperation, Heeds, CallsInOrder, IsFront
  <2>2. IdleBeforeStart'
    BY <1>1, <1>5, <1>11 DEF Background, IdleBeforeStart
  <2>3. NextInHand'
    <3>1. CASE Heeds
      <4>1. runner # "callback" /\ ~stopped /\ completed = <<>> /\ outstanding = 1
        BY <1>1, <1>2, <1>11, <3>1, EmptyWhenNone DEF Background, OneOperation, Heeds, Operations, IInv, TypeOK
      <4>2. taken = Len(calls) /\ Len(completed) = 0
        BY <1>1, <1>11, <4>1 DEF Background, NextInHand
      <4>3. completed'[1] = result
        BY <1>5, <4>2
      <4> QED BY <1>1, <1>2, <1>4, <4>1, <4>2, <4>3 DEF NextInHand
    <3>2. CASE ~Heeds
      BY <1>1, <3>2 DEF Heeds, NextInHand
    <3> QED BY <3>1, <3>2
  <2> QED BY <2>1, <2>2, <2>3 DEF Background
<1> QED BY <1>7, <1>8, <1>9, <1>10, <1>11 DEF IInv

LEMMA HandlerStartsStep ==
  ASSUME IInv, HandlerStarts, UNCHANGED setup
  PROVE  IInv'
<1>1. /\ runner = "running" /\ ~stopped /\ completed # <<>> /\ completed' = Tail(completed)
      /\ UNCHANGED <<arrived, taken, buffer, outstanding, calls, receives, alive,
                     blocking, socket, system_status>>
  BY DEF HandlerStarts, setup
<1>2. /\ outstanding \in Nat /\ Len(completed) \in Nat /\ taken \in Nat
      /\ Operations \in Nat /\ Len(calls) \in Nat
      /\ completed \in Seq(0..taken)
  BY Counting DEF IInv, TypeOK
<1>3. /\ completed' \in Seq(0..taken) /\ Len(completed') = Len(completed) - 1
      /\ \A i \in 1..Len(completed') : completed'[i] = completed[i + 1]
      /\ Head(completed) = completed[1] /\ completed[1] \in 0..taken
      /\ Len(completed) > 0
  BY <1>1, <1>2, HeadTailProperties, EmptySeq, ElementOfSeq
<1>4. CallsAreFronts'
  BY <1>1 DEF IInv, CallsAreFronts, IsFront
<1>5. ~blocking => Background /\ OneOperation
  BY DEF IInv, Background
<1>6. ~blocking => outstanding = 0 /\ Len(completed) = 1 /\ completed' = <<>>
  <2>1. ~blocking => Operations <= 1
    BY <1>1, <1>5 DEF OneOperation, Heeds
  <2>2. ~blocking => outstanding = 0 /\ Len(completed) = 1
    BY <1>1, <1>2, <1>3, <2>1 DEF Operations
  <2>3. Len(completed') = 0 => completed' = <<>>
    BY <1>3, EmptyWhenNone
  <2> QED BY <1>3, <2>2, <2>3
<1>7. CASE completed[1] = 0
  <2>1. /\ stopped' = (outstanding = 0 /\ completed' = <<>>)
        /\ runner' = IF blocking THEN "none" ELSE "running"
        /\ handling' = handling
    BY <1>1, <1>3, <1>7 DEF HandlerStarts, AfterHandler
  <2>2. Operations' = Operations - 1
    BY <1>1, <1>2, <1>3, <2>1 DEF Operations
  <2>3. TypeOK'
    <3>1. stopped' \in BOOLEAN /\ runner' \in {"none", "running"}
      BY <2>1
    <3> QED BY <1>1, <1>3, <2>1, <3>1 DEF IInv, TypeOK
  <2>4. OperationsAreCounted' /\ LongEnough' /\ HandlesADatagram' /\ FinishedAfterStop'
    BY <1>1, <1>2, <2>1, <2>2, Counting
    DEF IInv, OperationsAreCounted, LongEnough, HandlesADatagram, FinishedAfterStop
  <2>5. FrontIsLatest'
    <3> SUFFICES ASSUME NEW i \in 1..Len(completed'), completed'[i] # 0
                 PROVE  taken > 0 /\ IsFront(buffer, taken)
      BY <1>1, <2>1 DEF FrontIsLatest, IsFront
    <3>1. i + 1 \in 1..Len(completed) /\ completed[i + 1] # 0
      BY <1>2, <1>3
    <3> QED BY <3>1 DEF IInv, FrontIsLatest
  <2>6. Background'
    <3> SUFFICES ASSUME ~blocking PROVE Background'
      BY <1>1 DEF Background
    <3>1. stopped' /\ runner' = "running"
      BY <1>6, <2>1
    <3> QED BY <1>1, <1>5, <3>1
        DEF Background, OneOperation, Heeds, IdleBeforeStart, CallsInOrder, NextInHand, IsFront
  <2> QED BY <1>4, <2>3, <2>4, <2>5, <2>6 DEF IInv
<1>8. CASE completed[1] # 0
  <2>1. stopped' = stopped /\ runner' = "callback" /\ handling' = completed[1]
    BY <1>1, <1>3, <1>8 DEF HandlerStarts
  <2>2. Operations' = Operations
    BY <1>1, <1>2, <1>3, <2>1 DEF Operations
  <2>3. TypeOK'
    BY <1>1, <1>3, <2>1 DEF IInv, TypeOK
  <2>4. OperationsAreCounted' /\ LongEnough' /\ HandlesADatagram' /\ FinishedAfterStop'
    BY <1>1, <1>2, <1>3, <1>8, <2>1, <2>2
    DEF IInv, OperationsAreCounted, LongEnough, HandlesADatagram, FinishedAfterStop
  <2>5. FrontIsLatest'
    <3>1. 1 \in 1..Len(completed)
      BY <1>2, <1>3
    <3>2. taken > 0 /\ IsFront(buffer, taken)
      BY <1>8, <3>1 DEF IInv, FrontIsLatest
    <3> QED BY <1>1, <3>2 DEF FrontIsLatest, IsFront
  <2>6. Background'
    <3> SUFFICES ASSUME ~blocking PROVE Background'
      BY <1>1 DEF Background
    <3>1. OneOperation' /\ IdleBeforeStart' /\ CallsInOrder'
      BY <1>1, <1>5, <2>1, <2>2
      DEF Background, OneOperation, Heeds, IdleBeforeStart, CallsInOrder, IsFront
    <3>2. NextInHand'
      BY <1>1, <1>5, <1>6, <1>8, <2>1 DEF Background, NextInHand
    <3> QED BY <3>1, <3>2 DEF Background
  <2> QED BY <1>4, <2>3, <2>4, <2>5, <2>6 DEF IInv
<1> QED BY <1>7, <1>8

\* What a handler that returns leaves behind.
LEMMA HandlerEndsEffect ==
  ASSUME IInv, HandlerEnds, UNCHANGED setup
  PROVE  /\ runner = "callback" /\ handling \in 1..taken
         /\ UNCHANGED <<arrived, taken, buffer, completed, stopped, receives, alive,
                        blocking, socket, system_status>>
         /\ Len(buffer) >= Minimum /\ taken > 0 /\ IsFront(buffer, taken)
         /\ outstanding' = outstanding + 1 /\ handling' = 0
         /\ runner' = (IF blocking THEN "none" ELSE "running")
         /\ Operations' = Operations
         /\ calls' \in Seq([source : 1..taken, stream : Seq(Int)])
         /\ Len(calls') = Len(calls) + 1
         /\ \A i \in 1..Len(calls) : calls'[i] = calls[i]
         /\ calls'[Len(calls) + 1] = [source |-> handling, stream |-> buffer]
<1>1. /\ runner = "callback" /\ handling' = 0 /\ multicast_receive
      /\ calls' = Append(calls, [source |-> handling, stream |-> buffer])
      /\ runner' = (IF blocking THEN "none" ELSE "running")
      /\ UNCHANGED <<arrived, taken, completed, stopped, receives, alive,
                     blocking, socket, system_status>>
  BY DEF HandlerEnds, AfterHandler, setup
<1>2. /\ outstanding \in Nat /\ Len(completed) \in Nat /\ Operations > 0
      /\ handling \in 1..taken /\ buffer \in Seq(Int)
      /\ calls \in Seq([source : 1..taken, stream : Seq(Int)])
  BY <1>1, Counting DEF IInv, TypeOK, HandlesADatagram
<1>3. buffer' = buffer /\ outstanding' = outstanding + 1
  BY <1>1, <1>2, Inflates DEF multicast_receive
<1>4. Len(buffer) >= Minimum /\ taken > 0 /\ IsFront(buffer, taken)
  BY <1>1, <1>2 DEF IInv, LongEnough, FrontIsLatest
<1>5. Operations' = Operations
  BY <1>1, <1>2, <1>3 DEF Operations
<1>6. [source |-> handling, stream |-> buffer] \in [source : 1..taken, stream : Seq(Int)]
  BY <1>2
<1> DEFINE Calls == [source : 1..taken, stream : Seq(Int)]
           call  == [source |-> handling, stream |-> buffer]
<1> HIDE DEF Calls, call
<1>7. calls \in Seq(Calls) /\ call \in Calls /\ calls' = Append(calls, call)
  BY <1>1, <1>2, <1>6 DEF Calls, call
<1>8. /\ calls' \in Seq(Calls)
      /\ Len(calls') = Len(calls) + 1
      /\ \A i \in 1..Len(calls) : calls'[i] = calls[i]
      /\ calls'[Len(calls) + 1] = call
  BY <1>7, AppendProperties
<1> QED BY <1>1, <1>2, <1>3, <1>4, <1>5, <1>8 DEF Calls, call

LEMMA HandlerEndsStep ==
  ASSUME IInv, HandlerEnds, UNCHANGED setup
  PROVE  IInv'
<1>1. /\ runner = "callback" /\ handling \in 1..taken
      /\ UNCHANGED <<arrived, taken, buffer, completed, stopped, receives, alive,
                     blocking, socket, system_status>>
      /\ Len(buffer) >= Minimum /\ taken > 0 /\ IsFront(buffer, taken)
      /\ outstanding' = outstanding + 1 /\ handling' = 0
      /\ runner' = (IF blocking THEN "none" ELSE "running")
      /\ Operations' = Operations
  BY HandlerEndsEffect
<1>2. /\ calls' \in Seq([source : 1..taken, stream : Seq(Int)])
      /\ Len(calls') = Len(calls) + 1
      /\ \A i \in 1..Len(calls) : calls'[i] = calls[i]
      /\ calls'[Len(calls) + 1].source = handling
      /\ calls'[Len(calls) + 1].stream = buffer
  BY HandlerEndsEffect
<1>3. /\ outstanding \in Nat /\ Len(completed) \in Nat /\ taken \in Nat
      /\ Operations \in Nat /\ Len(calls) \in Nat /\ receives \in Nat
      /\ completed \in Seq(0..taken)
  BY Counting DEF IInv, TypeOK
<1>4. outstanding' \in 0..MaxReceives /\ runner' \in {"none", "running"}
  <2>1. Operations <= receives /\ receives <= MaxReceives /\ MaxReceives \in Nat
    BY ReceiverAssumption DEF IInv, OperationsAreCounted, TypeOK
  <2> QED BY <1>1, <1>3, <2>1 DEF Operations
<1>5. TypeOK'
  BY <1>1, <1>2, <1>3, <1>4 DEF IInv, TypeOK
<1>6. OperationsAreCounted' /\ LongEnough' /\ HandlesADatagram' /\ FinishedAfterStop'
  BY <1>1, <1>4 DEF IInv, OperationsAreCounted, LongEnough, HandlesADatagram, FinishedAfterStop
<1>7. FrontIsLatest'
  BY <1>1 DEF FrontIsLatest, IsFront
<1>8. CallsAreFronts'
  <2> SUFFICES ASSUME NEW i \in 1..Len(calls')
               PROVE  /\ Len(calls'[i].stream) >= Minimum
                      /\ \E n \in 1..taken : IsFront(calls'[i].stream, n)
    BY <1>1 DEF CallsAreFronts, IsFront
  <2>1. CASE i \in 1..Len(calls)
    BY <1>2, <2>1 DEF IInv, CallsAreFronts
  <2>2. CASE i = Len(calls) + 1
    <3>1. taken \in 1..taken
      BY <1>1, <1>3
    <3> QED BY <1>1, <1>2, <2>2, <3>1
  <2> QED BY <1>2, <1>3, <2>1, <2>2
<1>9. Background'
  <2> SUFFICES ASSUME ~blocking PROVE Background'
    BY <1>1 DEF Background
  <2>1. Background /\ runner' = "running"
    BY <1>1 DEF IInv
  <2>2. OneOperation' /\ IdleBeforeStart'
    BY <1>1, <2>1 DEF Background, OneOperation, Heeds, IdleBeforeStart
  <2>3. handling = taken /\ taken = Len(calls) + 1
    BY <1>1, <2>1 DEF Background, NextInHand
  <2>4. CallsInOrder'
    <3> SUFFICES ASSUME NEW i \in 1..Len(calls')
                 PROVE  calls'[i].source = i /\ IsFront(calls'[i].stream, i)
      BY <1>1 DEF CallsInOrder, IsFront
    <3>1. CASE i \in 1..Len(calls)
      BY <1>2, <2>1, <3>1 DEF Background, CallsInOrder
    <3>2. CASE i = Len(calls) + 1
      BY <1>1, <1>2, <2>3, <3>2
    <3> QED BY <1>2, <1>3, <3>1, <3>2
  <2>5. NextInHand'
    <3>1. completed = <<>>
      <4>1. Operations <= 1
        BY <1>1, <2>1 DEF Background, OneOperation, Heeds
      <4>2. Len(completed) = 0
        BY <1>1, <1>3, <4>1 DEF Operations
      <4> QED BY <1>3, <4>2, EmptyWhenNone
    <3> QED BY <1>1, <1>2, <2>1, <2>3, <3>1 DEF NextInHand
  <2> QED BY <2>2, <2>4, <2>5 DEF Background
<1> QED BY <1>5, <1>6, <1>7, <1>8, <1>9 DEF IInv

LEMMA DestroyStep ==
  ASSUME IInv, Destroy, UNCHANGED setup
  PROVE  IInv'
<1>1. /\ stopped /\ runner \in {"none", "joined"} /\ alive' = FALSE
      /\ buffer' = <<>> /\ outstanding' = 0 /\ completed' = <<>>
      /\ UNCHANGED <<arrived, taken, stopped, runner, handling, calls, receives,
                     blocking, socket, system_status>>
  BY DEF Destroy, setup
<1>2. /\ <<>> \in Seq(Int) /\ <<>> \in Seq(0..taken) /\ Len(<<>>) = 0
      /\ 0 \in 0..MaxReceives
  BY ReceiverAssumption
<1>3. Operations' = 0 /\ receives \in Nat
  BY <1>1, <1>2, Counting DEF Operations, IInv
<1>4. TypeOK'
  BY <1>1, <1>2 DEF IInv, TypeOK
<1>5. OperationsAreCounted' /\ LongEnough' /\ HandlesADatagram' /\ FinishedAfterStop' /\ FrontIsLatest'
  BY <1>1, <1>2, <1>3 DEF OperationsAreCounted, LongEnough, HandlesADatagram, FinishedAfterStop, FrontIsLatest
<1>6. CallsAreFronts'
  BY <1>1 DEF IInv, CallsAreFronts, IsFront
<1>7. ASSUME Background PROVE Background'
  BY <1>1, <1>3, <1>7
  DEF Background, OneOperation, Heeds, IdleBeforeStart, CallsInOrder,
      NextInHand, IsFront
<1> QED BY <1>4, <1>5, <1>6, <1>7 DEF IInv

LEMMA ThreadStep ==
  ASSUME IInv, RunReturns \/ stop \/ join, UNCHANGED setup
  PROVE  IInv'
<1>1. CASE RunReturns
  BY <1>1, OnlyTheThread DEF RunReturns, IInv, TypeOK
<1>2. CASE stop
  BY <1>2, OnlyTheThread DEF stop, IInv, TypeOK
<1>3. CASE join
  BY <1>3, OnlyTheThread DEF join, IInv, TypeOK, FinishedAfterStop
<1> QED BY <1>1, <1>2, <1>3

LEMMA Inductive == IInv /\ [Next]_vars => IInv'
<1> SUFFICES ASSUME IInv, [Next]_vars PROVE IInv'
  OBVIOUS
<1>1. ASSUME NEW n \in Lengths, buffer_legth(n), UNCHANGED setup PROVE IInv'
  BY <1>1, LengthStep
<1>2. CASE (receive \/ async_receive) /\ UNCHANGED setup
  BY <1>2, StartStep
<1>3. ASSUME NEW d \in Datagrams, Arrive(d), UNCHANGED setup PROVE IInv'
  BY <1>3, ArriveStep
<1>4. CASE ReceiveCompletes /\ UNCHANGED setup
  BY <1>4, CompletesStep
<1>5. CASE ReceiveFails /\ UNCHANGED setup
  BY <1>5, FailsStep
<1>6. CASE HandlerStarts /\ UNCHANGED setup
  BY <1>6, HandlerStartsStep
<1>7. CASE HandlerEnds /\ UNCHANGED setup
  BY <1>7, HandlerEndsStep
<1>8. CASE (RunReturns \/ stop \/ join) /\ UNCHANGED setup
  BY <1>8, ThreadStep
<1>9. CASE Destroy /\ UNCHANGED setup
  BY <1>9, DestroyStep
<1>10. CASE UNCHANGED vars
  <2>1. UNCHANGED <<setup, arrived, taken, buffer, outstanding, completed,
                    handling, calls, receives, runner, stopped, alive>>
    BY <1>10 DEF vars
  <2> QED BY <2>1, OnlyTheThread DEF IInv, TypeOK, FinishedAfterStop
<1> QED BY <1>1, <1>2, <1>3, <1>4, <1>5, <1>6, <1>7, <1>8, <1>9, <1>10 DEF Next

THEOREM Invariance == Spec => []IInv
BY Inductive, InitHolds, PTL DEF Spec

\* The receiver's state stays of its type, whatever arrives and fails.
THEOREM TypeCorrect == Spec => []TypeOK
<1>1. IInv => TypeOK
  BY DEF IInv
<1> QED BY <1>1, Invariance, PTL

\* No receive overwrites the datagram that the callback of the background thread
\* is reading in place.
THEOREM BufferIsTheHandlersHolds == Spec => []BufferIsTheHandlers
<1>1. IInv => BufferIsTheHandlers
  BY DEF IInv, FrontIsLatest, Background, NextInHand, IsFront, BufferIsTheHandlers
<1> QED BY <1>1, Invariance, PTL

-----------------------------------------------------------------------------
(* What the callback makes of a front.                                     *)

HeardFrom(stream) ==
  LET in == Deserialize(pfc_service_announcement, stream)
  IN IF is_ok(in.error) THEN Accepted(in.message) ELSE Refused

\* Of a datagram that fits the whole announcement is heard, of a longer one the
\* announcement, one with its brief padded, or none.
LEMMA FrontIsHeard ==
  ASSUME NEW d \in Datagrams, NEW stream \in Seq(Int), Len(stream) >= Minimum,
         \A i \in 1..Least(Len(Wire(d)), Len(stream)) : stream[i] = Wire(d)[i]
  PROVE  HeardFrom(stream) \in Hears(d)
<1> DEFINE S == Serialize(d.class, d.head)
           in == Deserialize(pfc_service_announcement, stream)
<1>1. /\ d.class \in MessageClasses /\ d.head \in Message
      /\ pfc_service_announcement \in MessageClasses
  BY ReceiverAssumption DEF MessageClasses
<1>2. /\ S \in Seq(Int) /\ d.tail \in Seq(Int) /\ Wire(d) = S \o d.tail
  BY WireIsCells DEF Wire
<1> HIDE DEF S
<1>3. /\ Len(S) \in Nat /\ Len(d.tail) \in Nat /\ Len(stream) \in Nat /\ Minimum \in Nat
      /\ Len(Wire(d)) = Len(S) + Len(d.tail)
      /\ \A i \in 1..Len(S) : Wire(d)[i] = S[i]
  BY <1>2, LenProperties, ConcatProperties, ReceiverAssumption
<1>4. \A i \in 1..Len(stream) : i <= Len(S) => stream[i] = S[i]
  <2> SUFFICES ASSUME NEW i \in 1..Len(stream), i <= Len(S) PROVE stream[i] = S[i]
    OBVIOUS
  <2>1. i \in 1..Least(Len(Wire(d)), Len(stream)) /\ i \in 1..Len(S)
    BY <1>3 DEF Least
  <2> QED BY <1>3, <2>1
<1>5. CASE Len(S) <= Len(stream)
  <2>1. PICK tail \in Seq(Int) : stream = S \o tail
    BY <1>2, <1>3, <1>4, <1>5, FrontAndRest
  <2>2. in = [rest |-> tail, good |-> TRUE, error |-> Success, message |-> d.head]
    BY <1>1, <2>1, RoundTrip DEF S
  <2>3. HeardFrom(stream) = Accepted(d.head)
    BY <2>2 DEF HeardFrom, is_ok, Success
  <2>4. d.head \in CutBriefs(d.head)
    <3> DEFINE brief == d.head.brief
               n == Len(brief)
    <3>1. brief \in Seq(Int) /\ n \in Nat
      BY <1>1, LenProperties DEF Message
    <3>2. SubSeq(brief, 1, n) \o Zeros(n - n) = brief
      <4>1. Zeros(n - n) = <<>>
        BY <3>1 DEF Zeros
      <4>2. SubSeq(brief, 1, n) = brief
        BY <3>1, WholeSubSeq
      <4> QED BY <3>1, <4>1, <4>2, ConcatEmptySeq
    <3>3. [d.head EXCEPT !.brief = SubSeq(@, 1, n) \o Zeros(Len(@) - n)] = d.head
      BY <1>1, <3>2 DEF Message
    <3>4. n \in 0..Len(d.head.brief)
      BY <3>1
    <3> HIDE DEF n, brief
    <3> QED BY <3>3, <3>4 DEF CutBriefs
  <2> QED BY <2>3, <2>4 DEF Hears
<1>6. CASE ~(Len(S) <= Len(stream))
  <2>1. IsCut(stream, S) /\ ~(Len(S) <= Minimum)
    BY <1>3, <1>4, <1>6 DEF IsCut
  <2>2. RefusedOrPadded(in, d.head, "brief", d.head.brief)
    BY <1>1, <2>1, CutIsRefusedOrPadded DEF S
  <2>3. Hears(d) = {Refused} \cup {Accepted(m) : m \in CutBriefs(d.head)}
    BY <2>1 DEF Hears, S
  <2>4. HeardFrom(stream) = IF is_ok(in.error) THEN Accepted(in.message) ELSE Refused
    BY DEF HeardFrom
  <2> HIDE DEF in
  <2>5. CASE ~is_ok(in.error)
    BY <2>3, <2>4, <2>5
  <2>6. CASE is_ok(in.error)
    <3>1. in.message \in CutBriefs(d.head)
      BY <2>2, <2>6 DEF CutBriefs, RefusedOrPadded
    <3> QED BY <2>3, <2>4, <2>6, <3>1
  <2> QED BY <2>5, <2>6
<1> QED BY <1>5, <1>6

LEMMA FrontsAreHeard ==
  ASSUME TypeOK, NEW stream \in Seq(Int), Len(stream) >= Minimum, NEW n \in 1..taken,
         IsFront(stream, n)
  PROVE  HeardFrom(stream) \in Hears(arrived[n])
<1>1. arrived[n] \in Datagrams
  <2>1. arrived \in Seq(Datagrams) /\ n \in 1..Len(arrived)
    BY LenProperties DEF TypeOK
  <2> QED BY <2>1, ElementOfSeq
<1>2. \A i \in 1..Least(Len(Wire(arrived[n])), Len(stream)) :
        stream[i] = Wire(arrived[n])[i]
  BY DEF IsFront
<1> QED BY <1>1, <1>2, FrontIsHeard

LEMMA HeardOfStreams ==
  /\ Heard = [i \in 1..Len(calls) |-> HeardFrom(calls[i].stream)]
  /\ Heard' = [i \in 1..Len(calls') |-> HeardFrom(calls'[i].stream)]
BY DEF Heard, Read, HeardFrom

\* Whatever is received by receive(), again and again, or by the background
\* thread: what is accepted was sent by a peer.
THEOREM HeardIsGenuineHolds == Spec => []HeardIsGenuine
<1>1. IInv => HeardIsGenuine
  <2> SUFFICES ASSUME IInv, NEW i \in 1..Len(calls)
               PROVE  \E n \in 1..taken : Heard[i] \in Hears(arrived[n])
    BY DEF HeardIsGenuine
  <2>1. TypeOK /\ calls[i].stream \in Seq(Int)
    <3>1. calls[i] \in [source : 1..taken, stream : Seq(Int)]
      BY ElementOfSeq DEF IInv, TypeOK
    <3> QED BY <3>1 DEF IInv
  <2>2. Len(calls[i].stream) >= Minimum
    BY DEF IInv, CallsAreFronts
  <2>3. PICK n \in 1..taken : IsFront(calls[i].stream, n)
    BY DEF IInv, CallsAreFronts
  <2>4. HeardFrom(calls[i].stream) \in Hears(arrived[n])
    BY <2>1, <2>2, <2>3, FrontsAreHeard
  <2>5. Heard[i] = HeardFrom(calls[i].stream)
    BY HeardOfStreams
  <2> QED BY <2>4, <2>5
<1> QED BY <1>1, Invariance, PTL

-----------------------------------------------------------------------------
(* The refinement: each step of the receiver is one of the intake, or none. *)

Opened == blocking \/ ~stopped \/ runner = "callback"

LEMMA OpenedIsBoolean == Opened \in BOOLEAN /\ Opened' \in BOOLEAN
BY DEF Opened

LEMMA HeardKept ==
  ASSUME UNCHANGED calls
  PROVE  Heard' = Heard
BY HeardOfStreams

LEMMA IntakeStutters ==
  ASSUME blocking' = blocking,
         blocking \/ UNCHANGED <<arrived, calls>>,
         blocking \/ (stopped' <=> stopped),
         blocking \/ (runner' = "callback" <=> runner = "callback") \/ ~stopped
  PROVE  UNCHANGED Intake!vars
<1>1. CASE blocking
  <2>1. /\ (IF blocking THEN <<>> ELSE arrived)' = (IF blocking THEN <<>> ELSE arrived)
        /\ (IF blocking THEN <<>> ELSE Heard)' = (IF blocking THEN <<>> ELSE Heard)
    BY <1>1
  <2>2. Opened /\ Opened'
    BY <1>1 DEF Opened
  <2>3. Opened' = Opened
    BY <2>2, OpenedIsBoolean
  <2> QED BY <2>1, <2>3 DEF Intake!vars, Opened
<1>2. CASE ~blocking
  <2>1. /\ (IF blocking THEN <<>> ELSE arrived)' = (IF blocking THEN <<>> ELSE arrived)
        /\ (IF blocking THEN <<>> ELSE Heard)' = (IF blocking THEN <<>> ELSE Heard)
    BY <1>2, HeardKept
  <2>2. Opened <=> Opened'
    BY <1>2 DEF Opened
  <2>3. Opened' = Opened
    BY <2>2, OpenedIsBoolean
  <2> QED BY <2>1, <2>3 DEF Intake!vars, Opened
<1> QED BY <1>1, <1>2

LEMMA IntakeInit ==
  ASSUME Init
  PROVE  Intake!Init
<1>1. Heard = <<>> /\ arrived = <<>>
  <2>1. Len(calls) = 0
    BY DEF Init
  <2> QED BY <2>1, HeardOfStreams DEF Init
<1>2. Opened
  BY DEF Init, Opened
<1>3. Opened = TRUE
  BY <1>2, Zenon
<1> QED BY <1>1, <1>3 DEF Intake!Init, Opened

LEMMA IntakeHears ==
  ASSUME IInv, HandlerEnds, UNCHANGED setup, ~blocking
  PROVE  Intake!Hear
<1>1. /\ runner = "callback" /\ blocking' = blocking
      /\ UNCHANGED <<arrived, taken>>
      /\ Len(buffer) >= Minimum /\ taken > 0 /\ IsFront(buffer, taken)
      /\ Len(calls') = Len(calls) + 1
      /\ \A i \in 1..Len(calls) : calls'[i] = calls[i]
  BY HandlerEndsEffect
<1>2. calls'[Len(calls) + 1].stream = buffer
  BY HandlerEndsEffect
<1>3. taken = Len(calls) + 1
  BY <1>1 DEF IInv, Background, NextInHand
<1>4. /\ taken \in 0..Len(arrived) /\ buffer \in Seq(Int) /\ Len(calls) \in Nat
      /\ Len(arrived) \in Nat /\ TypeOK
  BY Counting, LenProperties DEF IInv, TypeOK
<1> DEFINE h == HeardFrom(buffer)
<1>5. h \in Hears(arrived[Len(calls) + 1])
  <2>1. taken \in 1..taken
    BY <1>1, <1>4
  <2> QED BY <1>1, <1>3, <1>4, <2>1, FrontsAreHeard
<1> HIDE DEF h
<1>6. Heard' = Append(Heard, h) /\ Len(Heard) = Len(calls)
  <2> DEFINE Results == {HeardFrom(calls'[i].stream) : i \in 1..Len(calls) + 1}
  <2>1. \A i \in 1..Len(calls) : HeardFrom(calls[i].stream) = HeardFrom(calls'[i].stream)
    BY <1>1
  <2>2. h = HeardFrom(calls'[Len(calls) + 1].stream)
    BY <1>2 DEF h
  <2>3. /\ \A i \in 1..Len(calls) + 1 : HeardFrom(calls'[i].stream) \in Results
        /\ h \in Results
    BY <1>4, <2>2
  <2> HIDE DEF Results
  <2>4. /\ Heard \in Seq(Results) /\ Len(Heard) = Len(calls)
        /\ \A i \in 1..Len(calls) : Heard[i] = HeardFrom(calls'[i].stream)
    <3>1. Heard = [i \in 1..Len(calls) |-> HeardFrom(calls'[i].stream)]
      BY <2>1, HeardOfStreams
    <3>2. \A i \in 1..Len(calls) : HeardFrom(calls'[i].stream) \in Results
      BY <1>4, <2>3
    <3> QED BY <1>4, <3>1, <3>2
  <2>5. /\ Heard' \in Seq(Results) /\ Len(Heard') = Len(calls) + 1
        /\ \A i \in 1..Len(calls) + 1 : Heard'[i] = HeardFrom(calls'[i].stream)
    <3>1. Heard' = [i \in 1..Len(calls) + 1 |-> HeardFrom(calls'[i].stream)]
      BY <1>1, HeardOfStreams
    <3> QED BY <1>4, <2>3, <3>1
  <2> DEFINE after == Append(Heard, h)
  <2>6. /\ after \in Seq(Results) /\ Len(after) = Len(calls) + 1
        /\ \A i \in 1..Len(calls) : after[i] = Heard[i]
        /\ after[Len(calls) + 1] = h
    BY <2>3, <2>4, AppendProperties
  <2> HIDE DEF after
  <2>7. \A i \in 1..Len(calls) + 1 : Heard'[i] = after[i]
    <3> TAKE i \in 1..Len(calls) + 1
    <3>1. i \in 1..Len(calls) \/ i = Len(calls) + 1
      BY <1>4
    <3> QED BY <2>2, <2>4, <2>5, <2>6, <3>1
  <2>8. Heard' = after
    BY <2>5, <2>6, <2>7, SeqEqual
  <2> QED BY <2>4, <2>8 DEF after
<1>7. Opened /\ Opened' \in BOOLEAN
  BY <1>1, Zenon DEF Opened
<1>8. Len(Heard) < Len(arrived)
  BY <1>1, <1>3, <1>4, <1>6
<1> QED BY <1>1, <1>5, <1>6, <1>7, <1>8 DEF Intake!Hear, Opened

\* The receiver with a background thread gives its callback every datagram once
\* and in order, read as Hears allows, and closes with stop().
THEOREM ImplementsIntake == Spec => IsAnIntake
<1>1. Init => Intake!Init
  BY IntakeInit
<1>2. IInv /\ [Next]_vars => [Intake!Next]_(Intake!vars)
  <2> SUFFICES ASSUME IInv, [Next]_vars PROVE [Intake!Next]_(Intake!vars)
    OBVIOUS
  <2>1. blocking' = blocking
    BY DEF Next, vars, setup
  <2>2. CASE blocking
    BY <2>1, <2>2, IntakeStutters
  <2>3. CASE ~blocking
    <3>1. ASSUME NEW d \in Datagrams, Arrive(d) PROVE Intake!Arrive
      <4>1. UNCHANGED <<calls, stopped, runner>> /\ arrived' = Append(arrived, d)
        BY <3>1 DEF Arrive
      <4>2. Heard' = Heard
        BY <4>1, HeardKept
      <4>3. Opened' = Opened
        BY <2>1, <4>1 DEF Opened
      <4> QED BY <2>1, <2>3, <4>1, <4>2, <4>3 DEF Intake!Arrive, Opened
    <3>2. CASE HandlerEnds /\ UNCHANGED setup
      BY <2>3, <3>2, IntakeHears DEF Intake!Next
    <3>3. ASSUME UNCHANGED <<arrived, calls>>, ~stopped, runner # "callback",
                 stopped', runner' # "callback"
          PROVE  Intake!Close
      <4>1. Heard' = Heard
        BY <3>3, HeardKept
      <4>2. Opened /\ ~Opened'
        BY <2>1, <2>3, <3>3 DEF Opened
      <4>3. Opened' = FALSE
        BY <4>2, OpenedIsBoolean
      <4> QED BY <2>1, <2>3, <3>3, <4>1, <4>2, <4>3 DEF Intake!Close, Opened
    <3>4. CASE HandlerStarts
      <4>1. UNCHANGED <<arrived, calls>> /\ ~stopped /\ runner = "running"
        BY <3>4 DEF HandlerStarts
      <4>2. CASE ~stopped'
        BY <2>1, <4>1, <4>2, IntakeStutters
      <4>3. CASE stopped'
        <5>1. runner' # "callback"
          BY <3>4, <4>1, <4>3 DEF HandlerStarts, AfterHandler
        <5> QED BY <3>3, <4>1, <4>3, <5>1 DEF Intake!Next
      <4> QED BY <4>2, <4>3
    <3>5. CASE stop
      <4>1. UNCHANGED <<arrived, calls, runner>> /\ ~stopped /\ stopped' = TRUE
        BY <3>5 DEF stop
      <4>2. CASE runner = "callback"
        <5>1. Opened /\ Opened'
          BY <4>1, <4>2 DEF Opened
        <5>2. Opened' = Opened
          BY <5>1, OpenedIsBoolean
        <5>3. Heard' = Heard
          BY <4>1, HeardKept
        <5>4. UNCHANGED Intake!vars
          BY <2>1, <4>1, <5>2, <5>3 DEF Intake!vars, Opened
        <5> QED BY <5>4
      <4>3. CASE runner # "callback"
        BY <3>3, <4>1, <4>3 DEF Intake!Next
      <4> QED BY <4>2, <4>3
    <3>6. CASE \/ \E n \in Lengths : buffer_legth(n)
               \/ receive \/ async_receive \/ ReceiveCompletes \/ ReceiveFails
               \/ RunReturns \/ join \/ Destroy \/ UNCHANGED vars
      <4>1. UNCHANGED <<arrived, calls, stopped>>
        BY <3>6 DEF buffer_legth, receive, async_receive, ReceiveCompletes, ReceiveFails,
                    RunReturns, join, Destroy, vars
      <4>2. runner' = "callback" <=> runner = "callback"
        BY <3>6 DEF buffer_legth, receive, async_receive, ReceiveCompletes, ReceiveFails,
                    RunReturns, join, Destroy, vars
      <4> QED BY <2>1, <4>1, <4>2, IntakeStutters
    <3> QED BY <3>1, <3>2, <3>4, <3>5, <3>6 DEF Next, Intake!Next
  <2> QED BY <2>2, <2>3
<1> QED BY <1>1, <1>2, Invariance, PTL DEF Spec, IsAnIntake, Intake!Spec

-----------------------------------------------------------------------------
(* Progress.  As no prover here expands ENABLED, the theorems below name    *)
(* for each fair action the condition under which its guards let it happen, *)
(* and ask that it then be enabled; TLC, which evaluates ENABLED, checks    *)
(* the same properties without.                                             *)

ThreadReady ==
  runner = "callback" \/ (runner = "running" /\ (stopped \/ completed # <<>>))

ReceiveReady == alive /\ outstanding > 0 /\ taken < Len(arrived) /\ socket = "member"

ThreadGoesOn == [](ThreadReady => ENABLED <<Thread /\ UNCHANGED setup>>_vars)

NetworkDelivers == [](ReceiveReady => ENABLED <<ReceiveCompletes /\ UNCHANGED setup>>_vars)

\* A receiver that says it is valid is in the group; it is not destroyed before
\* its context has stopped; and as long as that has not, a thread that was
\* started has an operation to wait for.
InStep ==
  /\ is_valid => socket = "member"
  /\ ~stopped => alive
  /\ (~blocking /\ receives > 0) => runner # "none"
  /\ (~blocking /\ receives > 0 /\ ~stopped) => Operations > 0

PInv == IInv /\ InStep

LEMMA InStepInit == Init => InStep
BY DEF Init, InStep, multicast_setup, is_valid, is_ok, Success, PFC_NONE, PFC_IP_PARSE_ERROR

\* A context that has stopped stays so, and nothing changes the setup.
LEMMA StaysStopped ==
  ASSUME IInv, [Next]_vars
  PROVE  /\ blocking' = blocking /\ socket' = socket /\ system_status' = system_status
         /\ stopped => stopped'
<1>1. CASE HandlerStarts
  BY <1>1 DEF HandlerStarts, Next, vars, setup
<1>2. CASE ~HandlerStarts
  BY <1>2 DEF Next, vars, setup, buffer_legth, receive, async_receive, Arrive,
     ReceiveCompletes, ReceiveFails, HandlerEnds, RunReturns, stop, join, Destroy
<1> QED BY <1>1, <1>2

\* As long as a thread in the background heeds what is queued, what it has in
\* hand is one operation.
LEMMA OneInHand ==
  ASSUME IInv, ~blocking, Heeds
  PROVE  /\ outstanding + Len(completed) <= 1
         /\ runner = "callback" => outstanding = 0 /\ completed = <<>>
         /\ completed # <<>> => outstanding = 0 /\ Len(completed) = 1 /\ Tail(completed) = <<>>
         /\ outstanding > 0 => completed = <<>>
<1>1. /\ outstanding \in Nat /\ Len(completed) \in Nat /\ completed \in Seq(0..taken)
  BY Counting DEF IInv, TypeOK
<1>2. Operations <= 1
  BY DEF IInv, Background, OneOperation
<1>3. completed # <<>> => Len(completed) > 0
  BY <1>1, EmptySeq
<1>4. outstanding + Len(completed) + (IF runner = "callback" THEN 1 ELSE 0) <= 1
  BY <1>2 DEF Operations
<1>5. completed # <<>> =>
        Tail(completed) \in Seq(0..taken) /\ Len(Tail(completed)) = Len(completed) - 1
  BY <1>1, HeadTailProperties
<1> DEFINE queued == Len(completed)
<1>a. /\ outstanding \in Nat /\ queued \in Nat
      /\ completed # <<>> => queued > 0
      /\ outstanding + queued + (IF runner = "callback" THEN 1 ELSE 0) <= 1
  BY <1>1, <1>3, <1>4
<1> HIDE DEF queued
<1>b. queued > 0 => queued = 1 /\ outstanding = 0 /\ runner # "callback"
  BY <1>a
<1>6. completed # <<>> => Len(completed) = 1 /\ outstanding = 0 /\ runner # "callback"
  BY <1>a, <1>b DEF queued
<1>7. completed # <<>> => Tail(completed) = <<>>
  <2> SUFFICES ASSUME completed # <<>> PROVE Tail(completed) = <<>>
    OBVIOUS
  <2>0. Tail(completed) \in Seq(0..taken)
    BY <1>5
  <2>1. Len(Tail(completed)) = Len(completed) - 1 /\ Len(completed) = 1
    BY <1>5, <1>6
  <2>2. Len(Tail(completed)) = 0
    BY <2>1
  <2> QED BY <2>0, <2>2, EmptyWhenNone
<1>8. runner = "callback" \/ outstanding > 0 => completed = <<>>
  BY <1>1, <1>4, <1>6
<1>9. runner = "callback" => outstanding = 0
  BY <1>1, <1>4
<1>10. outstanding + Len(completed) <= 1
  BY <1>1, <1>4
<1> QED BY <1>6, <1>7, <1>8, <1>9, <1>10

LEMMA InStepStep == IInv /\ InStep /\ [Next]_vars => InStep'
<1> SUFFICES ASSUME IInv, InStep, [Next]_vars PROVE InStep'
  OBVIOUS
<1> USE DEF InStep
<1>1. /\ blocking' = blocking /\ socket' = socket /\ is_valid' = is_valid
      /\ stopped => stopped'
  BY StaysStopped DEF is_valid
<1>2. /\ outstanding \in Nat /\ Len(completed) \in Nat /\ receives \in Nat
      /\ (runner = "callback" \/ outstanding > 0 \/ completed # <<>>) => Operations > 0
  BY Counting DEF IInv
<1>3. IInv'
  BY Inductive
<1>4. (runner' = "callback" \/ outstanding' > 0 \/ completed' # <<>>) => Operations' > 0
  <2>1. (TypeOK =>
           ((runner = "callback" \/ outstanding > 0 \/ completed # <<>>) => Operations > 0))'
    BY Counting, PTL
  <2> QED BY <1>3, <2>1 DEF IInv
<1>5. ~stopped' => alive'
  BY <1>1 DEF Next, vars, buffer_legth, receive, async_receive, Arrive, ReceiveCompletes,
     ReceiveFails, HandlerStarts, HandlerEnds, RunReturns, stop, join, Destroy
<1>6. (~blocking /\ receives' > 0) => runner' # "none"
  BY <1>1, <1>2 DEF Next, vars, buffer_legth, receive, async_receive, Arrive, ReceiveCompletes,
     ReceiveFails, HandlerStarts, HandlerEnds, AfterHandler, RunReturns, stop, join, Destroy
<1>7. ASSUME ~blocking, receives' > 0, ~stopped' PROVE Operations' > 0
  <2>1. CASE receive \/ async_receive \/ HandlerEnds
    BY <1>2, <1>4, <2>1 DEF receive, async_receive, HandlerEnds, multicast_receive
  <2>2. CASE ReceiveCompletes \/ ReceiveFails
    <3>1. completed \in Seq(0..taken)
      BY DEF IInv, TypeOK
    <3>2. \E c \in Nat : completed' = Append(completed, c)
      BY <1>2, <2>2, Counting DEF ReceiveCompletes, ReceiveFails, IInv
    <3>3. completed' # <<>>
      <4>1. PICK c \in Nat : completed' = Append(completed, c)
        BY <3>2
      <4>2. completed \in Seq(Nat)
        BY <3>1, Counting DEF IInv
      <4>3. Len(completed') = Len(completed) + 1
        BY <4>1, <4>2, AppendProperties
      <4> QED BY <1>2, <4>3
    <3> QED BY <1>4, <3>3
  <2>3. CASE HandlerStarts
    <3>1. outstanding = 0 /\ Tail(completed) = <<>>
      BY <2>3, <1>7, OneInHand DEF HandlerStarts, Heeds
    <3>2. runner' = "callback"
      BY <1>7, <2>3, <3>1 DEF HandlerStarts
    <3> QED BY <1>4, <3>2
  <2>4. CASE stop \/ join \/ Destroy \/ RunReturns
    BY <1>1, <1>7, <2>4 DEF stop, join, Destroy, RunReturns, FinishedAfterStop, IInv
  <2>5. CASE (\E n \in Lengths : buffer_legth(n)) \/ (\E d \in Datagrams : Arrive(d)) \/ UNCHANGED vars
    <3>1. UNCHANGED <<outstanding, completed, runner, receives, stopped>>
      BY <2>5 DEF buffer_legth, Arrive, vars
    <3> QED BY <1>7, <3>1 DEF Operations
  <2> QED BY <2>1, <2>2, <2>3, <2>4, <2>5 DEF Next
<1> QED BY <1>1, <1>5, <1>6, <1>7

LEMMA Progress == Spec => []PInv
<1>1. Init => PInv
  BY InitHolds, InStepInit DEF PInv
<1>2. PInv /\ [Next]_vars => PInv'
  BY Inductive, InStepStep DEF PInv
<1> QED BY <1>1, <1>2, PTL DEF Spec

\* Multicast_Receiver.cpp:198: run() returns once stop() was called, whatever is
\* queued and in flight; the callback that is running is finished first.
THEOREM StopEndsThreadHolds == FairSpec /\ ThreadGoesOn => StopEndsThread
<1> DEFINE Stopped == stopped
           Calling == stopped /\ runner = "callback"
           Running == stopped /\ runner = "running"
           Left == runner \notin {"running", "callback"}
<1>1. Stopped => Calling \/ Running \/ Left
  OBVIOUS
<1>2. PInv /\ Calling /\ [Next]_vars => Calling' \/ Running' \/ Left'
  BY StaysStopped DEF PInv
<1>3. PInv /\ Running /\ [Next]_vars => Running' \/ Left'
  <2> SUFFICES ASSUME PInv, Running, [Next]_vars PROVE Running' \/ Left'
    OBVIOUS
  <2>1. stopped'
    BY StaysStopped DEF PInv
  <2> QED BY <2>1 DEF Next, vars, buffer_legth, receive, async_receive, Arrive,
     ReceiveCompletes, ReceiveFails, HandlerStarts, HandlerEnds, RunReturns, stop, join, Destroy
<1>4. Calling /\ <<Thread /\ UNCHANGED setup>>_vars => ~Calling'
  BY DEF Thread, HandlerStarts, HandlerEnds, AfterHandler, RunReturns
<1>5. Running /\ <<Thread /\ UNCHANGED setup>>_vars => Left'
  BY DEF Thread, HandlerStarts, HandlerEnds, RunReturns
<1>6. Calling \/ Running => ThreadReady
  BY DEF ThreadReady
<1> HIDE DEF Stopped, Calling, Running, Left
<1>7. FairSpec /\ ThreadGoesOn => (Stopped ~> Left)
  BY <1>1, <1>2, <1>3, <1>4, <1>5, <1>6, Progress, PTL DEF Spec, FairSpec, ThreadGoesOn
<1> QED BY <1>7, PTL DEF StopEndsThread, Stopped, Left

\* A thread in the background that nobody has stopped waits for a datagram, has
\* one completed, or is in the callback; and what it waits for is the next.
LEMMA InBackground ==
  ASSUME PInv, ~blocking, receives > 0, ~stopped
  PROVE  /\ alive
         /\ \/ outstanding > 0 /\ completed = <<>> /\ runner = "running"
            \/ outstanding = 0 /\ completed # <<>> /\ runner = "running"
            \/ outstanding = 0 /\ completed = <<>> /\ runner = "callback"
         /\ outstanding > 0 => taken = Len(calls)
<1>1. /\ alive /\ Operations > 0 /\ runner \in {"running", "callback"}
  BY DEF PInv, InStep, IInv, TypeOK, FinishedAfterStop
<1>2. /\ outstanding \in Nat /\ Len(completed) \in Nat /\ Len(<<>>) = 0
  BY Counting DEF PInv, IInv
<1>3. \/ outstanding > 0 \/ completed # <<>> \/ runner = "callback"
  BY <1>1, <1>2 DEF Operations
<1>4. /\ runner = "callback" => outstanding = 0 /\ completed = <<>>
      /\ completed # <<>> => outstanding = 0
      /\ outstanding > 0 => completed = <<>>
  BY OneInHand DEF PInv, Heeds
<1>5. outstanding > 0 => taken = Len(calls)
  BY DEF PInv, IInv, Background, NextInHand
<1> QED BY <1>1, <1>2, <1>3, <1>4, <1>5

\* A call of the callback is recorded, and nothing else touches the calls.
LEMMA CallsGrow ==
  ASSUME PInv, [Next]_vars
  PROVE  /\ HandlerEnds => Len(calls') = Len(calls) + 1
         /\ ~HandlerEnds => calls' = calls
         /\ Len(arrived') >= Len(arrived) /\ receives' >= receives
<1>1. /\ arrived \in Seq(Datagrams) /\ Len(arrived) \in Nat /\ receives \in Nat
      /\ calls \in Seq([source : 1..taken, stream : Seq(Int)])
  BY ReceiverAssumption, LenProperties DEF PInv, IInv, TypeOK
<1>2. HandlerEnds => Len(calls') = Len(calls) + 1
  <2> SUFFICES ASSUME HandlerEnds PROVE Len(calls') = Len(calls) + 1
    OBVIOUS
  <2>1. UNCHANGED setup
    BY DEF Next, vars, HandlerEnds
  <2> QED BY <2>1, HandlerEndsEffect DEF PInv
<1>3. ~HandlerEnds => calls' = calls
  BY DEF Next, vars, buffer_legth, receive, async_receive, Arrive, ReceiveCompletes,
     ReceiveFails, HandlerStarts, RunReturns, stop, join, Destroy
<1>4. Len(arrived') >= Len(arrived)
  <2>1. ASSUME NEW d \in Datagrams, Arrive(d) PROVE Len(arrived') = Len(arrived) + 1
    BY <1>1, <2>1, AppendProperties DEF Arrive
  <2>2. (\E d \in Datagrams : Arrive(d)) \/ arrived' = arrived
    BY DEF Next, vars, buffer_legth, receive, async_receive, ReceiveCompletes,
       ReceiveFails, HandlerStarts, HandlerEnds, RunReturns, stop, join, Destroy
  <2> QED BY <1>1, <2>1, <2>2
<1>5. receives' >= receives
  BY <1>1 DEF Next, vars, buffer_legth, receive, async_receive, Arrive, ReceiveCompletes,
     ReceiveFails, HandlerStarts, HandlerEnds, RunReturns, stop, join, Destroy
<1> QED BY <1>2, <1>3, <1>4, <1>5

\* Multicast_Receiver.cpp:149: a receiver whose setup returned no error and that
\* was started hears the next datagram that arrives; the chain of receives ends
\* only with stop(), or with a failure that stops the context.
THEOREM NeverDeafHolds == FairSpec /\ ThreadGoesOn /\ NetworkDelivers => NeverDeaf
<1> SUFFICES ASSUME NEW n \in 0..(MaxArrivals - 1)
             PROVE  FairSpec /\ ThreadGoesOn /\ NetworkDelivers =>
                      ((is_valid /\ receives > 0 /\ ~blocking /\ Len(calls) = n
                          /\ Len(arrived) > n)
                         ~> (Len(calls) > n \/ stopped))
  BY DEF NeverDeaf
<1> DEFINE Started == is_valid /\ receives > 0 /\ ~blocking /\ Len(calls) = n /\ Len(arrived) > n
           HeardIt == Len(calls) > n \/ stopped
           Calm == Started /\ ~stopped
           Waiting == Calm /\ outstanding > 0
           Queued == Calm /\ completed # <<>>
           Calling == Calm /\ runner = "callback"
<1>0. n \in Nat
  BY ReceiverAssumption
<1>1. PInv /\ Started => Waiting \/ Queued \/ Calling \/ HeardIt
  BY InBackground
<1> DEFINE Inside == PInv /\ ~blocking /\ receives > 0 /\ ~stopped =>
                       outstanding > 0 \/ completed # <<>> \/ runner = "callback"
<1>a. Inside
  BY InBackground
<1>b. Inside'
  BY <1>a, PTL
<1>2. PInv /\ PInv' /\ Calm /\ [Next]_vars => Calm' \/ HeardIt'
  <2> SUFFICES ASSUME PInv, PInv', Calm, [Next]_vars, ~stopped' PROVE Calm' \/ HeardIt'
    OBVIOUS
  <2>1. is_valid' /\ ~blocking'
    BY StaysStopped DEF PInv, is_valid
  <2>2. /\ HandlerEnds => Len(calls') = Len(calls) + 1
        /\ ~HandlerEnds => calls' = calls
        /\ Len(arrived') >= Len(arrived) /\ receives' >= receives
    BY CallsGrow
  <2>3. /\ Len(arrived) \in Nat /\ Len(arrived') \in Nat /\ receives \in Nat /\ receives' \in Nat
    BY ReceiverAssumption, LenProperties DEF PInv, IInv, TypeOK
  <2> QED BY <1>0, <2>1, <2>2, <2>3
<1>3. PInv /\ PInv' /\ Waiting /\ [Next]_vars => Waiting' \/ Queued' \/ HeardIt'
  <2> SUFFICES ASSUME PInv, PInv', Waiting, [Next]_vars, ~HeardIt'
               PROVE  Waiting' \/ Queued'
    OBVIOUS
  <2>1. Calm'
    BY <1>2
  <2>2. runner = "running" /\ completed = <<>>
    BY OneInHand, InBackground DEF PInv, Heeds
  <2>3. runner' # "callback"
    BY <2>2 DEF Next, vars, buffer_legth, receive, async_receive, Arrive,
       ReceiveCompletes, ReceiveFails, HandlerStarts, HandlerEnds, RunReturns, stop, join, Destroy
  <2>4. outstanding' > 0 \/ completed' # <<>> \/ runner' = "callback"
    BY <1>b, <2>1
  <2> QED BY <2>1, <2>3, <2>4
<1>4. PInv /\ PInv' /\ Queued /\ [Next]_vars => Queued' \/ Calling' \/ HeardIt'
  <2> SUFFICES ASSUME PInv, PInv', Queued, [Next]_vars, ~HeardIt'
               PROVE  Queued' \/ Calling'
    OBVIOUS
  <2>1. Calm'
    BY <1>2
  <2>2. runner = "running" /\ outstanding = 0 /\ outstanding \in Nat
    BY InBackground
  <2>3. outstanding' = 0 
    BY <2>2 DEF Next, vars, buffer_legth, receive, async_receive, Arrive,
       ReceiveCompletes, ReceiveFails, HandlerStarts, HandlerEnds, RunReturns, stop, join, Destroy
  <2>4. outstanding' > 0 \/ completed' # <<>> \/ runner' = "callback"
    BY <1>b, <2>1
  <2> QED BY <2>1, <2>3, <2>4
<1>5. PInv /\ PInv' /\ Calling /\ [Next]_vars => Calling' \/ HeardIt'
  <2> SUFFICES ASSUME PInv, PInv', Calling, [Next]_vars, ~HeardIt'
               PROVE  Calling'
    OBVIOUS
  <2>1. Calm' /\ ~HandlerEnds
    BY <1>0, <1>2, CallsGrow
  <2> QED BY <2>1 DEF Next, vars, buffer_legth, receive, async_receive, Arrive,
       ReceiveCompletes, ReceiveFails, HandlerStarts, RunReturns, stop, join, Destroy
<1>6. PInv /\ PInv' /\ Waiting /\ <<ReceiveCompletes /\ UNCHANGED setup>>_vars => ~Waiting'
  <2> SUFFICES ASSUME PInv, Waiting, ReceiveCompletes PROVE outstanding' = 0
    OBVIOUS
  <2>1. outstanding \in Nat /\ outstanding <= 1
    BY OneInHand, Counting DEF PInv, IInv, Heeds
  <2> QED BY <2>1 DEF ReceiveCompletes
<1>7. PInv /\ PInv' /\ Queued /\ <<Thread /\ UNCHANGED setup>>_vars => ~Queued'
  <2> SUFFICES ASSUME PInv, Queued, Thread PROVE completed' = <<>>
    OBVIOUS
  <2>1. runner = "running" /\ Tail(completed) = <<>>
    BY InBackground, OneInHand DEF PInv, Heeds
  <2> QED BY <2>1 DEF Thread, HandlerStarts, HandlerEnds, RunReturns
<1>8. Calling /\ <<Thread /\ UNCHANGED setup>>_vars => ~Calling'
  BY DEF Thread, HandlerStarts, HandlerEnds, AfterHandler, RunReturns
<1>9. /\ PInv /\ Waiting => ReceiveReady
      /\ PInv /\ (Queued \/ Calling) => ThreadReady
  BY InBackground DEF ReceiveReady, ThreadReady, PInv, InStep
<1> HIDE DEF Started, HeardIt, Waiting, Queued, Calling
<1>10. FairSpec /\ ThreadGoesOn /\ NetworkDelivers => (Started ~> HeardIt)
  BY <1>1, <1>3, <1>4, <1>5, <1>6, <1>7, <1>8, <1>9, Progress, PTL
     DEF Spec, FairSpec, ThreadGoesOn, NetworkDelivers
<1> QED BY <1>10, PTL DEF Started, HeardIt
=============================================================================

