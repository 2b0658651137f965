----------------------- MODULE Multicast_Sender_proofs -----------------------
(***************************************************************************)
(* The safety invariants of the sender hold for every limit on its         *)
(* datagrams and on the calls made of it.                                  *)
(*                                                                         *)
(* Why a context that holds handlers may not stop for want of work: the    *)
(* handler of a wait that was cancelled starts nothing, so the last        *)
(* handler could be one of those.  It never is, because a wait is          *)
(* cancelled only by the wait that takes its place (ChainLives).           *)
(*                                                                         *)
(* Why it goes on: a chain in the background has one operation at a time,  *)
(* a handler that is ready or a wait that time ends, and each leads to the *)
(* next until a datagram is refused or stop() is called.                   *)
(***************************************************************************)
EXTENDS Multicast_Sender, SenderImplementation_proofs

\* The operations from which the chain goes on, and not just ends: all but the
\* handlers of cancelled waits.
Live(s) == s.ready["sent"] + s.ready["failed"] + s.ready["due"] + s.armed

ChainLives == (calls > 0 /\ failures = 0) => Live(sender) > 0

IsPrefix(a, b) == Len(a) <= Len(b) /\ SubSeq(b, 1, Len(a)) = a

\* The last datagram that left is the front of the buffer.
BufferExtendsLast == emitted # <<>> => IsPrefix(emitted[Len(emitted)], sender.buffer)

IInv ==
  /\ TypeOK
  /\ ChainNeverForks
  /\ ChainLives
  /\ StopsForAReason
  /\ HasWork
  /\ DatagramsGrow
  /\ BufferExtendsLast

-----------------------------------------------------------------------------
(* What the operations of a sender do to the work its context has.         *)

LEMMA WorkIsNat ==
  ASSUME NEW T, NEW s \in Sender(T)
  PROVE  /\ Outstanding(s) \in Nat /\ Live(s) \in Nat
         /\ s.ready["aborted"] \in Nat
         /\ Outstanding(s) = Live(s) + s.ready["aborted"]
         /\ \A h \in Handlers : s.ready[h] > 0 => Outstanding(s) > 0
BY DEF Outstanding, Live, Sender, Handlers

LEMMA BroadcastWork ==
  ASSUME NEW T, NEW s \in Sender(T), NEW text \in Seq(T),
         NEW outcome \in {"sent", "failed"}
  PROVE  LET b == multicast_broadcast(s, text, outcome)
         IN /\ Outstanding(b) = Outstanding(s) + 1
            /\ Live(b) = Live(s) + 1
            /\ b.stopped = s.stopped
BY SMTT(30) DEF Outstanding, Live, Sender, Handlers, multicast_broadcast

LEMMA TimeoutWork ==
  ASSUME NEW T, NEW s \in Sender(T)
  PROVE  LET b == multicast_timeout(s)
         IN /\ Outstanding(b) = Outstanding(s) + 1
            /\ Live(b) > 0
            /\ b.stopped = s.stopped
BY DEF Outstanding, Live, Sender, Handlers, multicast_timeout

LEMMA TimerWork ==
  ASSUME NEW T, NEW s \in Sender(T), s.armed = 1
  PROVE  LET b == TimerExpires(s)
         IN /\ Outstanding(b) = Outstanding(s)
            /\ Live(b) = Live(s)
            /\ b.stopped = s.stopped
BY DEF Outstanding, Live, Sender, Handlers, TimerExpires

LEMMA TakenWork ==
  ASSUME NEW T, NEW s \in Sender(T), NEW h \in Handlers, s.ready[h] > 0
  PROVE  LET b == Taken(s, h)
         IN /\ Outstanding(b) = Outstanding(s) - 1
            /\ h = "aborted" => Live(b) = Live(s)
            /\ b.stopped = s.stopped
BY SMTT(30) DEF Outstanding, Live, Sender, Handlers, Taken

LEMMA SettleWork ==
  ASSUME NEW T, NEW s \in Sender(T)
  PROVE  /\ Outstanding(Settle(s)) = Outstanding(s)
         /\ Live(Settle(s)) = Live(s)
         /\ Settle(s).stopped = (s.stopped \/ Outstanding(s) = 0)
BY DEF Outstanding, Live, Sender, Handlers, Settle

\* A handler that goes on replaces itself; one that ends leaves one less.
LEMMA RunHandlerWork ==
  ASSUME NEW T, NEW s \in Sender(T), NEW h \in Handlers, s.ready[h] > 0,
         NEW text \in Seq(T), NEW outcome \in {"sent", "failed"}
  PROVE  LET b == RunHandler(s, h, text, outcome)
         IN /\ h \in {"sent", "due"} =>
                 Outstanding(b) = Outstanding(s) /\ Live(b) > 0
            /\ h \in {"failed", "aborted"} => Outstanding(b) = Outstanding(s) - 1
            /\ h = "aborted" => Live(b) = Live(s)
            /\ b.stopped = (s.stopped \/ Outstanding(b) = 0)
<1> DEFINE t == Taken(s, h)
<1>1. /\ t \in Sender(T) /\ t.stopped = s.stopped
      /\ Outstanding(t) = Outstanding(s) - 1
      /\ h = "aborted" => Live(t) = Live(s)
  BY TakenEffect, TakenWork
<1>2. Outstanding(t) \in Nat /\ Live(t) \in Nat /\ Outstanding(s) \in Nat
  BY <1>1, WorkIsNat
<1> HIDE DEF t
<1>3. CASE h = "sent"
  <2>1. RunHandler(s, h, text, outcome) = Settle(multicast_timeout(t))
    BY <1>3 DEF RunHandler, t
  <2>2. /\ multicast_timeout(t) \in Sender(T)
        /\ Outstanding(multicast_timeout(t)) = Outstanding(s)
        /\ Live(multicast_timeout(t)) > 0
        /\ multicast_timeout(t).stopped = s.stopped
    BY <1>1, <1>2, TimeoutEffect, TimeoutWork
  <2> QED BY <1>3, <2>1, <2>2, SettleWork
<1>4. CASE h = "due"
  <2>1. RunHandler(s, h, text, outcome) = Settle(multicast_broadcast(t, text, outcome))
    BY <1>4 DEF RunHandler, t
  <2>2. /\ multicast_broadcast(t, text, outcome) \in Sender(T)
        /\ Outstanding(multicast_broadcast(t, text, outcome)) = Outstanding(s)
        /\ Live(multicast_broadcast(t, text, outcome)) > 0
        /\ multicast_broadcast(t, text, outcome).stopped = s.stopped
    <3>1. multicast_broadcast(t, text, outcome) \in Sender(T)
      BY <1>1, BroadcastEffect DEF Handlers
    <3>2. /\ Outstanding(multicast_broadcast(t, text, outcome)) = Outstanding(t) + 1
          /\ Live(multicast_broadcast(t, text, outcome)) = Live(t) + 1
          /\ multicast_broadcast(t, text, outcome).stopped = t.stopped
      BY <1>1, BroadcastWork
    <3> QED BY <1>1, <1>2, <3>1, <3>2
  <2> QED BY <1>4, <2>1, <2>2, SettleWork
<1>5. CASE h \in {"failed", "aborted"}
  <2>1. RunHandler(s, h, text, outcome) = Settle(t)
    BY <1>5 DEF RunHandler, t
  <2> QED BY <1>1, <1>5, <2>1, SettleWork
<1> QED BY <1>3, <1>4, <1>5 DEF Handlers

-----------------------------------------------------------------------------
(* Prefixes.                                                               *)

LEMMA PrefixIsReflexive ==
  ASSUME NEW T, NEW a \in Seq(T)
  PROVE  IsPrefix(a, a)
BY DEF IsPrefix

LEMMA PrefixExtends ==
  ASSUME NEW T, NEW a \in Seq(T), NEW b \in Seq(T), NEW c \in Seq(T), IsPrefix(a, b)
  PROVE  IsPrefix(a, b \o c)
<1>1. b \o c \in Seq(T) /\ Len(b \o c) = Len(b) + Len(c)
  BY ConcatProperties
<1>2. \A i \in 1..Len(a) : (b \o c)[i] = b[i]
  BY ConcatProperties DEF IsPrefix
<1>3. SubSeq(b \o c, 1, Len(a)) = SubSeq(b, 1, Len(a))
  BY <1>1, <1>2 DEF IsPrefix
<1> QED BY <1>1, <1>3 DEF IsPrefix

\* What leaves next extends what left last.
LEMMA Grows ==
  ASSUME TypeOK, DatagramsGrow, BufferExtendsLast,
         NEW text \in Seq(1..MaxCalls), NEW outcome \in {"sent", "failed"},
         sender'.buffer = sender.buffer \o text, sender' \in Sender(1..MaxCalls),
         Emit(sender', outcome)
  PROVE  emitted' \in Seq(Seq(1..MaxCalls)) /\ DatagramsGrow' /\ BufferExtendsLast'
<1>1. sender.buffer \in Seq(1..MaxCalls) /\ sender'.buffer \in Seq(1..MaxCalls)
  BY DEF TypeOK, Sender
<1>2. emitted \in Seq(Seq(1..MaxCalls))
  BY DEF TypeOK
<1>3. emitted # <<>> => IsPrefix(emitted[Len(emitted)], sender'.buffer)
  <2>1. emitted # <<>> => emitted[Len(emitted)] \in Seq(1..MaxCalls)
    BY <1>2
  <2> QED BY <1>1, <2>1, PrefixExtends DEF BufferExtendsLast
<1>4. CASE outcome = "sent"
  <2>1. emitted' = Append(emitted, sender'.buffer)
    BY <1>4 DEF Emit
  <2>2. emitted' \in Seq(Seq(1..MaxCalls))
    BY <1>1, <1>2, <2>1
  <2>3. /\ Len(emitted') = Len(emitted) + 1
        /\ emitted'[Len(emitted) + 1] = sender'.buffer
        /\ \A i \in 1..Len(emitted) : emitted'[i] = emitted[i]
    BY <1>1, <1>2, <2>1
  <2>4. ASSUME NEW i \in 2..Len(emitted')
        PROVE  IsPrefix(emitted'[i - 1], emitted'[i])
    <3>1. CASE i = Len(emitted) + 1
      <4>1. emitted # <<>> /\ i - 1 = Len(emitted) /\ Len(emitted) \in 1..Len(emitted)
        BY <1>2, <3>1
      <4>2. emitted'[i - 1] = emitted[Len(emitted)]
        BY <2>3, <4>1
      <4> QED BY <1>3, <2>3, <3>1, <4>1, <4>2
    <3>2. CASE i # Len(emitted) + 1
      <4>1. i \in 2..Len(emitted) /\ i \in 1..Len(emitted) /\ i - 1 \in 1..Len(emitted)
        BY <1>2, <2>3, <3>2
      <4>2. emitted'[i] = emitted[i] /\ emitted'[i - 1] = emitted[i - 1]
        BY <2>3, <4>1
      <4>3. IsPrefix(emitted[i - 1], emitted[i])
        BY <4>1 DEF DatagramsGrow, IsPrefix
      <4> QED BY <4>2, <4>3
    <3> QED BY <3>1, <3>2
  <2>5. IsPrefix(sender'.buffer, sender'.buffer)
    BY <1>1, PrefixIsReflexive
  <2> QED BY <1>2, <2>2, <2>3, <2>4, <2>5 DEF DatagramsGrow, IsPrefix, BufferExtendsLast
<1>5. CASE outcome = "failed"
  <2>1. emitted' = emitted
    BY <1>5 DEF Emit
  <2> QED BY <1>2, <1>3, <2>1 DEF DatagramsGrow, BufferExtendsLast
<1> QED BY <1>4, <1>5

-----------------------------------------------------------------------------
(* The invariant.                                                          *)

LEMMA OutcomesOfNetwork == \A text : OutcomesOn(text) \subseteq {"sent", "failed"}
BY OutcomesAreHandlers DEF OutcomesOn

LEMMA InitInvariant == Init => IInv
<1> SUFFICES ASSUME Init PROVE IInv
  OBVIOUS
<1>1. sender \in Sender(1..MaxCalls)
  BY NewSenderType DEF Init
<1>2. system_status \in Error /\ socket \in {"open", "closed"}
  BY DEF Init, multicast_setup, Error, Success, PFC_NONE, PFC_IP_PARSE_ERROR
<1>3. TypeOK
  <2>1. blocking \in BOOLEAN /\ stopping \in BOOLEAN /\ alive \in BOOLEAN
    BY DEF Init
  <2>2. /\ thread \in {"none", "running", "finished", "joined"}
        /\ calls \in 0..MaxCalls /\ failures \in Nat
    BY UsageAssumption DEF Init
  <2>3. emitted \in Seq(Seq(1..MaxCalls))
    BY DEF Init
  <2> QED BY <1>1, <1>2, <2>1, <2>2, <2>3 DEF TypeOK
<1> QED
  BY <1>3 DEF Init, IInv, ChainNeverForks, ChainLives, StopsForAReason, HasWork,
     DatagramsGrow, BufferExtendsLast, NewSender, Outstanding, Handlers

LEMMA CallStep == IInv /\ (send \/ async_send) /\ UNCHANGED setup => IInv'
<1> SUFFICES ASSUME IInv, Call, UNCHANGED setup PROVE IInv'
  BY DEF send, async_send
<1>1. /\ sender \in Sender(1..MaxCalls) /\ calls \in Nat /\ failures \in Nat
      /\ calls' = calls + 1 /\ calls' \in 1..MaxCalls
      /\ UNCHANGED <<failures, stopping>>
  BY UsageAssumption DEF IInv, TypeOK, Call
<1>2. PICK outcome \in {"sent", "failed"} :
        /\ sender' = multicast_broadcast(sender, <<calls'>>, outcome)
        /\ Emit(sender', outcome)
  BY OutcomesOfNetwork DEF Call
<1>3. <<calls'>> \in Seq(1..MaxCalls)
  BY <1>1
<1>4. /\ sender' \in Sender(1..MaxCalls)
      /\ sender'.buffer = sender.buffer \o <<calls'>>
  BY <1>1, <1>2, <1>3, BroadcastEffect DEF Handlers
<1>5. /\ Outstanding(sender') = Outstanding(sender) + 1
      /\ Live(sender') = Live(sender) + 1
      /\ sender'.stopped = sender.stopped
  BY <1>1, <1>2, <1>3, BroadcastWork
<1>6. Outstanding(sender) \in Nat /\ Live(sender) \in Nat
  BY <1>1, WorkIsNat
<1>7. emitted' \in Seq(Seq(1..MaxCalls)) /\ DatagramsGrow' /\ BufferExtendsLast'
  BY <1>2, <1>3, <1>4, Grows DEF IInv
<1>8. TypeOK'
  BY <1>1, <1>4, <1>7 DEF IInv, TypeOK, Call, setup
<1>9. ChainNeverForks' /\ ChainLives' /\ StopsForAReason' /\ HasWork'
  BY <1>1, <1>5, <1>6
  DEF IInv, ChainNeverForks, ChainLives, StopsForAReason, HasWork
<1> QED BY <1>7, <1>8, <1>9 DEF IInv

\* What a handler does to the record and to what was sent.
LEMMA HandleEffect ==
  ASSUME IInv, NEW h \in Handlers, Handle(h)
  PROVE  /\ sender.ready[h] > 0 /\ ~sender.stopped
         /\ \E text \in Seq(1..MaxCalls), outcome \in {"sent", "failed"} :
              sender' = RunHandler(sender, h, text, outcome)
         /\ sender' \in Sender(1..MaxCalls)
         /\ emitted' \in Seq(Seq(1..MaxCalls)) /\ DatagramsGrow' /\ BufferExtendsLast'
<1>1. sender \in Sender(1..MaxCalls) /\ calls \in 0..MaxCalls /\ sender.ready[h] > 0
  BY DEF IInv, TypeOK, Handle
<1>2. calls # 0
  <2>1. Outstanding(sender) > 0 /\ Outstanding(sender) \in Nat
    BY <1>1, WorkIsNat
  <2> QED BY <2>1 DEF IInv, ChainNeverForks
<1>3. <<calls>> \in Seq(1..MaxCalls)
  BY <1>1, <1>2
<1>4. CASE Broadcasts(h)
  <2>1. PICK outcome \in {"sent", "failed"} :
          /\ sender' = RunHandler(sender, h, <<calls>>, outcome)
          /\ Emit(sender', outcome)
    <3>1. \E outcome \in OutcomesOn(<<calls>>) :
             /\ sender' = RunHandler(sender, h, <<calls>>, outcome)
             /\ Emit(sender', outcome)
      BY <1>4, Zenon DEF Handle
    <3> QED BY <3>1, OutcomesOfNetwork
  <2>2. /\ sender' \in Sender(1..MaxCalls)
        /\ sender'.buffer = sender.buffer \o <<calls>>
    <3>1. outcome \in Handlers
      BY DEF Handlers
    <3> DEFINE Written == 1..MaxCalls
    <3>2. PICK text : text = <<calls>> /\ text \in Seq(Written)
      BY <1>3
    <3>3. sender \in Sender(Written)
      BY <1>1
    <3> HIDE DEF Written
    <3>4. text \in Seq(Written)
      BY <3>2
    <3>5. RunHandler(sender, h, text, outcome) \in Sender(Written)
      BY <1>1, <3>1, <3>2, <3>3, RunHandlerEffect
    <3>6. RunHandler(sender, h, text, outcome).buffer = sender.buffer \o text
      BY ONLY <1>1, <1>4, <3>1, <3>4, <3>3, RunHandlerEffect
    <3> QED BY <1>4, <2>1, <3>2, <3>5, <3>6 DEF Written
  <2>3. emitted' \in Seq(Seq(1..MaxCalls)) /\ DatagramsGrow' /\ BufferExtendsLast'
    BY <1>3, <2>1, <2>2, Grows DEF IInv
  <2> QED BY <1>3, <2>1, <2>2, <2>3 DEF Handle
<1>5. CASE ~Broadcasts(h)
  <2>1. sender' = RunHandler(sender, h, <<>>, "sent") /\ emitted' = emitted
    BY <1>5 DEF Handle
  <2>2. /\ sender' \in Sender(1..MaxCalls)
        /\ sender'.buffer = sender.buffer
    BY <1>1, <2>1, NothingWritten DEF Handlers
  <2>3. emitted' \in Seq(Seq(1..MaxCalls)) /\ DatagramsGrow' /\ BufferExtendsLast'
    BY <2>1, <2>2 DEF IInv, TypeOK, DatagramsGrow, BufferExtendsLast, IsPrefix
  <2>4. <<>> \in Seq(1..MaxCalls)
    OBVIOUS
  <2> QED BY <2>1, <2>2, <2>3, <2>4 DEF Handle
<1> QED BY <1>4, <1>5

LEMMA HandleStep ==
  ASSUME IInv, NEW h \in Handlers, Handle(h), UNCHANGED setup
  PROVE  IInv'
<1>1. /\ sender \in Sender(1..MaxCalls) /\ calls \in Nat /\ failures \in Nat
      /\ failures' = IF h = "failed" THEN failures + 1 ELSE failures
      /\ UNCHANGED <<calls, stopping, alive>>
  BY UsageAssumption DEF IInv, TypeOK, Handle
<1>2. /\ sender.ready[h] > 0 /\ ~sender.stopped
      /\ sender' \in Sender(1..MaxCalls)
      /\ emitted' \in Seq(Seq(1..MaxCalls)) /\ DatagramsGrow' /\ BufferExtendsLast'
  BY HandleEffect
<1>3. PICK text \in Seq(1..MaxCalls), outcome \in {"sent", "failed"} :
        sender' = RunHandler(sender, h, text, outcome)
  BY HandleEffect
<1>4. /\ h \in {"sent", "due"} =>
           Outstanding(sender') = Outstanding(sender) /\ Live(sender') > 0
      /\ h \in {"failed", "aborted"} => Outstanding(sender') = Outstanding(sender) - 1
      /\ h = "aborted" => Live(sender') = Live(sender)
      /\ sender'.stopped = (sender.stopped \/ Outstanding(sender') = 0)
  BY <1>1, <1>2, <1>3, RunHandlerWork
<1>5. /\ Outstanding(sender) \in Nat /\ Live(sender) \in Nat /\ Outstanding(sender) > 0
      /\ Outstanding(sender') \in Nat /\ Live(sender') \in Nat
      /\ Outstanding(sender') >= Live(sender')
  BY <1>1, <1>2, WorkIsNat
<1>6. h \in {"sent", "due"} \/ h = "failed" \/ h = "aborted"
  BY DEF Handlers
<1>7. TypeOK'
  BY <1>1, <1>2 DEF IInv, TypeOK, Handle, AfterHandler, setup
<1>8. ChainNeverForks'
  BY <1>1, <1>4, <1>5, <1>6 DEF IInv, ChainNeverForks
<1>9. ChainLives'
  BY <1>1, <1>4, <1>5, <1>6 DEF IInv, ChainLives
<1>10. sender'.stopped <=> Outstanding(sender') = 0
  BY <1>2, <1>4, Zenon
<1>11. HasWork'
  BY <1>5, <1>10 DEF HasWork
<1>12. StopsForAReason'
  <2> SUFFICES ASSUME Outstanding(sender') = 0, failures' = 0 PROVE FALSE
    BY <1>1, <1>2, <1>10 DEF IInv, TypeOK, StopsForAReason
  <2>1. h = "aborted" /\ failures = 0
    BY <1>1, <1>4, <1>5, <1>6
  <2>2. calls > 0
    BY <1>1, <1>5 DEF IInv, ChainNeverForks
  <2>3. Live(sender) > 0
    BY <2>1, <2>2 DEF IInv, ChainLives
  <2> QED BY <1>4, <1>5, <2>1, <2>3
<1> QED BY <1>2, <1>7, <1>8, <1>9, <1>11, <1>12 DEF IInv

LEMMA TimerStep == IInv /\ Timer /\ UNCHANGED setup => IInv'
<1> SUFFICES ASSUME IInv, Timer, UNCHANGED setup PROVE IInv'
  OBVIOUS
<1>1. /\ sender \in Sender(1..MaxCalls) /\ sender.armed = 1
      /\ sender' = TimerExpires(sender)
      /\ UNCHANGED <<thread, calls, emitted, failures, stopping, alive>>
  BY DEF IInv, TypeOK, Timer
<1>2. sender' \in Sender(1..MaxCalls) /\ sender'.buffer = sender.buffer
  BY <1>1, TimerEffect
<1>3. /\ Outstanding(sender') = Outstanding(sender)
      /\ Live(sender') = Live(sender)
      /\ sender'.stopped = sender.stopped
  BY <1>1, TimerWork
<1>4. TypeOK'
  BY <1>1, <1>2 DEF IInv, TypeOK, setup
<1>5. ChainNeverForks' /\ ChainLives' /\ StopsForAReason' /\ HasWork'
  BY <1>1, <1>3 DEF IInv, ChainNeverForks, ChainLives, StopsForAReason, HasWork
<1>6. DatagramsGrow' /\ BufferExtendsLast'
  BY <1>1, <1>2 DEF IInv, DatagramsGrow, BufferExtendsLast, IsPrefix
<1> QED BY <1>4, <1>5, <1>6 DEF IInv

LEMMA OwnerStep == IInv /\ (RunReturns \/ stop \/ join \/ Destroy) /\ UNCHANGED setup => IInv'
<1> SUFFICES ASSUME IInv, RunReturns \/ stop \/ join \/ Destroy, UNCHANGED setup
             PROVE  IInv'
  OBVIOUS
<1>1. CASE stop
  <2>1. sender \in Sender(1..MaxCalls) /\ sender' = [sender EXCEPT !.stopped = TRUE]
    BY <1>1 DEF IInv, TypeOK, stop
  <2>2. /\ sender' \in Sender(1..MaxCalls) /\ sender'.buffer = sender.buffer
        /\ sender'.stopped /\ Outstanding(sender') = Outstanding(sender)
        /\ Live(sender') = Live(sender)
    BY <2>1 DEF Sender, Outstanding, Live
  <2>3. TypeOK'
    BY <1>1, <2>2 DEF IInv, TypeOK, stop, setup
  <2>4. ChainNeverForks' /\ ChainLives' /\ StopsForAReason' /\ HasWork'
    BY <1>1, <2>2 DEF IInv, ChainNeverForks, ChainLives, StopsForAReason, HasWork, stop
  <2>5. DatagramsGrow' /\ BufferExtendsLast'
    BY <1>1, <2>2 DEF IInv, DatagramsGrow, BufferExtendsLast, IsPrefix, stop
  <2> QED BY <2>3, <2>4, <2>5 DEF IInv
<1>2. CASE RunReturns \/ join \/ Destroy
  <2>1. UNCHANGED <<sender, calls, emitted, failures, stopping>>
    BY <1>2 DEF RunReturns, join, Destroy
  <2>2. TypeOK'
    BY <1>2, <2>1 DEF IInv, TypeOK, setup, RunReturns, Returned, join, Destroy
  <2>3. ChainNeverForks' /\ ChainLives' /\ StopsForAReason' /\ HasWork'
    BY <2>1 DEF IInv, ChainNeverForks, ChainLives, StopsForAReason, HasWork
  <2>4. DatagramsGrow' /\ BufferExtendsLast'
    BY <2>1 DEF IInv, DatagramsGrow, BufferExtendsLast
  <2> QED BY <2>2, <2>3, <2>4 DEF IInv
<1> QED BY <1>1, <1>2

LEMMA Inductive == IInv /\ [Next]_vars => IInv'
<1> SUFFICES ASSUME IInv, [Next]_vars PROVE IInv'
  OBVIOUS
<1>1. CASE Next
  BY <1>1, CallStep, HandleStep, TimerStep, OwnerStep DEF Next
<1>2. CASE UNCHANGED vars
  <2>1. TypeOK'
    BY <1>2 DEF IInv, TypeOK, vars, setup
  <2>2. ChainNeverForks' /\ ChainLives' /\ StopsForAReason' /\ HasWork'
    BY <1>2 DEF IInv, ChainNeverForks, ChainLives, StopsForAReason, HasWork, vars
  <2>3. DatagramsGrow' /\ BufferExtendsLast'
    BY <1>2 DEF IInv, DatagramsGrow, BufferExtendsLast, vars
  <2> QED BY <2>1, <2>2, <2>3 DEF IInv
<1> QED BY <1>1, <1>2

\* The strengthened invariant of the sender.
THEOREM Invariance == Spec => []IInv
<1>1. Init => IInv
  BY InitInvariant
<1>2. IInv /\ [Next]_vars => IInv'
  BY Inductive
<1> QED BY <1>1, <1>2, PTL DEF Spec

\* The sender's state stays of its type; a handler broadcasts only in the name of
\* a call that was made.
THEOREM TypeCorrect == Spec => []TypeOK
<1>1. IInv => TypeOK
  BY DEF IInv
<1> QED BY <1>1, Invariance, PTL

\* Multicast_Sender.cpp:106: expires_after and async_wait never fork the chain,
\* whatever order the handlers of an io_context run in and however many calls of
\* send left theirs behind.
THEOREM ChainNeverForksHolds == Spec => []ChainNeverForks
<1>1. IInv => ChainNeverForks
  BY DEF IInv
<1> QED BY <1>1, Invariance, PTL

\* Multicast_Sender.cpp:98: a context stops only because of stop() or because a
\* datagram was refused: cancelled waits never are all that is left.
THEOREM StopsForAReasonHolds == Spec => []StopsForAReason
<1>1. IInv => StopsForAReason
  BY DEF IInv
<1> QED BY <1>1, Invariance, PTL

\* Multicast_Sender.cpp:148: run_one() never waits in a context that holds
\* nothing: after a call of send the context has work or has stopped.
THEOREM HasWorkHolds == Spec => []HasWork
<1>1. IInv => HasWork
  BY DEF IInv
<1> QED BY <1>1, Invariance, PTL

\* Multicast_Sender.cpp:95: each datagram begins with the one before it.
THEOREM DatagramsGrowHolds == Spec => []DatagramsGrow
<1>1. IInv => DatagramsGrow
  BY DEF IInv
<1> QED BY <1>1, Invariance, PTL

-----------------------------------------------------------------------------
(* Progress.  As no prover here expands ENABLED, the theorems below name    *)
(* for each fair action the condition under which its guards let it happen, *)
(* and ask that it then be enabled; TLC, which evaluates ENABLED, checks    *)
(* the same properties without.                                             *)

SomethingReady == sender.stopped \/ \E h \in Handlers : sender.ready[h] > 0

ThreadGoesOn ==
  [](thread = "running" /\ SomethingReady => ENABLED <<Thread /\ UNCHANGED setup>>_vars)

TimePasses ==
  [](alive /\ sender.armed = 1 => ENABLED <<Timer /\ UNCHANGED setup>>_vars)

\* How far the caller is with the sender, and that a chain that was started in
\* the background is the only one as long as its context runs.
InStep ==
  /\ stopping => sender.stopped
  /\ thread = "running" => alive /\ calls > 0
  /\ blocking => thread \in {"none", "running"}
  /\ ~blocking =>
       /\ calls = 0 <=> thread = "none"
       /\ thread \in {"finished", "joined"} => sender.stopped
       /\ ~sender.stopped => calls <= 1

PInv == IInv /\ InStep

LEMMA InStepInit == Init => InStep
BY DEF Init, InStep, NewSender

\* A context that has stopped stays so.
LEMMA StaysStopped ==
  ASSUME IInv, sender.stopped, [Next]_vars
  PROVE  sender'.stopped
<1>1. sender \in Sender(1..MaxCalls)
  BY DEF IInv, TypeOK
<1>2. CASE send \/ async_send
  BY <1>1, <1>2 DEF send, async_send, Call, multicast_broadcast, Sender
<1>3. CASE Timer \/ stop
  BY <1>1, <1>3 DEF Timer, TimerExpires, stop, Sender
<1>4. CASE UNCHANGED sender
  BY <1>4
<1> QED
  BY <1>2, <1>3, <1>4 DEF Next, Handle, RunReturns, join, Destroy, vars

\* A call broadcasts and leaves the context as it was.
LEMMA CallEffect ==
  ASSUME IInv, send \/ async_send
  PROVE  sender'.stopped = sender.stopped /\ calls' = calls + 1 /\ thread' = "running"
<1>1. sender \in Sender(1..MaxCalls)
  BY DEF IInv, TypeOK
<1> QED BY <1>1 DEF send, async_send, Call, multicast_broadcast, Sender

LEMMA InStepStep == IInv /\ InStep /\ [Next]_vars => InStep'
<1> SUFFICES ASSUME IInv, InStep, [Next]_vars PROVE InStep'
  OBVIOUS
<1> USE DEF InStep, setup
<1>1. /\ calls \in Nat /\ sender \in Sender(1..MaxCalls)
      /\ thread \in {"none", "running", "finished", "joined"}
      /\ blocking \in BOOLEAN
  BY UsageAssumption DEF IInv, TypeOK
<1>2. blocking' = blocking
  BY DEF Next, vars
<1>3. sender.stopped => sender'.stopped
  BY StaysStopped
<1>4. CASE send \/ async_send
  <2>1. /\ sender'.stopped = sender.stopped /\ calls' = calls + 1 /\ thread' = "running"
        /\ alive /\ alive' /\ stopping' = stopping
    BY <1>4, CallEffect DEF send, async_send, Call
  <2>2. ~blocking /\ ~sender.stopped => calls = 0
    BY <1>1, <1>4 DEF send, async_send
  <2>3. calls' > 0
    BY <1>1, <2>1
  <2> QED BY <1>1, <1>2, <1>3, <2>1, <2>2, <2>3
<1>5. CASE \E h \in Handlers : Handle(h)
  BY <1>1, <1>2, <1>3, <1>5 DEF Handle, AfterHandler
<1>6. CASE RunReturns
  BY <1>1, <1>2, <1>3, <1>6 DEF RunReturns, Returned
<1>7. CASE Timer
  <2>1. sender'.stopped = sender.stopped
    BY <1>1, <1>7, TimerWork DEF Timer
  <2> QED BY <1>1, <1>2, <1>7, <2>1 DEF Timer
<1>8. CASE stop
  BY <1>1, <1>2, <1>3, <1>8 DEF stop, Sender
<1>9. CASE join \/ Destroy
  BY <1>1, <1>2, <1>3, <1>9 DEF join, Destroy
<1>10. CASE UNCHANGED vars
  BY <1>1, <1>2, <1>3, <1>10 DEF vars
<1> QED BY <1>4, <1>5, <1>6, <1>7, <1>8, <1>9, <1>10 DEF Next

LEMMA Progress == Spec => []PInv
<1>1. Init => PInv
  BY InitInvariant, InStepInit DEF PInv
<1>2. PInv /\ [Next]_vars => PInv'
  BY Inductive, InStepStep DEF PInv
<1> QED BY <1>1, <1>2, PTL DEF Spec

\* Multicast_Sender.cpp:170: stop() makes the thread leave run(), and the owner
\* need not fear join() or the destructor.
THEOREM StopEndsThreadHolds == FairSpec /\ ThreadGoesOn => StopEndsThread
<1> DEFINE Running == sender.stopped /\ thread = "running"
           Left == thread # "running"
           Stopped == sender.stopped
<1>1. PInv /\ Running /\ [Next]_vars => Running' \/ Left'
  BY StaysStopped DEF PInv
<1>2. Running /\ <<Thread /\ UNCHANGED setup>>_vars => Left'
  BY DEF Thread, Handle, RunReturns, Returned
<1>3. Running => thread = "running" /\ SomethingReady
  BY DEF SomethingReady
<1>4. Stopped => Running \/ Left
  OBVIOUS
<1> HIDE DEF Running, Left, Stopped
<1>5. FairSpec /\ ThreadGoesOn => (Stopped ~> Left)
  BY <1>1, <1>2, <1>3, <1>4, Progress, PTL DEF Spec, FairSpec, ThreadGoesOn
<1> QED BY <1>5, PTL DEF StopEndsThread, Stopped, Left

\* A caller of send() waits for the timer at most once: when nothing is ready
\* in a context that holds work and has not stopped, a wait is pending.
LEMMA CallerWaits ==
  ASSUME PInv, thread = "running", ~SomethingReady
  PROVE  sender.armed = 1 /\ alive
<1>1. sender \in Sender(1..MaxCalls) /\ calls > 0 /\ alive /\ ~sender.stopped
  BY DEF PInv, IInv, InStep, TypeOK, SomethingReady
<1>2. Outstanding(sender) > 0
  BY <1>1 DEF PInv, IInv, HasWork
<1>3. \A h \in Handlers : sender.ready[h] = 0
  BY <1>1 DEF SomethingReady, Sender
<1> QED BY <1>1, <1>2, <1>3 DEF Outstanding, Sender, Handlers

\* What is ready stays ready until the thread takes it.
LEMMA StaysReady ==
  ASSUME PInv, thread = "running", SomethingReady, blocking, [Next]_vars
  PROVE  thread' = "none" \/ (thread' = "running" /\ SomethingReady')
<1>1. sender \in Sender(1..MaxCalls)
  BY DEF PInv, IInv, TypeOK
<1>2. CASE sender.stopped
  <2>1. sender'.stopped
    BY <1>2, StaysStopped DEF PInv
  <2> QED
    BY <1>2, <2>1 DEF Next, vars, send, async_send, Handle, RunReturns, Returned, Timer, stop,
                     join, Destroy, SomethingReady
<1>3. CASE ~sender.stopped
  <2>1. PICK h \in Handlers : sender.ready[h] > 0
    BY <1>3 DEF SomethingReady
  <2>2. CASE Timer
    <3>1. sender'.ready[h] > 0
      BY <1>1, <2>1, <2>2 DEF Timer, TimerExpires, Sender, Handlers
    <3> QED BY <2>2, <3>1 DEF Timer, SomethingReady
  <2>3. CASE stop
    BY <1>1, <2>3 DEF stop, Sender, SomethingReady
  <2>4. CASE UNCHANGED <<thread, sender>>
    BY <2>4 DEF SomethingReady
  <2>5. CASE (\E k \in Handlers : Handle(k)) \/ RunReturns
    BY <2>5 DEF Handle, AfterHandler, RunReturns, Returned
  <2> QED
    BY <2>2, <2>3, <2>4, <2>5 DEF Next, vars, send, async_send, join, Destroy
<1> QED BY <1>2, <1>3

\* Multicast_Sender.cpp:143: send() returns, even when all it finds is a timer
\* an earlier call left behind: run_one() finds a handler, a pending wait or a
\* context that has stopped.
THEOREM SendReturnsHolds == FairSpec /\ ThreadGoesOn /\ TimePasses => SendReturns
<1> DEFINE Inside == blocking /\ thread = "running"
           Idle == Inside /\ ~SomethingReady
           Ready == Inside /\ SomethingReady
           Out == thread = "none"
<1>1. Inside => Idle \/ Ready
  OBVIOUS
<1>2. PInv /\ Inside /\ [Next]_vars => Inside' \/ Out'
  BY DEF Next, vars, setup, send, async_send, Handle, AfterHandler, RunReturns, Returned,
         Timer, stop, join, Destroy
<1>3. PInv /\ Ready /\ [Next]_vars => Ready' \/ Out'
  <2> SUFFICES ASSUME PInv, Ready, [Next]_vars PROVE Ready' \/ Out'
    OBVIOUS
  <2>1. blocking' = blocking
    BY DEF Next, vars, setup
  <2> QED BY <2>1, StaysReady
<1>4. PInv /\ Idle /\ <<Timer /\ UNCHANGED setup>>_vars => Ready'
  <2> SUFFICES ASSUME PInv, Idle, Timer, UNCHANGED setup PROVE Ready'
    OBVIOUS
  <2>1. sender \in Sender(1..MaxCalls)
    BY DEF PInv, IInv, TypeOK
  <2>2. sender'.ready["due"] > 0 /\ "due" \in Handlers
    BY <2>1 DEF Timer, TimerExpires, Sender, Handlers
  <2> QED BY <2>2 DEF Timer, SomethingReady, setup
<1>5. Ready /\ <<Thread /\ UNCHANGED setup>>_vars => Out'
  BY DEF Thread, Handle, AfterHandler, RunReturns, Returned
<1>6. PInv /\ Idle => alive /\ sender.armed = 1
  BY CallerWaits
<1>7. Ready => thread = "running" /\ SomethingReady
  OBVIOUS
<1> HIDE DEF Inside, Idle, Ready, Out
<1>8. FairSpec /\ ThreadGoesOn /\ TimePasses => (Inside ~> Out)
  BY <1>1, <1>2, <1>3, <1>4, <1>5, <1>6, <1>7, Progress, PTL
     DEF Spec, FairSpec, ThreadGoesOn, TimePasses
<1> QED BY <1>8, PTL DEF SendReturns, Inside, Out

\* The chain in the background, before anybody stops it and while no datagram
\* is refused: it is one operation, and one of these four.
Undisturbed == calls > 0 /\ ~blocking /\ ~stopping /\ failures = 0

IsSent   == sender.ready["sent"] > 0
IsFailed == sender.ready["failed"] > 0
IsDue    == sender.ready["due"] > 0
IsArmed  == sender.armed = 1

LEMMA OneOperation ==
  ASSUME PInv, Undisturbed
  PROVE  /\ thread = "running" /\ alive /\ ~sender.stopped
         /\ sender.ready["aborted"] = 0
         /\ \/ IsSent /\ ~IsFailed /\ ~IsDue /\ ~IsArmed
            \/ ~IsSent /\ IsFailed /\ ~IsDue /\ ~IsArmed
            \/ ~IsSent /\ ~IsFailed /\ IsDue /\ ~IsArmed
            \/ ~IsSent /\ ~IsFailed /\ ~IsDue /\ IsArmed
<1>1. sender \in Sender(1..MaxCalls) /\ calls \in Nat
  BY UsageAssumption DEF PInv, IInv, TypeOK
<1>2. ~sender.stopped
  BY DEF PInv, IInv, StopsForAReason, Undisturbed
<1>3. calls = 1 /\ thread = "running" /\ alive
  BY <1>1, <1>2 DEF PInv, InStep, Undisturbed, IInv, TypeOK
<1>4. Outstanding(sender) <= 1 /\ Live(sender) > 0
  BY <1>1, <1>3 DEF PInv, IInv, ChainNeverForks, ChainLives, Undisturbed
<1>5. /\ sender.ready["sent"] \in Nat /\ sender.ready["failed"] \in Nat
      /\ sender.ready["due"] \in Nat /\ sender.ready["aborted"] \in Nat
      /\ sender.armed \in {0, 1}
  BY <1>1 DEF Sender, Handlers
<1> DEFINE a == sender.ready["sent"]
           b == sender.ready["failed"]
           c == sender.ready["due"]
           d == sender.ready["aborted"]
           e == sender.armed
<1>6. a + b + c + d + e <= 1 /\ a + b + c + e > 0
  BY <1>4 DEF Outstanding, Live
<1>7. /\ a \in Nat /\ b \in Nat /\ c \in Nat /\ d \in Nat /\ e \in {0, 1}
      /\ (IsSent <=> a > 0) /\ (IsFailed <=> b > 0)
      /\ (IsDue <=> c > 0) /\ (IsArmed <=> e = 1)
  BY <1>5 DEF IsSent, IsFailed, IsDue, IsArmed
<1> HIDE DEF a, b, c, e
<1> QED BY <1>2, <1>3, <1>6, <1>7

\* What the handlers start in their place.
LEMMA HandlersGoOn ==
  ASSUME NEW T, NEW s \in Sender(T), NEW text \in Seq(T), NEW outcome \in {"sent", "failed"}
  PROVE  /\ s.ready["sent"] > 0 => RunHandler(s, "sent", text, outcome).armed = 1
         /\ s.ready["due"] > 0 => RunHandler(s, "due", text, outcome).ready[outcome] > 0
<1>1. ASSUME s.ready["sent"] > 0
      PROVE  RunHandler(s, "sent", text, outcome).armed = 1
  <2> DEFINE t == Taken(s, "sent")
  <2>1. t \in Sender(T)
    BY <1>1, TakenEffect DEF Handlers
  <2> HIDE DEF t
  <2>2. multicast_timeout(t) \in Sender(T) /\ multicast_timeout(t).armed = 1
    BY <2>1, TimeoutEffect DEF multicast_timeout, Sender
  <2>3. \A u \in Sender(T) : Settle(u).armed = u.armed
    BY DEF Settle, Sender
  <2>4. RunHandler(s, "sent", text, outcome) = Settle(multicast_timeout(t))
    BY DEF RunHandler, t
  <2> QED BY <2>2, <2>3, <2>4
<1>2. ASSUME s.ready["due"] > 0
      PROVE  RunHandler(s, "due", text, outcome).ready[outcome] > 0
  <2> DEFINE t == Taken(s, "due")
  <2>1. t \in Sender(T) /\ outcome \in Handlers
    BY <1>2, TakenEffect DEF Handlers
  <2> HIDE DEF t
  <2>2. multicast_broadcast(t, text, outcome) \in Sender(T)
    BY <2>1, BroadcastEffect
  <2>3. multicast_broadcast(t, text, outcome).ready[outcome] > 0
    BY <2>1, BroadcastIsAnswered
  <2>4. \A u \in Sender(T) : Settle(u).ready = u.ready
    BY DEF Settle, Sender
  <2>5. RunHandler(s, "due", text, outcome) = Settle(multicast_broadcast(t, text, outcome))
    BY DEF RunHandler, t
  <2> QED BY <2>2, <2>3, <2>4, <2>5
<1> QED BY <1>1, <1>2

\* One step of the undisturbed chain: a datagram that left arms the timer, the
\* timer makes it due, a due broadcast leaves or is refused, and a refusal is
\* a failure.
LEMMA ChainStep ==
  ASSUME PInv, PInv', Undisturbed, Undisturbed', [Next]_vars
  PROVE  \/ UNCHANGED <<sender, emitted>>
         \/ IsSent /\ IsArmed' /\ UNCHANGED emitted
         \/ IsArmed /\ IsDue' /\ UNCHANGED emitted
         \/ IsDue /\ IsFailed' /\ UNCHANGED emitted
         \/ IsDue /\ Len(emitted') > Len(emitted)
<1>1. /\ thread = "running" /\ ~sender.stopped /\ sender.ready["aborted"] = 0
      /\ sender \in Sender(1..MaxCalls) /\ calls \in 1..MaxCalls
      /\ emitted \in Seq(Seq(1..MaxCalls))
  BY OneOperation, UsageAssumption DEF PInv, IInv, TypeOK, Undisturbed
<1>2. CASE \E h \in Handlers : Handle(h)
  <2>1. PICK h \in Handlers : Handle(h)
    BY <1>2
  <2>2. h \in {"sent", "due"}
    <3>1. h # "failed"
      BY <2>1 DEF Handle, Undisturbed, PInv, IInv, TypeOK
    <3>2. h # "aborted"
      BY <1>1, <2>1 DEF Handle
    <3> QED BY <3>1, <3>2 DEF Handlers
  <2>3. CASE h = "sent"
    <3>1. sender' = RunHandler(sender, "sent", <<>>, "sent") /\ emitted' = emitted
      BY <2>1, <2>3 DEF Handle, Broadcasts
    <3>2. sender.ready["sent"] > 0 /\ <<>> \in Seq(1..MaxCalls)
      BY <2>1, <2>3 DEF Handle
    <3>3. sender'.armed = 1
      BY <1>1, <3>1, <3>2, HandlersGoOn
    <3> QED BY <3>1, <3>2, <3>3 DEF IsSent, IsArmed
  <2>4. CASE h = "due"
    <3>1. PICK outcome \in {"sent", "failed"} :
            /\ sender' = RunHandler(sender, "due", <<calls>>, outcome)
            /\ Emit(sender', outcome)
      <4>1. \E outcome \in OutcomesOn(<<calls>>) :
              /\ sender' = RunHandler(sender, h, <<calls>>, outcome)
              /\ Emit(sender', outcome)
        BY <2>1, <2>4, Zenon DEF Handle, Broadcasts
      <4> QED BY <2>4, <4>1, OutcomesOfNetwork
    <3>2. sender.ready["due"] > 0
      BY <2>1, <2>4 DEF Handle
    <3>3. <<calls>> \in Seq(1..MaxCalls)
      BY <1>1
    <3>4. sender'.ready[outcome] > 0
      BY <1>1, <3>1, <3>2, <3>3, HandlersGoOn
    <3>5. CASE outcome = "sent"
      <4>1. emitted' = Append(emitted, sender'.buffer)
        BY <3>1, <3>5 DEF Emit
      <4> QED BY <1>1, <3>2, <4>1 DEF IsDue
    <3>6. CASE outcome = "failed"
      BY <3>1, <3>2, <3>4, <3>6 DEF Emit, IsDue, IsFailed
    <3> QED BY <3>5, <3>6
  <2> QED BY <2>2, <2>3, <2>4
<1>3. CASE Timer
  <2>1. sender'.ready["due"] > 0
    BY <1>1, <1>3 DEF Timer, TimerExpires, Sender, Handlers
  <2> QED BY <1>3, <2>1 DEF Timer, IsArmed, IsDue
<1>4. CASE UNCHANGED <<sender, emitted>>
  BY <1>4
<1>5. CASE stop
  BY <1>5 DEF stop, Undisturbed
<1> QED
  BY <1>1, <1>2, <1>3, <1>4, <1>5
     DEF Next, vars, send, async_send, RunReturns, join, Destroy, Undisturbed

\* Multicast_Sender.cpp:93: a sender that was started in the background and that
\* nobody stops puts one datagram after another on the wire, until the socket
\* refuses one.
THEOREM AnnouncesWhileItFitsHolds ==
  FairSpec /\ ThreadGoesOn /\ TimePasses => AnnouncesWhileItFits
<1> SUFFICES ASSUME NEW n \in 0..(MaxDatagram - 1)
             PROVE  FairSpec /\ ThreadGoesOn /\ TimePasses =>
                      ((calls > 0 /\ ~blocking /\ Len(emitted) = n)
                         ~> (Len(emitted) > n \/ stopping \/ failures > 0))
  BY DEF AnnouncesWhileItFits
<1> DEFINE Started == calls > 0 /\ ~blocking /\ Len(emitted) = n
           Done == Len(emitted) > n \/ stopping \/ failures > 0
           OneLess == Undisturbed /\ Len(emitted) = n
           Sent == OneLess /\ IsSent
           Armed == OneLess /\ IsArmed
           Due == OneLess /\ IsDue
           Failed == OneLess /\ IsFailed
<1>0. n \in Nat
  BY SenderAssumption
<1>1. PInv /\ Started => Sent \/ Armed \/ Due \/ Failed \/ Done
  <2> SUFFICES ASSUME PInv, Started, ~Done PROVE Sent \/ Armed \/ Due \/ Failed
    OBVIOUS
  <2>1. Undisturbed
    BY DEF Undisturbed, PInv, IInv, TypeOK
  <2> QED BY <2>1, OneOperation
<1>2. PInv /\ PInv' /\ OneLess /\ [Next]_vars =>
        \/ Done'
        \/ OneLess' /\ UNCHANGED <<sender, emitted>>
        \/ OneLess' /\ IsSent /\ IsArmed'
        \/ OneLess' /\ IsArmed /\ IsDue'
        \/ OneLess' /\ IsDue /\ IsFailed'
  <2> SUFFICES ASSUME PInv, PInv', OneLess, [Next]_vars, ~Done'
               PROVE  \/ OneLess' /\ UNCHANGED <<sender, emitted>>
                      \/ OneLess' /\ IsSent /\ IsArmed'
                      \/ OneLess' /\ IsArmed /\ IsDue'
                      \/ OneLess' /\ IsDue /\ IsFailed'
    OBVIOUS
  <2>1. Undisturbed /\ Undisturbed'
    <3>1. calls \in Nat /\ calls' \in Nat /\ failures' \in Nat /\ calls' >= calls
      BY UsageAssumption DEF PInv, IInv, TypeOK, Next, vars, send, async_send, Call, Handle,
                             RunReturns, Timer, stop, join, Destroy
    <3>2. blocking' = blocking
      BY DEF Next, vars, setup
    <3> QED BY <3>1, <3>2 DEF Undisturbed
  <2>2. \/ UNCHANGED <<sender, emitted>>
        \/ IsSent /\ IsArmed' /\ UNCHANGED emitted
        \/ IsArmed /\ IsDue' /\ UNCHANGED emitted
        \/ IsDue /\ IsFailed' /\ UNCHANGED emitted
    BY <1>0, <2>1, ChainStep
  <2> QED BY <2>1, <2>2
<1>3. PInv /\ OneLess => thread = "running" /\ alive /\ ~sender.stopped
  BY OneOperation
<1>4. /\ PInv /\ Sent => ~IsArmed /\ ~IsDue /\ ~IsFailed
      /\ PInv /\ Armed => ~IsSent /\ ~IsDue /\ ~IsFailed
      /\ PInv /\ Due => ~IsSent /\ ~IsArmed /\ ~IsFailed
      /\ PInv /\ Failed => ~IsSent /\ ~IsArmed /\ ~IsDue
  BY OneOperation
<1>5. UNCHANGED sender =>
        /\ IsSent' <=> IsSent
        /\ IsArmed' <=> IsArmed
        /\ IsDue' <=> IsDue
        /\ IsFailed' <=> IsFailed
  BY DEF IsSent, IsArmed, IsDue, IsFailed
<1>6. /\ PInv /\ PInv' /\ Sent /\ [Next]_vars => Sent' \/ Armed' \/ Done'
      /\ PInv /\ PInv' /\ Armed /\ [Next]_vars => Armed' \/ Due' \/ Done'
      /\ PInv /\ PInv' /\ Due /\ [Next]_vars => Due' \/ Failed' \/ Done'
      /\ PInv /\ PInv' /\ Failed /\ [Next]_vars => Failed' \/ Done'
  BY <1>2, <1>4, <1>5
\* A step of the thread or of the timer changes something, and all it can
\* change of an undisturbed chain is the sender.
<1>7. PInv /\ PInv' /\ OneLess /\ OneLess' /\ UNCHANGED <<sender, emitted>> =>
        /\ ~<<Thread /\ UNCHANGED setup>>_vars
        /\ ~<<Timer /\ UNCHANGED setup>>_vars
  <2> SUFFICES ASSUME PInv, PInv', OneLess, OneLess', UNCHANGED <<sender, emitted>>,
                      Thread \/ Timer, UNCHANGED setup
               PROVE  UNCHANGED vars
    OBVIOUS
  <2>1. thread = "running" /\ thread' = "running" /\ UNCHANGED <<alive, stopping>>
    BY <1>3 DEF Thread, Handle, AfterHandler, RunReturns, Timer, Undisturbed
  <2>2. UNCHANGED calls /\ failures' = failures
    BY DEF Thread, Handle, RunReturns, Timer, Undisturbed, PInv, IInv, TypeOK
  <2> QED BY <2>1, <2>2 DEF vars
<1> DEFINE JustOne == \/ IsSent /\ ~IsFailed /\ ~IsDue /\ ~IsArmed
                      \/ ~IsSent /\ IsFailed /\ ~IsDue /\ ~IsArmed
                      \/ ~IsSent /\ ~IsFailed /\ IsDue /\ ~IsArmed
                      \/ ~IsSent /\ ~IsFailed /\ ~IsDue /\ IsArmed
<1>8. PInv /\ OneLess => JustOne
  BY OneOperation
<1>9. (PInv /\ OneLess => JustOne)'
  BY <1>8, PTL
<1>10. /\ PInv /\ PInv' /\ Sent /\ <<Thread /\ UNCHANGED setup>>_vars => ~Sent'
       /\ PInv /\ PInv' /\ Due /\ <<Thread /\ UNCHANGED setup>>_vars => ~Due'
       /\ PInv /\ PInv' /\ Failed /\ <<Thread /\ UNCHANGED setup>>_vars => ~Failed'
       /\ PInv /\ PInv' /\ Armed /\ <<Timer /\ UNCHANGED setup>>_vars => ~Armed'
  <2> SUFFICES ASSUME PInv, PInv', OneLess, OneLess',
                      <<Thread /\ UNCHANGED setup>>_vars \/ <<Timer /\ UNCHANGED setup>>_vars
               PROVE  ~(IsSent /\ IsSent') /\ ~(IsDue /\ IsDue')
                      /\ ~(IsFailed /\ IsFailed') /\ ~(IsArmed /\ IsArmed')
    OBVIOUS
  <2>1. [Next]_vars /\ ~UNCHANGED <<sender, emitted>> /\ ~Done'
    BY <1>0, <1>7 DEF Next, Thread, Undisturbed, PInv, IInv, TypeOK
  <2>2. \/ IsSent /\ IsArmed'
        \/ IsArmed /\ IsDue'
        \/ IsDue /\ IsFailed'
    BY <1>2, <2>1
  <2> QED BY <1>8, <1>9, <2>2
<1>11. /\ PInv /\ (Sent \/ Due \/ Failed) => thread = "running" /\ SomethingReady
       /\ PInv /\ Armed => alive /\ sender.armed = 1
  BY <1>3 DEF SomethingReady, IsSent, IsDue, IsFailed, IsArmed, Handlers
<1> HIDE DEF Started, Done, Sent, Armed, Due, Failed
<1>12. FairSpec /\ ThreadGoesOn /\ TimePasses => (Started ~> Done)
  BY <1>1, <1>6, <1>10, <1>11, Progress, PTL DEF Spec, FairSpec, ThreadGoesOn, TimePasses
<1> QED BY <1>12, PTL DEF Started, Done
=============================================================================
