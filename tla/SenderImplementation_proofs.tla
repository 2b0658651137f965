--------------------- MODULE SenderImplementation_proofs ---------------------
(***************************************************************************)
(* What the operations of a sender do to its buffer, and that they keep it *)
(* a sender, whatever it holds.                                            *)
(***************************************************************************)
EXTENDS SenderImplementation, SequenceTheorems, TLAPS

LEMMA NewSenderType == \A T : NewSender \in Sender(T)
BY DEF NewSender, Sender, Handlers

LEMMA OutcomesAreHandlers ==
  \A s, text : Outcomes(s, text) \subseteq {"sent", "failed"}
BY DEF Outcomes

\* A broadcast appends its text and nothing else happens to the buffer.
LEMMA BroadcastEffect ==
  ASSUME NEW T, NEW s \in Sender(T), NEW text \in Seq(T), NEW outcome \in Handlers
  PROVE  /\ multicast_broadcast(s, text, outcome) \in Sender(T)
         /\ multicast_broadcast(s, text, outcome).buffer = s.buffer \o text
<1> DEFINE ready == [s.ready EXCEPT ![outcome] = @ + 1]
<1>1. s.buffer \in Seq(T) /\ s.ready \in [Handlers -> Nat]
  BY DEF Sender
<1>2. s.buffer \o text \in Seq(T)
  BY <1>1, ConcatProperties
<1>3. ready \in [Handlers -> Nat]
  BY <1>1
<1>4. multicast_broadcast(s, text, outcome)
        = [s EXCEPT !.buffer = s.buffer \o text, !.ready = ready]
  BY DEF multicast_broadcast
<1> HIDE DEF ready
<1> QED BY <1>2, <1>3, <1>4 DEF Sender

\* A broadcast leaves a handler behind.
LEMMA BroadcastIsAnswered ==
  ASSUME NEW T, NEW s \in Sender(T), NEW text, NEW outcome \in Handlers
  PROVE  multicast_broadcast(s, text, outcome).ready[outcome] > 0
BY DEF multicast_broadcast, Sender

LEMMA TimeoutEffect ==
  ASSUME NEW T, NEW s \in Sender(T)
  PROVE  /\ multicast_timeout(s) \in Sender(T)
         /\ multicast_timeout(s).buffer = s.buffer
<1> DEFINE ready == [s.ready EXCEPT !["aborted"] = @ + s.armed]
<1>1. s.ready \in [Handlers -> Nat] /\ s.armed \in Nat
  BY DEF Sender
<1>2. ready \in [Handlers -> Nat]
  BY <1>1 DEF Handlers
<1>3. multicast_timeout(s) = [s EXCEPT !.ready = ready, !.armed = 1]
  BY DEF multicast_timeout
<1> HIDE DEF ready
<1> QED BY <1>2, <1>3 DEF Sender

LEMMA TimerEffect ==
  ASSUME NEW T, NEW s \in Sender(T)
  PROVE  /\ TimerExpires(s) \in Sender(T)
         /\ TimerExpires(s).buffer = s.buffer
<1> DEFINE ready == [s.ready EXCEPT !["due"] = @ + 1]
<1>1. s.ready \in [Handlers -> Nat]
  BY DEF Sender
<1>2. ready \in [Handlers -> Nat]
  BY <1>1 DEF Handlers
<1>3. TimerExpires(s) = [s EXCEPT !.ready = ready, !.armed = 0]
  BY DEF TimerExpires
<1> HIDE DEF ready
<1> QED BY <1>2, <1>3 DEF Sender

LEMMA TakenEffect ==
  ASSUME NEW T, NEW s \in Sender(T), NEW h \in Handlers, s.ready[h] > 0
  PROVE  /\ Taken(s, h) \in Sender(T)
         /\ Taken(s, h).buffer = s.buffer
BY SMTT(30) DEF Taken, Sender

LEMMA SettleEffect ==
  ASSUME NEW T, NEW s \in Sender(T)
  PROVE  /\ Settle(s) \in Sender(T)
         /\ Settle(s).buffer = s.buffer
BY DEF Settle, Sender

\* A handler changes the buffer only by broadcasting.
LEMMA RunHandlerEffect ==
  ASSUME NEW T, NEW s \in Sender(T), NEW h \in Handlers, s.ready[h] > 0,
         NEW text \in Seq(T), NEW outcome \in Handlers
  PROVE  /\ RunHandler(s, h, text, outcome) \in Sender(T)
         /\ Broadcasts(h) => RunHandler(s, h, text, outcome).buffer = s.buffer \o text
         /\ ~Broadcasts(h) => RunHandler(s, h, text, outcome).buffer = s.buffer
<1> DEFINE t == Taken(s, h)
<1>1. t \in Sender(T) /\ t.buffer = s.buffer
  BY TakenEffect
<1> HIDE DEF t
<1>2. CASE h = "sent"
  <2>1. RunHandler(s, h, text, outcome) = Settle(multicast_timeout(t))
    BY <1>2 DEF RunHandler, t
  <2>2. multicast_timeout(t) \in Sender(T) /\ multicast_timeout(t).buffer = s.buffer
    BY <1>1, TimeoutEffect
  <2> QED BY <1>2, <2>1, <2>2, SettleEffect DEF Broadcasts
<1>3. CASE h = "due"
  <2>1. RunHandler(s, h, text, outcome) = Settle(multicast_broadcast(t, text, outcome))
    BY <1>3 DEF RunHandler, t
  <2>2. /\ multicast_broadcast(t, text, outcome) \in Sender(T)
        /\ multicast_broadcast(t, text, outcome).buffer = s.buffer \o text
    BY <1>1, <1>3, BroadcastEffect DEF Broadcasts
  <2> QED BY <1>3, <2>1, <2>2, SettleEffect DEF Broadcasts
<1>4. CASE h \notin {"sent", "due"}
  <2>1. RunHandler(s, h, text, outcome) = Settle(t)
    BY <1>4 DEF RunHandler, t
  <2> QED BY <1>1, <1>4, <2>1, SettleEffect DEF Broadcasts
<1> QED BY <1>2, <1>3, <1>4

\* With nothing to write, no handler changes the buffer.
LEMMA NothingWritten ==
  ASSUME NEW T, NEW s \in Sender(T), NEW h \in Handlers, s.ready[h] > 0,
         NEW outcome \in Handlers
  PROVE  /\ RunHandler(s, h, <<>>, outcome) \in Sender(T)
         /\ RunHandler(s, h, <<>>, outcome).buffer = s.buffer
<1>1. <<>> \in Seq(T)
  OBVIOUS
<1>2. s.buffer \o <<>> = s.buffer
  BY DEF Sender
<1>3. \A text \in Seq(T) :
        /\ RunHandler(s, h, text, outcome) \in Sender(T)
        /\ Broadcasts(h) => RunHandler(s, h, text, outcome).buffer = s.buffer \o text
        /\ ~Broadcasts(h) => RunHandler(s, h, text, outcome).buffer = s.buffer
  BY RunHandlerEffect
<1> QED BY <1>1, <1>2, <1>3
=============================================================================
