-------------------------- MODULE Protocol_proofs --------------------------
(***************************************************************************)
(* What the reader of Protocol does, for every message and every stream.   *)
(*                                                                         *)
(* A stream is a sequence of integers, so the argument is about cutting it *)
(* in two: the messages are read off its front one member after another,   *)
(* and each member takes the cells that were written for it, or refuses.   *)
(* The converse, AcceptedIsWritten, puts the six pieces together again.    *)
(***************************************************************************)
EXTENDS Protocol, SequenceTheorems, TLAPS

\* Dropping a prefix of known length leaves the other part of a concatenation.
LEMMA DropPrefix ==
  ASSUME NEW s \in Seq(Int), NEW t \in Seq(Int)
  PROVE  /\ Drop(s \o t, Len(s)) = t
         /\ SubSeq(s \o t, 1, Len(s)) = s
<1>1. SubSeq(s \o t, 1, Len(s)) = s
  <2>1. s \o t \in Seq(Int) /\ Len(s \o t) = Len(s) + Len(t)
    BY ConcatProperties
  <2> DEFINE u == SubSeq(s \o t, 1, Len(s))
  <2>2. u \in Seq(Int) /\ Len(u) = Len(s)
    BY <2>1, SubSeqProperties, LenProperties
  <2>3. \A i \in 1..Len(s) : u[i] = s[i]
    BY <2>1
  <2> QED BY <2>2, <2>3, SeqEqual
<1>2. Drop(s \o t, Len(s)) = t
  <2>1. s \o t \in Seq(Int) /\ Len(s \o t) = Len(s) + Len(t)
    BY ConcatProperties
  <2> DEFINE u == SubSeq(s \o t, Len(s) + 1, Len(s) + Len(t))
  <2>2. u \in Seq(Int) /\ Len(u) = Len(t)
    BY <2>1, SubSeqProperties, LenProperties
  <2>3. \A i \in 1..Len(t) : u[i] = t[i]
    BY <2>1
  <2>4. u = t
    BY <2>2, <2>3, SeqEqual
  <2> QED BY <2>1, <2>4 DEF Drop
<1> QED BY <1>1, <1>2

LEMMA Associativity ==
  \A s, t, u \in Seq(Int) : (s \o t) \o u = s \o (t \o u)
BY ConcatAssociative, SMTT(30)

\* What follows a concatenation of six pieces follows its last piece.
Regrouped(a, b, c, d, e, f, t) ==
  (a \o (b \o (c \o (d \o (e \o f))))) \o t
    = a \o (b \o (c \o (d \o (e \o (f \o t)))))

LEMMA SixPieces ==
  \A a, b, c, d, e, f, t \in Seq(Int) : Regrouped(a, b, c, d, e, f, t)
<1> SUFFICES ASSUME NEW a, NEW b, NEW c, NEW d, NEW e, NEW f, NEW t,
                    a \in Seq(Int), b \in Seq(Int), c \in Seq(Int), d \in Seq(Int),
                    e \in Seq(Int), f \in Seq(Int), t \in Seq(Int)
             PROVE  Regrouped(a, b, c, d, e, f, t)
  OBVIOUS
<1>0. \A u, v \in Seq(Int) : u \o v \in Seq(Int)
  BY ConcatProperties
<1>1. PICK ef : ef \in Seq(Int) /\ ef = e \o f
  BY <1>0
<1>2. PICK df : df \in Seq(Int) /\ df = d \o ef
  BY <1>0, <1>1
<1>3. PICK cf : cf \in Seq(Int) /\ cf = c \o df
  BY <1>0, <1>2
<1>4. PICK bf : bf \in Seq(Int) /\ bf = b \o cf
  BY <1>0, <1>3
<1>5. (e \o f) \o t = e \o (f \o t)
  BY ONLY e \in Seq(Int), f \in Seq(Int), t \in Seq(Int), Associativity
<1>6. (d \o ef) \o t = d \o (ef \o t)
  BY ONLY d \in Seq(Int), <1>1, t \in Seq(Int), Associativity
<1>7. (c \o df) \o t = c \o (df \o t)
  BY ONLY c \in Seq(Int), <1>2, t \in Seq(Int), Associativity
<1>8. (b \o cf) \o t = b \o (cf \o t)
  BY ONLY b \in Seq(Int), <1>3, t \in Seq(Int), Associativity
<1>9. (a \o bf) \o t = a \o (bf \o t)
  BY ONLY a \in Seq(Int), <1>4, t \in Seq(Int), Associativity
<1> QED BY <1>1, <1>2, <1>3, <1>4, <1>5, <1>6, <1>7, <1>8, <1>9 DEF Regrouped

\* A reader in the middle of a stream that has been good so far.
Reading(rest, message) ==
  [rest |-> rest, good |-> TRUE, error |-> Success, message |-> message]

\* A good stream that starts with a cell gives it to the member.
LEMMA ReadFixedTakesCell ==
  ASSUME NEW message, NEW member, NEW v \in Int, NEW t \in Seq(Int)
  PROVE  ReadFixed(Reading(SerializeFixed(v) \o t, message), member)
           = Reading(t, [message EXCEPT ![member] = v])
<1> DEFINE cells == <<v>> \o t
<1>1. <<v>> \in Seq(Int) /\ Len(<<v>>) = 1
  OBVIOUS
<1>2. Drop(cells, 1) = t
  <2>1. Drop(cells, Len(<<v>>)) = t
    BY <1>1, DropPrefix
  <2> QED BY <2>1, <1>1
<1>3. cells # <<>> /\ Head(cells) = v
  <2>1. Len(cells) = 1 + Len(t) /\ cells[1] = v
    BY <1>1, ConcatProperties
  <2>2. cells \in Seq(Int)
    BY <1>1, ConcatProperties
  <2> QED BY <2>1, <2>2
<1>4. SerializeFixed(v) \o t = cells
  BY DEF SerializeFixed
<1> HIDE DEF cells
<1> QED BY <1>2, <1>3, <1>4 DEF ReadFixed, Reading

\* A good stream that starts with a serialized string gives back that string,
\* stays good and is left at the first cell after it.
LEMMA ReadStringTakesString ==
  ASSUME NEW message, NEW member, NEW s \in Seq(Int), NEW t \in Seq(Int)
  PROVE  ReadString(Reading(SerializeString(s) \o t, message), member)
           = Reading(t, [message EXCEPT ![member] = s])
<1> DEFINE size == Len(s)
           chars == s \o t
           cells == <<size>> \o chars
<1>1. <<size>> \in Seq(Int) /\ Len(<<size>>) = 1 /\ size \in Nat /\ chars \in Seq(Int)
  BY ConcatProperties, LenProperties
<1>2. SerializeString(s) \o t = cells
  BY <1>1, Associativity DEF SerializeString
<1>3. cells # <<>> /\ Head(cells) = size
  <2>1. cells \in Seq(Int) /\ Len(cells) = 1 + Len(chars) /\ cells[1] = size
    BY <1>1, ConcatProperties
  <2> QED BY <2>1, <1>1, LenProperties
<1>4. Drop(cells, 1) = chars
  <2>1. Drop(cells, Len(<<size>>)) = chars
    BY <1>1, DropPrefix
  <2> QED BY <2>1, <1>1
<1>5. size <= Len(chars) /\ Least(size, Len(chars)) = size
  <2>1. Len(chars) = size + Len(t) /\ Len(t) \in Nat
    BY ConcatProperties, LenProperties
  <2> QED BY <2>1, <1>1 DEF Least
<1>6. SubSeq(chars, 1, size) = s /\ Drop(chars, size) = t
  BY DropPrefix
<1>7. s \o Zeros(size - size) = s
  <2>1. Zeros(size - size) = <<>>
    BY <1>1 DEF Zeros
  <2> QED BY <2>1, ConcatEmptySeq
<1> HIDE DEF cells, chars, size
<1> QED BY <1>2, <1>3, <1>4, <1>5, <1>6, <1>7 DEF ReadString, Reading

Layout == <<"message_type", "port", "protacol", "name", "address", "brief">>

\* Each of the six classes names the six members in the same order in each of
\* its functions.
LEMMA ClassLayout ==
  ASSUME NEW class \in MessageClasses
  PROVE  /\ class.sizes = Layout
         /\ class.writes = Layout
         /\ class.reads = Layout
         /\ class.compares = DOMAIN Fresh(class)
<1>1. \A type : LET c == MessageClass(type, Layout)
                IN  /\ c.sizes = Layout /\ c.writes = Layout /\ c.reads = Layout
                    /\ c.compares = {Layout[i] : i \in 1..Len(Layout)}
  BY DEF MessageClass
<1>2. Len(Layout) = 6
  BY DEF Layout
<1>3. {Layout[i] : i \in 1..Len(Layout)}
        = {"message_type", "port", "protacol", "name", "address", "brief"}
  <2>1. 1..Len(Layout) = {1, 2, 3, 4, 5, 6}
    BY <1>2
  <2>2. {Layout[i] : i \in {1, 2, 3, 4, 5, 6}}
          = {Layout[1], Layout[2], Layout[3], Layout[4], Layout[5], Layout[6]}
    OBVIOUS
  <2> QED BY <2>1, <2>2 DEF Layout
<1>4. DOMAIN Fresh(class)
        = {"message_type", "port", "protacol", "name", "address", "brief"}
  BY DEF Fresh
<1>5. PICK type : class = MessageClass(type, Layout)
  BY DEF MessageClasses, Layout, pfc_service_announcement, pfc_service_signoff,
         pfc_registry_request, pfc_registry_response, pfc_heartbeat_request,
         pfc_heartbeat_response
<1> QED BY <1>1, <1>3, <1>4, <1>5

LEMMA SerializeByMember ==
  ASSUME NEW class \in MessageClasses, NEW m
  PROVE  Serialize(class, m) =
           SerializeFixed(m.message_type) \o (SerializeFixed(m.port) \o
           (SerializeFixed(m.protacol) \o (SerializeString(m.name) \o
           (SerializeString(m.address) \o SerializeString(m.brief)))))
<1>1. /\ Layout[1] = "message_type" /\ Layout[2] = "port" /\ Layout[3] = "protacol"
      /\ Layout[4] = "name" /\ Layout[5] = "address" /\ Layout[6] = "brief"
  BY DEF Layout
<1>2. class.writes = Layout
  BY ClassLayout
<1>3. /\ SerializeMember(m, "message_type") = SerializeFixed(m.message_type)
      /\ SerializeMember(m, "port") = SerializeFixed(m.port)
      /\ SerializeMember(m, "protacol") = SerializeFixed(m.protacol)
      /\ SerializeMember(m, "name") = SerializeString(m.name)
      /\ SerializeMember(m, "address") = SerializeString(m.address)
      /\ SerializeMember(m, "brief") = SerializeString(m.brief)
  BY DEF SerializeMember, Strings
<1> QED BY ONLY <1>1, <1>2, <1>3 DEF Serialize

LEMMA SerializeIsCells ==
  ASSUME NEW class \in MessageClasses, NEW m \in Message
  PROVE  Serialize(class, m) \in Seq(Int)
<1>1. /\ m.message_type \in Int /\ m.port \in Int /\ m.protacol \in Int
      /\ m.name \in Seq(Int) /\ m.address \in Seq(Int) /\ m.brief \in Seq(Int)
  BY DEF Message
<1>2. \A s \in Seq(Int) : SerializeString(s) \in Seq(Int)
  BY ConcatProperties, LenProperties DEF SerializeString
<1>3. \A v \in Int : SerializeFixed(v) \in Seq(Int)
  BY DEF SerializeFixed
<1> DEFINE r5 == SerializeString(m.brief)
           r4 == SerializeString(m.address) \o r5
           r3 == SerializeString(m.name) \o r4
           r2 == SerializeFixed(m.protacol) \o r3
           r1 == SerializeFixed(m.port) \o r2
           r0 == SerializeFixed(m.message_type) \o r1
<1>4. r5 \in Seq(Int) /\ r4 \in Seq(Int) /\ r3 \in Seq(Int)
  BY <1>1, <1>2, ConcatProperties
<1>5. r2 \in Seq(Int) /\ r1 \in Seq(Int) /\ r0 \in Seq(Int)
  <2> HIDE DEF r3
  <2> QED BY <1>1, <1>3, <1>4, ConcatProperties
<1>6. Serialize(class, m) = r0
  BY SerializeByMember
<1> QED BY <1>5, <1>6

\* operator== of each class is identity of what a message of the class holds.
THEOREM EqualIsIdentity ==
  ASSUME NEW class \in MessageClasses, NEW lhs \in Message, NEW rhs \in Message
  PROVE  Equal(class, lhs, rhs) <=> lhs = rhs
<1>1. class.compares
        = {"message_type", "port", "protacol", "name", "address", "brief"}
  BY ClassLayout DEF Fresh
<1>2. \A m \in Message :
        m = [message_type |-> m.message_type, port |-> m.port, protacol |-> m.protacol,
             name |-> m.name, address |-> m.address, brief |-> m.brief]
  BY DEF Message
<1>3. CASE Equal(class, lhs, rhs)
  <2>1. /\ lhs.message_type = rhs.message_type /\ lhs.port = rhs.port
        /\ lhs.protacol = rhs.protacol /\ lhs.name = rhs.name
        /\ lhs.address = rhs.address /\ lhs.brief = rhs.brief
    BY <1>1, <1>3 DEF Equal
  <2> QED BY <1>2, <1>3, <2>1
<1>4. CASE lhs = rhs
  BY <1>4 DEF Equal
<1> QED BY <1>3, <1>4

\* Each class reads the six members one after the other.
LEMMA DeserializeByMember ==
  ASSUME NEW class \in MessageClasses, NEW cells
  PROVE  Deserialize(class, cells) =
           ReadString(ReadString(ReadString(ReadFixed(ReadFixed(ReadFixed(
             Reader(class, cells), "message_type"), "port"), "protacol"),
             "name"), "address"), "brief")
<1>1. /\ Layout[1] = "message_type" /\ Layout[2] = "port" /\ Layout[3] = "protacol"
      /\ Layout[4] = "name" /\ Layout[5] = "address" /\ Layout[6] = "brief"
  BY DEF Layout
<1>2. class.reads = Layout
  BY ClassLayout
<1>3. \A in : /\ ReadMember(in, "message_type") = ReadFixed(in, "message_type")
              /\ ReadMember(in, "port") = ReadFixed(in, "port")
              /\ ReadMember(in, "protacol") = ReadFixed(in, "protacol")
              /\ ReadMember(in, "name") = ReadString(in, "name")
              /\ ReadMember(in, "address") = ReadString(in, "address")
              /\ ReadMember(in, "brief") = ReadString(in, "brief")
  BY DEF ReadMember, Strings
<1> DEFINE i0 == Reader(class, cells)
           i1 == ReadFixed(i0, "message_type")
           i2 == ReadFixed(i1, "port")
           i3 == ReadFixed(i2, "protacol")
           i4 == ReadString(i3, "name")
           i5 == ReadString(i4, "address")
           i6 == ReadString(i5, "brief")
           t1 == {ReadFixed(in, "message_type") : in \in {i0}}
           t2 == {ReadFixed(in, "port") : in \in t1}
           t3 == {ReadFixed(in, "protacol") : in \in t2}
           t4 == {ReadString(in, "name") : in \in t3}
           t5 == {ReadString(in, "address") : in \in t4}
           t6 == {ReadString(in, "brief") : in \in t5}
<1>4. Deserialize(class, cells) = (CHOOSE in \in t6 : TRUE)
  BY ONLY <1>1, <1>2, <1>3 DEF Deserialize
<1> HIDE DEF i0
<1>5. t1 = {i1}
  OBVIOUS
<1> HIDE DEF t1, i1
<1>6. t2 = {i2}
  BY <1>5
<1> HIDE DEF t2, i2
<1>7. t3 = {i3}
  BY <1>6
<1> HIDE DEF t3, i3
<1>8. t4 = {i4}
  BY <1>7
<1> HIDE DEF t4, i4
<1>9. t5 = {i5}
  BY <1>8
<1> HIDE DEF t5, i5
<1>10. t6 = {i6}
  BY <1>9
<1> HIDE DEF t6, i6
<1>11. Deserialize(class, cells) = i6
  BY <1>4, <1>10
<1> QED BY <1>11 DEF i0, i1, i2, i3, i4, i5, i6

\* pfc_message: whatever follows it in the stream, a message written by any of
\* the classes is read back whole, without an error, and nothing after it is
\* consumed - by whichever of the classes reads it, so that a signoff or a
\* heartbeat passes for an announcement and equals it by operator==.
THEOREM RoundTrip ==
  ASSUME NEW writer \in MessageClasses, NEW class \in MessageClasses,
         NEW m \in Message, NEW tail \in Seq(Int)
  PROVE  Deserialize(class, Serialize(writer, m) \o tail) =
           [rest |-> tail, good |-> TRUE, error |-> Success, message |-> m]
<1> DEFINE r6 == tail
           r5 == SerializeString(m.brief) \o r6
           r4 == SerializeString(m.address) \o r5
           r3 == SerializeString(m.name) \o r4
           r2 == SerializeFixed(m.protacol) \o r3
           r1 == SerializeFixed(m.port) \o r2
           r0 == SerializeFixed(m.message_type) \o r1
<1>1. /\ m.message_type \in Int /\ m.port \in Int /\ m.protacol \in Int
      /\ m.name \in Seq(Int) /\ m.address \in Seq(Int) /\ m.brief \in Seq(Int)
  BY DEF Message
<1>2. \A s \in Seq(Int) : SerializeString(s) \in Seq(Int)
  BY ConcatProperties, LenProperties DEF SerializeString
<1>3. \A v \in Int : SerializeFixed(v) \in Seq(Int)
  BY DEF SerializeFixed
<1>4. /\ r5 \in Seq(Int) /\ r4 \in Seq(Int) /\ r3 \in Seq(Int)
      /\ r2 \in Seq(Int) /\ r1 \in Seq(Int)
  BY <1>1, <1>2, <1>3, ConcatProperties
<1>5. Serialize(writer, m) \o tail = r0
  <2>1. /\ SerializeString(m.name) \in Seq(Int)
        /\ SerializeString(m.address) \in Seq(Int)
        /\ SerializeString(m.brief) \in Seq(Int)
        /\ SerializeFixed(m.message_type) \in Seq(Int)
        /\ SerializeFixed(m.port) \in Seq(Int)
        /\ SerializeFixed(m.protacol) \in Seq(Int)
    BY <1>1, <1>2, <1>3
  <2> HIDE DEF r0, r1, r2, r3, r4, r5
  <2>2. Regrouped(SerializeFixed(m.message_type), SerializeFixed(m.port),
                  SerializeFixed(m.protacol), SerializeString(m.name),
                  SerializeString(m.address), SerializeString(m.brief), tail)
    BY <2>1, SixPieces
  <2> QED BY <2>2, SerializeByMember DEF Regrouped, r0, r1, r2, r3, r4, r5
<1> DEFINE m0 == Fresh(class)
           m1 == [m0 EXCEPT !.message_type = m.message_type]
           m2 == [m1 EXCEPT !.port = m.port]
           m3 == [m2 EXCEPT !.protacol = m.protacol]
           m4 == [m3 EXCEPT !.name = m.name]
           m5 == [m4 EXCEPT !.address = m.address]
           m6 == [m5 EXCEPT !.brief = m.brief]
<1>6. ReadFixed(Reading(r0, m0), "message_type") = Reading(r1, m1)
  BY <1>1, <1>4, ReadFixedTakesCell
<1>7. ReadFixed(Reading(r1, m1), "port") = Reading(r2, m2)
  BY <1>1, <1>4, ReadFixedTakesCell
<1>8. ReadFixed(Reading(r2, m2), "protacol") = Reading(r3, m3)
  BY <1>1, <1>4, ReadFixedTakesCell
<1>9. ReadString(Reading(r3, m3), "name") = Reading(r4, m4)
  BY <1>1, <1>4, ReadStringTakesString
<1>10. ReadString(Reading(r4, m4), "address") = Reading(r5, m5)
  BY <1>1, <1>4, ReadStringTakesString
<1>11. ReadString(Reading(r5, m5), "brief") = Reading(r6, m6)
  BY <1>1, <1>4, ReadStringTakesString
<1>12. m6 = m
  BY DEF Message, Fresh
<1>13. Reader(class, r0) = Reading(r0, m0)
  BY DEF Reader, Reading
<1> HIDE DEF r0, r1, r2, r3, r4, r5, m0, m1, m2, m3, m4, m5, m6
<1>14. Deserialize(class, r0) = Reading(r6, m6)
  BY <1>6, <1>7, <1>8, <1>9, <1>10, <1>11, <1>13, DeserializeByMember
<1> QED BY <1>5, <1>12, <1>14 DEF Reading

\* Streams of messages are read in one way only: no message's wire form begins
\* another's, whichever classes wrote the two.
THEOREM WireFormIsUnambiguous ==
  ASSUME NEW writer \in MessageClasses, NEW other \in MessageClasses,
         NEW m \in Message, NEW n \in Message,
         NEW tail \in Seq(Int), NEW rest \in Seq(Int),
         Serialize(writer, m) \o tail = Serialize(other, n) \o rest
  PROVE  m = n /\ tail = rest
<1>1. Deserialize(writer, Serialize(writer, m) \o tail)
        = [rest |-> tail, good |-> TRUE, error |-> Success, message |-> m]
  BY RoundTrip
<1>2. Deserialize(writer, Serialize(other, n) \o rest)
        = [rest |-> rest, good |-> TRUE, error |-> Success, message |-> n]
  BY RoundTrip
<1> QED BY <1>1, <1>2

-----------------------------------------------------------------------------
(* A stream that ends before the message does.                             *)

IsCut(rest, whole) ==
  /\ rest \in Seq(Int)
  /\ Len(rest) < Len(whole)
  /\ \A i \in 1..Len(rest) : rest[i] = whole[i]

\* What is left of a cut stream after all of its first piece was read.
LEMMA CutAfterPiece ==
  ASSUME NEW s \in Seq(Int), NEW t \in Seq(Int), NEW rest, IsCut(rest, s \o t),
         Len(s) <= Len(rest)
  PROVE  /\ SubSeq(rest, 1, Len(s)) = s
         /\ IsCut(Drop(rest, Len(s)), t)
<1>1. /\ rest \in Seq(Int) /\ Len(rest) \in Nat /\ Len(s) \in Nat /\ Len(t) \in Nat
      /\ Len(rest) < Len(s) + Len(t)
      /\ \A i \in 1..Len(rest) : rest[i] = (s \o t)[i]
  BY ConcatProperties, LenProperties DEF IsCut
<1>2. \A i \in 1..Len(s) + Len(t) :
        (s \o t)[i] = IF i <= Len(s) THEN s[i] ELSE t[i - Len(s)]
  BY ConcatProperties
<1>3. \A i \in 1..Len(rest) : rest[i] \in Int
  BY <1>1, ElementOfSeq
<1>4. SubSeq(rest, 1, Len(s)) = s
  <2> DEFINE u == SubSeq(rest, 1, Len(s))
  <2>1. u \in Seq(Int) /\ Len(u) = Len(s) /\ \A i \in 1..Len(s) : u[i] = rest[i]
    BY <1>1, <1>3, SubSeqProperties
  <2> HIDE DEF u
  <2>2. ASSUME NEW i \in 1..Len(s) PROVE u[i] = s[i]
    <3>1. i \in 1..Len(rest) /\ i \in 1..Len(s) + Len(t) /\ i <= Len(s)
      BY <1>1
    <3>2. u[i] = rest[i] /\ rest[i] = (s \o t)[i] /\ (s \o t)[i] = s[i]
      BY <1>1, <1>2, <2>1, <3>1
    <3> QED BY <3>2
  <2>3. u = s
    BY <2>1, <2>2, SeqEqual
  <2> QED BY <2>3 DEF u
<1>5. IsCut(Drop(rest, Len(s)), t)
  <2> DEFINE m == Len(s) + 1
             n == Len(rest)
             u == SubSeq(rest, m, n)
  <2>0. m \in Int /\ n \in Int /\ \A i \in m..n : rest[i] \in Int
    BY <1>1, <1>3
  <2> HIDE DEF m, n
  <2>1. /\ u \in Seq(Int)
        /\ Len(u) = IF m <= n THEN n - m + 1 ELSE 0
        /\ \A i \in 1..n - m + 1 : u[i] = rest[m + i - 1]
    BY <2>0, SubSeqProperties
  <2> HIDE DEF u
  <2>2. Len(u) = Len(rest) - Len(s)
    BY <1>1, <2>1 DEF m, n
  <2>3. ASSUME NEW i \in 1..Len(u) PROVE u[i] = t[i]
    <3>1. /\ i \in 1..n - m + 1 /\ m + i - 1 = Len(s) + i
          /\ Len(s) + i \in 1..Len(rest) /\ Len(s) + i \in 1..Len(s) + Len(t)
          /\ ~(Len(s) + i <= Len(s)) /\ (Len(s) + i) - Len(s) = i
      BY <1>1, <2>2 DEF m, n
    <3>2. u[i] = rest[Len(s) + i]
      BY <2>1, <3>1
    <3>3. rest[Len(s) + i] = (s \o t)[Len(s) + i]
      BY <1>1, <3>1
    <3>4. (s \o t)[Len(s) + i] = t[i]
      BY <1>2, <3>1
    <3> QED BY <3>2, <3>3, <3>4
  <2>4. Drop(rest, Len(s)) = u
    BY DEF Drop, u, m, n
  <2>5. Len(u) < Len(t)
    BY <1>1, <2>2
  <2>6. IsCut(u, t)
    BY ONLY <2>1, <2>3, <2>5 DEF IsCut
  <2> QED BY <2>4, <2>6
<1> QED BY <1>4, <1>5

\* A reader that will report an error: it has, or it is at the end of its
\* stream, and the last member is a string.
Doomed(in) ==
  \E rest, good, error, message :
    /\ in = [rest |-> rest, good |-> good, error |-> error, message |-> message]
    /\ rest = <<>> \/ ~good \/ ~is_ok(error)

LEMMA IsDoomed ==
  ASSUME NEW rest, NEW good, NEW error, NEW message, ~good \/ ~is_ok(error)
  PROVE  Doomed([rest |-> rest, good |-> good, error |-> error, message |-> message])
BY Zenon DEF Doomed

LEMMA DoomedStays ==
  ASSUME NEW in, NEW member, Doomed(in)
  PROVE  /\ Doomed(ReadFixed(in, member))
         /\ Doomed(ReadString(in, member))
         /\ ~is_ok(ReadString(in, member).error)
<1>1. PICK rest, good, error, message :
        /\ in = [rest |-> rest, good |-> good, error |-> error, message |-> message]
        /\ rest = <<>> \/ ~good \/ ~is_ok(error)
  BY DEF Doomed
<1>2. ~is_ok(Refuse(in))
  BY DEF Refuse, Or, is_ok, PFC_NONE, PFC_IP_SERIALIZATION_ERROR
<1>3. Doomed(ReadFixed(in, member))
  <2>1. CASE ~good
    <3>1. ReadFixed(in, member)
            = [rest |-> rest, good |-> good, error |-> Refuse(in), message |-> message]
      BY <1>1, <2>1 DEF ReadFixed
    <3> QED BY <3>1, <1>2 DEF Doomed
  <2>2. CASE good /\ rest = <<>>
    <3>1. ReadFixed(in, member)
            = [rest |-> rest, good |-> FALSE, error |-> error, message |-> message]
      BY <1>1, <2>2 DEF ReadFixed
    <3> QED BY <3>1 DEF Doomed
  <2>3. CASE good /\ rest # <<>>
    <3>1. ReadFixed(in, member)
            = [rest |-> Drop(rest, 1), good |-> good, error |-> error,
               message |-> [message EXCEPT ![member] = Head(rest)]]
      BY <1>1, <2>3 DEF ReadFixed
    <3> QED BY <3>1, <2>3, <1>1 DEF Doomed
  <2> QED BY <2>1, <2>2, <2>3
<1>4. \E r, g, e, s :
        /\ ReadString(in, member) = [rest |-> r, good |-> g, error |-> e, message |-> s]
        /\ ~is_ok(e)
  <2>1. CASE ~good \/ rest = <<>>
    <3>1. ReadString(in, member)
            = [rest |-> rest, good |-> FALSE, error |-> Refuse(in), message |-> message]
      BY <1>1, <2>1 DEF ReadString
    <3> QED BY <3>1, <1>2
  <2>2. CASE good /\ rest # <<>>
    <3>1. ~is_ok(error)
      BY <1>1, <2>2
    <3> DEFINE size  == Head(rest)
               chars == Drop(rest, 1)
               taken == Least(size, Len(chars))
    <3>2. ReadString(in, member)
            = [rest |-> Drop(chars, taken), good |-> (size <= Len(chars)), error |-> error,
               message |-> [message EXCEPT ![member] =
                              SubSeq(chars, 1, taken) \o Zeros(size - taken)]]
      BY <1>1, <2>2 DEF ReadString
    <3> QED BY <3>1, <3>2
  <2> QED BY <2>1, <2>2
<1>5. Doomed(ReadString(in, member)) /\ ~is_ok(ReadString(in, member).error)
  <2> DEFINE out == ReadString(in, member)
  <2>1. PICK r, g, e, s :
          out = [rest |-> r, good |-> g, error |-> e, message |-> s] /\ ~is_ok(e)
    BY <1>4
  <2> HIDE DEF out
  <2>2. out.error = e
    BY <2>1
  <2>3. Doomed(out)
    BY <2>1, IsDoomed
  <2> QED BY <2>1, <2>2, <2>3 DEF out
<1> QED BY <1>3, <1>5

\* What a reader of a cut message may be after one of its members: doomed, or
\* as good as one that reads the message, in front of less of it.
Halfway(in, message, whole) ==
  \/ Doomed(in)
  \/ \E r : in = Reading(r, message) /\ IsCut(r, whole)

LEMMA IsHalfway ==
  ASSUME NEW rest, NEW message, NEW whole, IsCut(rest, whole)
  PROVE  Halfway(Reading(rest, message), message, whole)
BY DEF Halfway

\* A cut stream gives its fixed-size member, or the reader is doomed.
LEMMA CutFixed ==
  ASSUME NEW message, NEW member, NEW v \in Int, NEW t \in Seq(Int), NEW rest,
         IsCut(rest, SerializeFixed(v) \o t)
  PROVE  Halfway(ReadFixed(Reading(rest, message), member),
                 [message EXCEPT ![member] = v], t)
<1>1. CASE rest = <<>>
  <2>1. Doomed(Reading(rest, message))
    BY <1>1 DEF Doomed, Reading
  <2> QED BY <2>1, DoomedStays DEF Halfway
<1>2. CASE rest # <<>>
  <2>1. /\ SerializeFixed(v) = <<v>> /\ <<v>> \in Seq(Int) /\ Len(<<v>>) = 1
        /\ rest \in Seq(Int) /\ Len(rest) \in Nat
    BY LenProperties DEF SerializeFixed, IsCut
  <2>2. 1 <= Len(rest)
    BY <1>2, <2>1, EmptySeq
  <2>3. SubSeq(rest, 1, 1) = <<v>> /\ IsCut(Drop(rest, 1), t)
    <3>1. Len(<<v>>) <= Len(rest) /\ IsCut(rest, <<v>> \o t)
      BY <2>1, <2>2
    <3>2. SubSeq(rest, 1, Len(<<v>>)) = <<v>> /\ IsCut(Drop(rest, Len(<<v>>)), t)
      BY <2>1, <3>1, CutAfterPiece
    <3> QED BY <2>1, <3>2
  <2>4. Head(rest) = v
    <3>1. rest[1] = (<<v>> \o t)[1]
      BY <2>1, <2>2 DEF IsCut
    <3>2. (<<v>> \o t)[1] = v
      BY <2>1, ConcatProperties
    <3> QED BY <3>1, <3>2
  <2>5. ReadFixed(Reading(rest, message), member)
          = Reading(Drop(rest, 1), [message EXCEPT ![member] = v])
    BY <1>2, <2>4 DEF ReadFixed, Reading
  <2> QED BY <2>3, <2>5, IsHalfway
<1> QED BY <1>1, <1>2
\* A cut stream that is not empty begins with the size of the string.
LEMMA CutHead ==
  ASSUME NEW s \in Seq(Int), NEW t \in Seq(Int), NEW rest,
         IsCut(rest, SerializeString(s) \o t), rest # <<>>
  PROVE  Head(rest) = Len(s) /\ IsCut(Drop(rest, 1), s \o t)
<1> DEFINE size == Len(s)
<1>1. /\ <<size>> \in Seq(Int) /\ Len(<<size>>) = 1 /\ size \in Nat
      /\ s \o t \in Seq(Int) /\ rest \in Seq(Int) /\ Len(rest) \in Nat
  BY ConcatProperties, LenProperties DEF IsCut
<1>2. SerializeString(s) \o t = <<size>> \o (s \o t)
  BY <1>1, Associativity DEF SerializeString
<1> HIDE DEF size
<1>3. 1 <= Len(rest)
  BY <1>1, EmptySeq
<1>4. IsCut(Drop(rest, 1), s \o t)
  BY <1>1, <1>2, <1>3, CutAfterPiece
<1>5. Head(rest) = size
  <2>1. rest[1] = (<<size>> \o (s \o t))[1]
    BY <1>1, <1>2, <1>3 DEF IsCut
  <2>2. (<<size>> \o (s \o t))[1] = size
    BY <1>1, ConcatProperties
  <2> QED BY <2>1, <2>2
<1> QED BY <1>4, <1>5 DEF size

\* A cut stream gives its string, or the reader is doomed.
LEMMA CutString ==
  ASSUME NEW message, NEW member, NEW s \in Seq(Int), NEW t \in Seq(Int), NEW rest,
         IsCut(rest, SerializeString(s) \o t)
  PROVE  Halfway(ReadString(Reading(rest, message), member),
                 [message EXCEPT ![member] = s], t)
<1>1. CASE rest = <<>>
  <2>1. Doomed(Reading(rest, message))
    BY <1>1 DEF Doomed, Reading
  <2> QED BY <2>1, DoomedStays DEF Halfway
<1>2. CASE rest # <<>>
  <2> DEFINE size == Len(s)
             chars == Drop(rest, 1)
             taken == Least(size, Len(chars))
  <2>1. /\ Head(rest) = size /\ IsCut(chars, s \o t)
        /\ chars \in Seq(Int) /\ Len(chars) \in Nat /\ size \in Nat
    <3>1. Head(rest) = size /\ IsCut(chars, s \o t)
      BY <1>2, CutHead
    <3> HIDE DEF chars
    <3>2. chars \in Seq(Int)
      BY <3>1 DEF IsCut
    <3> QED BY <3>1, <3>2, LenProperties
  <2> HIDE DEF size, chars
  <2>2. ReadString(Reading(rest, message), member)
          = [rest |-> Drop(chars, taken), good |-> (size <= Len(chars)), error |-> Success,
             message |-> [message EXCEPT ![member] =
                            SubSeq(chars, 1, taken) \o Zeros(size - taken)]]
    BY <1>2, <2>1 DEF ReadString, Reading, chars
  <2>3. CASE size <= Len(chars)
    <3>1. taken = size /\ Zeros(size - taken) = <<>>
      BY <2>1, <2>3 DEF Least, Zeros
    <3>2. SubSeq(chars, 1, size) = s /\ IsCut(Drop(chars, size), t)
      BY <2>1, <2>3, CutAfterPiece DEF size
    <3>3. s \o <<>> = s
      BY ConcatEmptySeq
    <3> HIDE DEF taken
    <3>4. ReadString(Reading(rest, message), member)
            = Reading(Drop(chars, size), [message EXCEPT ![member] = s])
      BY <2>2, <2>3, <3>1, <3>2, <3>3 DEF Reading
    <3> QED BY <3>2, <3>4, IsHalfway
  <2>4. CASE ~(size <= Len(chars))
    <3> DEFINE in == ReadString(Reading(rest, message), member)
               rest1 == Drop(chars, taken)
               message1 == [message EXCEPT ![member] =
                              SubSeq(chars, 1, taken) \o Zeros(size - taken)]
               good == size <= Len(chars)
    <3>1. in = [rest |-> rest1, good |-> good, error |-> Success, message |-> message1]
      BY <2>2
    <3>2. ~good
      BY <2>4
    <3> HIDE DEF in, rest1, message1, good
    <3>3. Doomed(in)
      BY <3>1, <3>2, IsDoomed
    <3> QED BY <3>3 DEF in, Halfway
  <2> QED BY <2>3, <2>4
<1> QED BY <1>1, <1>2

\* What a cut string makes of a message whose other members were read.
RefusedOrPadded(in, message, member, s) ==
  \/ ~is_ok(in.error)
  \/ \E n \in 0..Len(s) :
       /\ is_ok(in.error)
       /\ in.message = [message EXCEPT ![member] =
                          SubSeq(s, 1, n) \o Zeros(Len(s) - n)]

\* The last string of a cut stream is refused, or padded.
LEMMA CutLastString ==
  ASSUME NEW message, NEW member, NEW s \in Seq(Int), NEW rest,
         IsCut(rest, SerializeString(s))
  PROVE  RefusedOrPadded(ReadString(Reading(rest, message), member), message, member, s)
<1>1. CASE rest = <<>>
  <2>1. Doomed(Reading(rest, message))
    BY <1>1 DEF Doomed, Reading
  <2> QED BY <2>1, DoomedStays DEF RefusedOrPadded
<1>2. CASE rest # <<>>
  <2> DEFINE size == Len(s)
             chars == Drop(rest, 1)
             n == Len(chars)
  <2>0. IsCut(rest, SerializeString(s) \o <<>>)
    <3>1. SerializeString(s) \in Seq(Int)
      BY ConcatProperties, LenProperties DEF SerializeString
    <3>2. SerializeString(s) \o <<>> = SerializeString(s)
      BY <3>1, ConcatEmptySeq
    <3> QED BY <3>2
  <2>1. /\ Head(rest) = size /\ IsCut(chars, s \o <<>>)
        /\ chars \in Seq(Int) /\ n \in Nat /\ size \in Nat /\ s \o <<>> = s
    <3>1. <<>> \in Seq(Int) /\ s \o <<>> = s
      BY ConcatEmptySeq
    <3>2. Head(rest) = size /\ IsCut(chars, s \o <<>>)
      BY <1>2, <2>0, <3>1, CutHead
    <3> HIDE DEF chars
    <3>3. chars \in Seq(Int)
      BY <3>2 DEF IsCut
    <3> QED BY <3>1, <3>2, <3>3, LenProperties
  <2>2. n < size
    BY <2>1 DEF IsCut
  <2>3. \A i \in 1..n : chars[i] = s[i] /\ chars[i] \in Int
    BY <2>1, ElementOfSeq DEF IsCut
  <2> HIDE DEF size, chars, n
  <2>4. Least(size, n) = n
    BY <2>1, <2>2 DEF Least
  <2>5. SubSeq(chars, 1, n) = SubSeq(s, 1, n)
    <3> DEFINE u == SubSeq(chars, 1, n)
               w == SubSeq(s, 1, n)
    <3>1. /\ u \in Seq(Int) /\ Len(u) = n /\ \A i \in 1..n : u[i] = chars[i]
      BY <2>1, <2>3, SubSeqProperties
    <3>2. /\ w \in Seq(Int) /\ Len(w) = n /\ \A i \in 1..n : w[i] = s[i]
      BY <2>1, <2>3, SubSeqProperties
    <3> HIDE DEF u, w
    <3>3. u = w
      BY <3>1, <3>2, <2>3, SeqEqual
    <3> QED BY <3>3 DEF u, w
  <2>6. ReadString(Reading(rest, message), member).error = Success
    BY <1>2, <2>1 DEF ReadString, Reading, chars
  <2>7. ReadString(Reading(rest, message), member).message
          = [message EXCEPT ![member] = SubSeq(chars, 1, n) \o Zeros(size - n)]
    BY <1>2, <2>1, <2>4 DEF ReadString, Reading, chars, n
  <2>8. n \in 0..size
    BY <2>1, <2>2
  <2> QED BY <2>5, <2>6, <2>7, <2>8 DEF size, is_ok, Success, RefusedOrPadded
<1> QED BY <1>1, <1>2
LEMMA HalfwayFixed ==
  ASSUME NEW in, NEW message, NEW member, NEW v \in Int, NEW t \in Seq(Int),
         Halfway(in, message, SerializeFixed(v) \o t)
  PROVE  Halfway(ReadFixed(in, member), [message EXCEPT ![member] = v], t)
<1> DEFINE whole == SerializeFixed(v) \o t
<1>1. CASE Doomed(in)
  BY <1>1, DoomedStays DEF Halfway
<1>2. CASE \E r : in = Reading(r, message) /\ IsCut(r, whole)
  <2>1. PICK r : in = Reading(r, message) /\ IsCut(r, whole)
    BY <1>2
  <2> QED BY <2>1, CutFixed
<1>3. Halfway(in, message, whole)
  OBVIOUS
<1> QED BY <1>1, <1>2, <1>3 DEF Halfway

LEMMA HalfwayString ==
  ASSUME NEW in, NEW message, NEW member, NEW s \in Seq(Int), NEW t \in Seq(Int),
         Halfway(in, message, SerializeString(s) \o t)
  PROVE  Halfway(ReadString(in, member), [message EXCEPT ![member] = s], t)
<1> DEFINE whole == SerializeString(s) \o t
<1>1. CASE Doomed(in)
  BY <1>1, DoomedStays DEF Halfway
<1>2. CASE \E r : in = Reading(r, message) /\ IsCut(r, whole)
  <2>1. PICK r : in = Reading(r, message) /\ IsCut(r, whole)
    BY <1>2
  <2> QED BY <2>1, CutString
<1>3. Halfway(in, message, whole)
  OBVIOUS
<1> QED BY <1>1, <1>2, <1>3 DEF Halfway

\* A message that is cut anywhere is refused, unless only its last string is
\* short: then that is filled up with '\0' and no error is reported.
THEOREM CutIsRefusedOrPadded ==
  ASSUME NEW writer \in MessageClasses, NEW class \in MessageClasses,
         NEW m \in Message, NEW cells, IsCut(cells, Serialize(writer, m))
  PROVE  RefusedOrPadded(Deserialize(class, cells), m, "brief", m.brief)
<1> DEFINE r5 == SerializeString(m.brief)
           r4 == SerializeString(m.address) \o r5
           r3 == SerializeString(m.name) \o r4
           r2 == SerializeFixed(m.protacol) \o r3
           r1 == SerializeFixed(m.port) \o r2
           m0 == Fresh(class)
           m1 == [m0 EXCEPT !["message_type"] = m.message_type]
           m2 == [m1 EXCEPT !["port"] = m.port]
           m3 == [m2 EXCEPT !["protacol"] = m.protacol]
           m4 == [m3 EXCEPT !["name"] = m.name]
           m5 == [m4 EXCEPT !["address"] = m.address]
           i0 == Reader(class, cells)
           i1 == ReadFixed(i0, "message_type")
           i2 == ReadFixed(i1, "port")
           i3 == ReadFixed(i2, "protacol")
           i4 == ReadString(i3, "name")
           i5 == ReadString(i4, "address")
           i6 == ReadString(i5, "brief")
<1>1. /\ m.message_type \in Int /\ m.port \in Int /\ m.protacol \in Int
      /\ m.name \in Seq(Int) /\ m.address \in Seq(Int) /\ m.brief \in Seq(Int)
  BY DEF Message
<1>2. \A s \in Seq(Int) : SerializeString(s) \in Seq(Int)
  BY ConcatProperties, LenProperties DEF SerializeString
<1>3. \A v \in Int : SerializeFixed(v) \in Seq(Int)
  BY DEF SerializeFixed
<1>4. r5 \in Seq(Int) /\ r4 \in Seq(Int) /\ r3 \in Seq(Int) /\ r2 \in Seq(Int) /\ r1 \in Seq(Int)
  BY <1>1, <1>2, <1>3, ConcatProperties
<1>5. \A t, v, message, member, in :
        t \in Seq(Int) /\ v \in Int /\ Halfway(in, message, SerializeFixed(v) \o t)
          => Halfway(ReadFixed(in, member), [message EXCEPT ![member] = v], t)
  BY HalfwayFixed
<1>6. \A t, s, message, member, in :
        t \in Seq(Int) /\ s \in Seq(Int) /\ Halfway(in, message, SerializeString(s) \o t)
          => Halfway(ReadString(in, member), [message EXCEPT ![member] = s], t)
  BY HalfwayString
<1>7. Deserialize(class, cells) = i6
  BY DeserializeByMember
<1>8. Halfway(i0, m0, SerializeFixed(m.message_type) \o r1)
  <2>1. Serialize(writer, m) = SerializeFixed(m.message_type) \o r1
    BY SerializeByMember
  <2>2. i0 = Reading(cells, m0)
    BY DEF Reader, Reading
  <2> HIDE DEF i0, m0, r1
  <2> QED BY <2>1, <2>2 DEF Halfway
<1> HIDE DEF r1, r2, r3, r4, r5, m0, m1, m2, m3, m4, m5, i0, i1, i2, i3, i4, i5, i6
<1>9. Halfway(i1, m1, r1)
  BY <1>1, <1>4, <1>5, <1>8 DEF i1, m1
<1>10. Halfway(i2, m2, r2)
  BY <1>1, <1>4, <1>5, <1>9 DEF i2, m2, r1
<1>11. Halfway(i3, m3, r3)
  BY <1>1, <1>4, <1>5, <1>10 DEF i3, m3, r2
<1>12. Halfway(i4, m4, r4)
  BY <1>1, <1>4, <1>6, <1>11 DEF i4, m4, r3
<1>13. Halfway(i5, m5, r5)
  BY <1>1, <1>4, <1>6, <1>12 DEF i5, m5, r4
<1>14. CASE Doomed(i5)
  <2>1. ~is_ok(i6.error)
    BY <1>14, DoomedStays DEF i6
  <2> QED BY <1>7, <2>1 DEF RefusedOrPadded
<1>15. CASE \E r : i5 = Reading(r, m5) /\ IsCut(r, r5)
  <2>1. PICK r : i5 = Reading(r, m5) /\ IsCut(r, SerializeString(m.brief))
    BY <1>15 DEF r5
  <2>0. i6 = ReadString(Reading(r, m5), "brief")
    BY <2>1 DEF i6
  <2>2. RefusedOrPadded(i6, m5, "brief", m.brief)
    BY <1>1, <2>0, <2>1, CutLastString
  <2>3. \A s : [m5 EXCEPT !["brief"] = s] = [m EXCEPT !["brief"] = s]
    BY DEF m0, m1, m2, m3, m4, m5, Message, Fresh
  <2> QED BY <1>7, <2>2, <2>3 DEF RefusedOrPadded
<1> QED BY <1>13, <1>14, <1>15 DEF Halfway

-----------------------------------------------------------------------------
(* What is accepted.  Sizes and characters on the wire are unsigned.       *)

LEMMA UnsignedCells == \A s \in Seq(Nat) : s \in Seq(Int) /\ Len(s) \in Nat
OBVIOUS

\* A sequence is what stands before one of its cells, and the rest.
LEMMA SplitAt ==
  ASSUME NEW s \in Seq(Nat), NEW n \in 0..Len(s)
  PROVE  /\ SubSeq(s, 1, n) \in Seq(Nat) /\ Len(SubSeq(s, 1, n)) = n
         /\ Drop(s, n) \in Seq(Nat)
         /\ s = SubSeq(s, 1, n) \o Drop(s, n)
<1> DEFINE u == SubSeq(s, 1, n)
           w == SubSeq(s, n + 1, Len(s))
<1>0. Len(s) \in Nat /\ n \in Nat /\ n <= Len(s)
  OBVIOUS
<1>1. u \in Seq(Nat) /\ Len(u) = n /\ \A i \in 1..n : u[i] = s[i]
  BY <1>0
<1>2. /\ w \in Seq(Nat) /\ Len(w) = Len(s) - n
      /\ \A i \in 1..Len(s) - n : w[i] = s[n + i]
  BY <1>0
<1> HIDE DEF u, w
<1>3. /\ u \o w \in Seq(Nat) /\ Len(u \o w) = Len(u) + Len(w)
      /\ \A i \in 1..Len(u) + Len(w) :
           (u \o w)[i] = IF i <= Len(u) THEN u[i] ELSE w[i - Len(u)]
  <2>1. u \in Seq(Nat) /\ w \in Seq(Nat)
    BY <1>1, <1>2
  <2> QED BY ONLY <2>1, ConcatProperties
<1>4. \A i \in 1..Len(s) : (u \o w)[i] = s[i]
  <2> TAKE i \in 1..Len(s)
  <2>1. CASE i <= n
    <3>1. i \in 1..n /\ i \in 1..Len(u) + Len(w)
      BY <1>0, <1>1, <1>2, <2>1
    <3> QED BY <1>1, <1>3, <3>1
  <2>2. CASE ~(i <= n)
    <3>1. i - n \in 1..Len(s) - n /\ n + (i - n) = i /\ i \in 1..Len(u) + Len(w)
      BY <1>0, <1>1, <1>2, <2>2
    <3>2. (u \o w)[i] = w[i - n]
      BY <1>1, <1>3, <2>2, <3>1
    <3> QED BY <1>2, <3>1, <3>2
  <2> QED BY <2>1, <2>2
<1>5. u \o w = s
  <2>1. Len(u \o w) = Len(s)
    BY <1>0, <1>1, <1>2, <1>3
  <2> QED BY <1>3, <1>4, <2>1, SeqEqual
<1>6. Drop(s, n) = w
  BY DEF Drop, w
<1> QED BY <1>1, <1>2, <1>5, <1>6 DEF u

\* A stream that is not empty is a cell and the rest.
LEMMA FirstCell ==
  ASSUME NEW rest \in Seq(Nat), rest # <<>>
  PROVE  /\ Head(rest) \in Nat
         /\ Drop(rest, 1) \in Seq(Nat)
         /\ rest = <<Head(rest)>> \o Drop(rest, 1)
<1>1. 1 \in 0..Len(rest) /\ Head(rest) = rest[1] /\ rest[1] \in Nat
  OBVIOUS
<1>2. SubSeq(rest, 1, 1) = <<Head(rest)>>
  <2> DEFINE u == SubSeq(rest, 1, 1)
             w == <<Head(rest)>>
  <2>1. u \in Seq(Nat) /\ Len(u) = 1 /\ u[1] = rest[1]
    BY <1>1
  <2>2. w \in Seq(Nat) /\ Len(w) = 1 /\ w[1] = rest[1]
    BY <1>1
  <2> HIDE DEF u, w
  <2>3. u = w
    BY <2>1, <2>2, SeqEqual
  <2> QED BY <2>3 DEF u, w
<1> QED BY <1>1, <1>2, SplitAt


\* A reader that is doomed, or has taken the member's value off the stream.
TookFixed(in, rest, message, member) ==
  \/ Doomed(in)
  \/ \E v \in Nat : \E t \in Seq(Nat) :
       /\ in = Reading(t, [message EXCEPT ![member] = v])
       /\ rest = SerializeFixed(v) \o t

TookString(in, rest, message, member) ==
  \/ Doomed(in)
  \/ \E s \in Seq(Nat) : \E t \in Seq(Nat) :
       /\ in = Reading(t, [message EXCEPT ![member] = s])
       /\ rest = SerializeString(s) \o t

LEMMA TakesFixed ==
  ASSUME NEW rest \in Seq(Nat), NEW message, NEW member
  PROVE  TookFixed(ReadFixed(Reading(rest, message), member), rest, message, member)
<1>1. CASE rest = <<>>
  <2>1. Doomed(Reading(rest, message))
    BY <1>1 DEF Doomed, Reading
  <2> QED BY <2>1, DoomedStays DEF TookFixed
<1>2. CASE rest # <<>>
  <2>1. ReadFixed(Reading(rest, message), member)
          = Reading(Drop(rest, 1), [message EXCEPT ![member] = Head(rest)])
    BY <1>2 DEF ReadFixed, Reading
  <2>2. /\ Head(rest) \in Nat /\ Drop(rest, 1) \in Seq(Nat)
        /\ rest = SerializeFixed(Head(rest)) \o Drop(rest, 1)
    BY <1>2, FirstCell DEF SerializeFixed
  <2> QED BY <2>1, <2>2, Zenon DEF TookFixed
<1> QED BY <1>1, <1>2

\* What a string that was long enough took off the stream.
LEMMA TakesString ==
  ASSUME NEW rest \in Seq(Nat), NEW message, NEW member
  PROVE  TookString(ReadString(Reading(rest, message), member), rest, message, member)
<1>1. CASE rest = <<>>
  <2>1. Doomed(Reading(rest, message))
    BY <1>1 DEF Doomed, Reading
  <2> QED BY <2>1, DoomedStays DEF TookString
<1>2. CASE rest # <<>>
  <2> DEFINE size == Head(rest)
             chars == Drop(rest, 1)
             taken == Least(size, Len(chars))
             in == ReadString(Reading(rest, message), member)
  <2>1. /\ size \in Nat /\ chars \in Seq(Nat) /\ Len(chars) \in Nat
        /\ rest = <<size>> \o chars
    BY <1>2, FirstCell
  <2>2. in = [rest |-> Drop(chars, taken), good |-> size <= Len(chars),
              error |-> Success,
              message |-> [message EXCEPT ![member] =
                             SubSeq(chars, 1, taken) \o Zeros(size - taken)]]
    BY <1>2 DEF ReadString, Reading
  <2>3. CASE size <= Len(chars)
    <3> DEFINE s == SubSeq(chars, 1, size)
               t == Drop(chars, size)
    <3>1. taken = size /\ Zeros(size - taken) = <<>>
      BY <2>1, <2>3 DEF Least, Zeros
    <3>2. /\ s \in Seq(Nat) /\ Len(s) = size /\ t \in Seq(Nat)
          /\ chars = s \o t
      <4>1. size \in 0..Len(chars)
        BY <2>1, <2>3
      <4> HIDE DEF size, chars
      <4> QED BY <2>1, <4>1, SplitAt
    <3>3. s \o <<>> = s
      BY <3>2, ConcatEmptySeq
    <3> HIDE DEF size, chars, taken, in
    <3>4. in = Reading(t, [message EXCEPT ![member] = s])
      BY <2>2, <2>3, <3>1, <3>3 DEF Reading
    <3>5. rest = SerializeString(s) \o t
      <4> HIDE DEF s, t
      <4>1. <<size>> \in Seq(Int) /\ s \in Seq(Int) /\ t \in Seq(Int)
        BY <2>1, <3>2
      <4>2. (<<size>> \o s) \o t = <<size>> \o (s \o t)
        BY ONLY <4>1, Associativity
      <4> QED BY <2>1, <3>2, <4>2 DEF SerializeString
    <3> HIDE DEF s, t
    <3>6. TookString(in, rest, message, member)
      BY <3>2, <3>4, <3>5, Zenon DEF TookString
    <3> QED BY <3>6 DEF in
  <2>4. CASE ~(size <= Len(chars))
    <3> DEFINE good == size <= Len(chars)
    <3>1. ~good
      BY <2>4
    <3> HIDE DEF good
    <3>2. \E r, m : in = [rest |-> r, good |-> good, error |-> Success, message |-> m]
      BY <2>2 DEF good
    <3> HIDE DEF in
    <3>3. Doomed(in)
      BY <3>1, <3>2, IsDoomed
    <3> QED BY <3>3 DEF TookString, in
  <2> QED BY <2>3, <2>4
<1> QED BY <1>1, <1>2

\* The last string is refused, or was written in front of what is left of the
\* stream - but for zeroes, which stand for an end that is missing.
LastString(in, rest, message, member) ==
  \/ ~is_ok(in.error)
  \/ \E s \in Seq(Nat) : \E t \in Seq(Nat) : \E k \in Nat :
       /\ in.message = [message EXCEPT ![member] = s]
       /\ in.rest = t
       /\ rest \o Zeros(k) = SerializeString(s) \o t
       /\ in.good => k = 0
       /\ ~in.good => t = <<>>

LEMMA ZerosAreCells ==
  \A k \in Nat : Zeros(k) \in Seq(Nat) /\ Zeros(k) \in Seq(Int) /\ Len(Zeros(k)) = k
BY DEF Zeros

LEMMA TakesLastString ==
  ASSUME NEW rest \in Seq(Nat), NEW message, NEW member
  PROVE  LastString(ReadString(Reading(rest, message), member), rest, message, member)
<1>1. CASE rest = <<>>
  <2>1. Doomed(Reading(rest, message))
    BY <1>1 DEF Doomed, Reading
  <2> QED BY <2>1, DoomedStays DEF LastString
<1>2. CASE rest # <<>>
  <2> DEFINE size == Head(rest)
             chars == Drop(rest, 1)
             taken == Least(size, Len(chars))
             s == SubSeq(chars, 1, taken) \o Zeros(size - taken)
             t == Drop(chars, taken)
             k == size - taken
             in == ReadString(Reading(rest, message), member)
  <2>1. /\ size \in Nat /\ chars \in Seq(Nat) /\ Len(chars) \in Nat
        /\ rest = <<size>> \o chars
    BY <1>2, FirstCell
  <2>2. /\ in.rest = t
        /\ in.message = [message EXCEPT ![member] = s]
        /\ in.good <=> size <= Len(chars)
    BY <1>2 DEF ReadString, Reading
  <2> HIDE DEF size, chars, in
  <2>3. taken \in 0..Len(chars) /\ k \in Nat
    BY <2>1 DEF Least
  <2> DEFINE u == SubSeq(chars, 1, taken)
  <2>4. /\ u \in Seq(Nat) /\ Len(u) = taken /\ t \in Seq(Nat) /\ chars = u \o t
    BY <2>1, <2>3, SplitAt
  <2>5. size <= Len(chars) => k = 0
    BY <2>1 DEF Least
  <2>6. ~(size <= Len(chars)) => t = <<>>
    BY <2>1 DEF Least, Drop
  <2> DEFINE z == Zeros(k)
  <2>7. z \in Seq(Nat) /\ Len(z) = k
    BY <2>3, ZerosAreCells
  <2>8. s = u \o z
    OBVIOUS
  <2> HIDE DEF taken, s, t, u, z
  <2>9. s \in Seq(Nat) /\ Len(s) = size
    <3>1. s \in Seq(Nat) /\ Len(s) = Len(u) + Len(z)
      BY <2>4, <2>7, <2>8, ConcatProperties
    <3>2. taken + k = size
      BY <2>1, <2>3 DEF taken
    <3> QED BY <2>4, <2>7, <3>1, <3>2
  <2>10. t = <<>> \/ z = <<>>
    BY <2>5, <2>6, <2>7
  <2>11. chars \o z = s \o t
    <3>1. u \o <<>> = u /\ s \o <<>> = s /\ chars \o <<>> = chars
      BY <2>1, <2>4, <2>9, ConcatEmptySeq
    <3> QED BY <2>4, <2>8, <2>10, <3>1
  <2>12. rest \o z = SerializeString(s) \o t
    <3>1. /\ <<size>> \in Seq(Int) /\ chars \in Seq(Int) /\ z \in Seq(Int)
          /\ s \in Seq(Int) /\ t \in Seq(Int)
      BY <2>1, <2>4, <2>7, <2>9, UnsignedCells
    <3>2. (<<size>> \o chars) \o z = <<size>> \o (chars \o z)
      BY ONLY <3>1, Associativity
    <3>3. (<<size>> \o s) \o t = <<size>> \o (s \o t)
      BY ONLY <3>1, Associativity
    <3> QED BY <2>1, <2>9, <2>11, <3>2, <3>3 DEF SerializeString
  <2> HIDE DEF k
  <2>13. LastString(in, rest, message, member)
    BY <2>2, <2>3, <2>4, <2>5, <2>6, <2>9, <2>12, Zenon DEF LastString, z
  <2> QED BY <2>13 DEF in
<1> QED BY <1>1, <1>2

\* A stream taken apart piece by piece, put together again.
PutTogether(a, b, c, d, e, f, r1, r2, r3, r4, r5, z, t) ==
  r1 = b \o r2 /\ r2 = c \o r3 /\ r3 = d \o r4 /\ r4 = e \o r5 /\ r5 \o z = f \o t
    => (a \o r1) \o z = (a \o (b \o (c \o (d \o (e \o f))))) \o t

LEMMA SixPiecesFollowed ==
  \A a, b, c, d, e, f, r1, r2, r3, r4, r5, z, t \in Seq(Int) :
    PutTogether(a, b, c, d, e, f, r1, r2, r3, r4, r5, z, t)
<1> SUFFICES ASSUME NEW a, NEW b, NEW c, NEW d, NEW e, NEW f,
                    NEW r1, NEW r2, NEW r3, NEW r4, NEW r5, NEW z, NEW t,
                    a \in Seq(Int), b \in Seq(Int), c \in Seq(Int), d \in Seq(Int),
                    e \in Seq(Int), f \in Seq(Int), r1 \in Seq(Int), r2 \in Seq(Int),
                    r3 \in Seq(Int), r4 \in Seq(Int), r5 \in Seq(Int),
                    z \in Seq(Int), t \in Seq(Int)
             PROVE  PutTogether(a, b, c, d, e, f, r1, r2, r3, r4, r5, z, t)
  OBVIOUS
<1>1. (e \o r5) \o z = e \o (r5 \o z)
  BY ONLY e \in Seq(Int), r5 \in Seq(Int), z \in Seq(Int), Associativity
<1>2. (d \o r4) \o z = d \o (r4 \o z)
  BY ONLY d \in Seq(Int), r4 \in Seq(Int), z \in Seq(Int), Associativity
<1>3. (c \o r3) \o z = c \o (r3 \o z)
  BY ONLY c \in Seq(Int), r3 \in Seq(Int), z \in Seq(Int), Associativity
<1>4. (b \o r2) \o z = b \o (r2 \o z)
  BY ONLY b \in Seq(Int), r2 \in Seq(Int), z \in Seq(Int), Associativity
<1>5. (a \o r1) \o z = a \o (r1 \o z)
  BY ONLY a \in Seq(Int), r1 \in Seq(Int), z \in Seq(Int), Associativity
<1>6. Regrouped(a, b, c, d, e, f, t)
  BY SixPieces
<1> QED BY ONLY <1>1, <1>2, <1>3, <1>4, <1>5, <1>6 DEF Regrouped, PutTogether

\* The converse of RoundTrip and CutIsRefusedOrPadded: deserialize accepts only
\* what serialize writes.  A stream that is read without an error begins with the
\* wire form of the message that was read, or ends within its last string and
\* lacks nothing but the zeroes at the end of it.
THEOREM AcceptedIsWritten ==
  ASSUME NEW writer \in MessageClasses, NEW class \in MessageClasses,
         NEW cells \in Seq(Nat), is_ok(Deserialize(class, cells).error)
  PROVE  LET in == Deserialize(class, cells)
         IN /\ in.message \in Message
            /\ \E k \in Nat :
                 /\ cells \o Zeros(k) = Serialize(writer, in.message) \o in.rest
                 /\ in.good => k = 0
                 /\ ~in.good => in.rest = <<>>
<1> DEFINE m0 == Fresh(class)
           i0 == Reader(class, cells)
           i1 == ReadFixed(i0, "message_type")
           i2 == ReadFixed(i1, "port")
           i3 == ReadFixed(i2, "protacol")
           i4 == ReadString(i3, "name")
           i5 == ReadString(i4, "address")
           i6 == ReadString(i5, "brief")
<1>1. Deserialize(class, cells) = i6
  BY DeserializeByMember
<1>2. i0 = Reading(cells, m0)
  BY DEF Reader, Reading
<1> HIDE DEF m0, i0, i1, i2, i3, i4, i5, i6
<1>3. \A in, member : Doomed(in) => /\ Doomed(ReadFixed(in, member))
                                    /\ Doomed(ReadString(in, member))
                                    /\ ~is_ok(ReadString(in, member).error)
  BY DoomedStays
<1>4. is_ok(i6.error)
  BY <1>1
<1>5. ~Doomed(i5)
  BY <1>3, <1>4 DEF i6
<1>6. ~Doomed(i4)
  BY <1>3, <1>5 DEF i5
<1>7. ~Doomed(i3)
  BY <1>3, <1>6 DEF i4
<1>8. ~Doomed(i2)
  BY <1>3, <1>7 DEF i3
<1>9. ~Doomed(i1)
  BY <1>3, <1>8 DEF i2
<1> DEFINE With(message, member, v) == [message EXCEPT ![member] = v]
<1>10. \A rest \in Seq(Nat) : \A message, member :
         /\ TookFixed(ReadFixed(Reading(rest, message), member), rest, message, member)
         /\ TookString(ReadString(Reading(rest, message), member), rest, message, member)
         /\ LastString(ReadString(Reading(rest, message), member), rest, message, member)
  BY TakesFixed, TakesString, TakesLastString
<1>11. PICK type \in Nat, r1 \in Seq(Nat) :
         /\ i1 = Reading(r1, With(m0, "message_type", type))
         /\ cells = SerializeFixed(type) \o r1
  <2>1. TookFixed(i1, cells, m0, "message_type")
    BY <1>2, <1>10 DEF i1
  <2> QED BY <1>9, <2>1 DEF TookFixed
<1> DEFINE m1 == With(m0, "message_type", type)
<1> HIDE DEF m1
<1>12. PICK port \in Nat, r2 \in Seq(Nat) :
         /\ i2 = Reading(r2, With(m1, "port", port))
         /\ r1 = SerializeFixed(port) \o r2
  <2>1. TookFixed(i2, r1, m1, "port")
    BY <1>10, <1>11 DEF i2, m1
  <2> QED BY <1>8, <2>1 DEF TookFixed
<1> DEFINE m2 == With(m1, "port", port)
<1> HIDE DEF m2
<1>13. PICK protacol \in Nat, r3 \in Seq(Nat) :
         /\ i3 = Reading(r3, With(m2, "protacol", protacol))
         /\ r2 = SerializeFixed(protacol) \o r3
  <2>1. TookFixed(i3, r2, m2, "protacol")
    BY <1>10, <1>12 DEF i3, m2
  <2> QED BY <1>7, <2>1 DEF TookFixed
<1> DEFINE m3 == With(m2, "protacol", protacol)
<1> HIDE DEF m3
<1>14. PICK name \in Seq(Nat), r4 \in Seq(Nat) :
         /\ i4 = Reading(r4, With(m3, "name", name))
         /\ r3 = SerializeString(name) \o r4
  <2>1. TookString(i4, r3, m3, "name")
    BY <1>10, <1>13 DEF i4, m3
  <2> QED BY <1>6, <2>1 DEF TookString
<1> DEFINE m4 == With(m3, "name", name)
<1> HIDE DEF m4
<1>15. PICK address \in Seq(Nat), r5 \in Seq(Nat) :
         /\ i5 = Reading(r5, With(m4, "address", address))
         /\ r4 = SerializeString(address) \o r5
  <2>1. TookString(i5, r4, m4, "address")
    BY <1>10, <1>14 DEF i5, m4
  <2> QED BY <1>5, <2>1 DEF TookString
<1> DEFINE m5 == With(m4, "address", address)
<1> HIDE DEF m5
<1>16. PICK brief \in Seq(Nat), rest \in Seq(Nat), k \in Nat :
         /\ i6.message = With(m5, "brief", brief)
         /\ i6.rest = rest
         /\ r5 \o Zeros(k) = SerializeString(brief) \o rest
         /\ i6.good => k = 0
         /\ ~i6.good => rest = <<>>
  <2>1. LastString(i6, r5, m5, "brief")
    BY <1>10, <1>15 DEF i6, m5
  <2> QED BY <1>4, <2>1 DEF LastString
<1> DEFINE m == i6.message
<1>17. /\ m = [message_type |-> type, port |-> port, protacol |-> protacol,
               name |-> name, address |-> address, brief |-> brief]
  BY <1>16 DEF m0, m1, m2, m3, m4, m5, Fresh
<1>18. m \in Message
  <2>1. /\ type \in Int /\ port \in Int /\ protacol \in Int
        /\ name \in Seq(Int) /\ address \in Seq(Int) /\ brief \in Seq(Int)
    OBVIOUS
  <2> QED BY <1>17, <2>1 DEF Message
<1>19. cells \o Zeros(k) = Serialize(writer, m) \o rest
  <2> DEFINE a == SerializeFixed(type)
             b == SerializeFixed(port)
             c == SerializeFixed(protacol)
             d == SerializeString(name)
             e == SerializeString(address)
             f == SerializeString(brief)
             z == Zeros(k)
  <2>1. /\ a \in Seq(Int) /\ b \in Seq(Int) /\ c \in Seq(Int)
        /\ d \in Seq(Int) /\ e \in Seq(Int) /\ f \in Seq(Int)
    <3>1. \A s \in Seq(Nat) : SerializeString(s) \in Seq(Int)
      <4> TAKE s \in Seq(Nat)
      <4>1. <<Len(s)>> \in Seq(Int) /\ s \in Seq(Int)
        OBVIOUS
      <4> QED BY <4>1, ConcatProperties DEF SerializeString
    <3>2. \A v \in Nat : SerializeFixed(v) \in Seq(Int)
      BY DEF SerializeFixed
    <3> QED BY <3>1, <3>2
  <2>2. /\ r1 \in Seq(Int) /\ r2 \in Seq(Int) /\ r3 \in Seq(Int) /\ r4 \in Seq(Int)
        /\ r5 \in Seq(Int) /\ rest \in Seq(Int) /\ z \in Seq(Int)
    BY ZerosAreCells, UnsignedCells
  <2>3. Serialize(writer, m) = a \o (b \o (c \o (d \o (e \o f))))
    <3>1. /\ m.message_type = type /\ m.port = port /\ m.protacol = protacol
          /\ m.name = name /\ m.address = address /\ m.brief = brief
      BY <1>17
    <3> HIDE DEF m
    <3>2. Serialize(writer, m) =
            SerializeFixed(m.message_type) \o (SerializeFixed(m.port) \o
            (SerializeFixed(m.protacol) \o (SerializeString(m.name) \o
            (SerializeString(m.address) \o SerializeString(m.brief)))))
      BY SerializeByMember
    <3> QED BY <3>1, <3>2
  <2>4. /\ cells = a \o r1 /\ r1 = b \o r2 /\ r2 = c \o r3 /\ r3 = d \o r4
        /\ r4 = e \o r5 /\ r5 \o z = f \o rest
    BY <1>11, <1>12, <1>13, <1>14, <1>15, <1>16
  <2> HIDE DEF a, b, c, d, e, f, z, m
  <2>5. cells \o z = (a \o (b \o (c \o (d \o (e \o f))))) \o rest
    <3>1. PutTogether(a, b, c, d, e, f, r1, r2, r3, r4, r5, z, rest)
      BY <2>1, <2>2, SixPiecesFollowed
    <3> QED BY ONLY <2>4, <3>1 DEF PutTogether
  <2> QED BY <2>3, <2>5 DEF z
<1> HIDE DEF m
<1>20. \E n \in Nat :
         /\ cells \o Zeros(n) = Serialize(writer, i6.message) \o i6.rest
         /\ i6.good => n = 0
         /\ ~i6.good => i6.rest = <<>>
  BY <1>16, <1>19, Zenon DEF m
<1> QED BY <1>1, <1>18, <1>20 DEF m

-----------------------------------------------------------------------------

\* pfc_length: Length counts the characters of the strings and not the size
\* that is written in front of each, so it is short of what the message
\* function writes by three sizes, whatever the message.
THEOREM LengthOfEncoding ==
  ASSUME NEW class \in MessageClasses, NEW m \in Message
  PROVE  Len(Serialize(class, m)) = Length(class, m) + 3
<1>1. /\ m.message_type \in Int /\ m.port \in Int /\ m.protacol \in Int
      /\ m.name \in Seq(Int) /\ m.address \in Seq(Int) /\ m.brief \in Seq(Int)
  BY DEF Message
<1>2. \A s \in Seq(Int) :
        /\ SerializeString(s) \in Seq(Int)
        /\ Len(SerializeString(s)) = 1 + Len(s)
  <2> TAKE s \in Seq(Int)
  <2>1. <<Len(s)>> \in Seq(Int) /\ Len(<<Len(s)>>) = 1
    BY LenProperties
  <2> QED BY <2>1, ConcatProperties DEF SerializeString
<1>3. \A v \in Int : SerializeFixed(v) \in Seq(Int) /\ Len(SerializeFixed(v)) = 1
  BY DEF SerializeFixed
<1> DEFINE Field(n, f) == f \in Seq(Int) /\ Len(f) = n /\ n \in Int
<1>4. ASSUME NEW n, NEW k, NEW f, NEW g, Field(n, f), Field(k, g)
      PROVE  Field(n + k, f \o g)
  <2>1. f \in Seq(Int) /\ g \in Seq(Int) /\ Len(f) = n /\ Len(g) = k
    BY <1>4
  <2>2. n + k \in Int
    BY <1>4
  <2>3. f \o g \in Seq(Int)
    BY <2>1, ConcatProperties
  <2>4. Len(f \o g) = Len(f) + Len(g)
    BY <2>1, ConcatProperties
  <2> QED BY <2>1, <2>2, <2>3, <2>4
<1>5. \A s \in Seq(Int) : Field(1 + Len(s), SerializeString(s))
  BY <1>2, LenProperties
<1>6. \A v \in Int : Field(1, SerializeFixed(v))
  BY <1>3
<1> DEFINE brief    == SerializeString(m.brief)
           address  == SerializeString(m.address)
           name     == SerializeString(m.name)
           type     == SerializeFixed(m.message_type)
           port     == SerializeFixed(m.port)
           protacol == SerializeFixed(m.protacol)
           B        == Len(m.brief)
           A        == Len(m.address)
           N        == Len(m.name)
<1>7. /\ Field(1 + B, brief) /\ Field(1 + A, address) /\ Field(1 + N, name)
      /\ Field(1, type) /\ Field(1, port) /\ Field(1, protacol)
  <2> HIDE DEF Field
  <2> QED BY <1>1, <1>5, <1>6
<1>8. A \in Int /\ B \in Int /\ N \in Int
  BY <1>1, LenProperties
<1>9. Serialize(class, m) =
         type \o (port \o (protacol \o (name \o (address \o brief))))
  BY SerializeByMember
<1>10. Len(Serialize(class, m)) = 1 + (1 + (1 + ((1 + N) + ((1 + A) + (1 + B)))))
  <2> HIDE DEF brief, address, name, type, port, protacol, A, B, N
  <2>1. \A n, k, f, g : Field(n, f) /\ Field(k, g) => Field(n + k, f \o g)
    BY <1>4
  <2> HIDE DEF Field
  <2>2. Field((1 + A) + (1 + B), address \o brief)
    BY ONLY <1>7, <2>1
  <2>3. Field((1 + N) + ((1 + A) + (1 + B)), name \o (address \o brief))
    BY ONLY <1>7, <2>1, <2>2
  <2>4. Field(1 + ((1 + N) + ((1 + A) + (1 + B))),
              protacol \o (name \o (address \o brief)))
    BY ONLY <1>7, <2>1, <2>3
  <2>5. Field(1 + (1 + ((1 + N) + ((1 + A) + (1 + B)))),
              port \o (protacol \o (name \o (address \o brief))))
    BY ONLY <1>7, <2>1, <2>4
  <2>6. Field(1 + (1 + (1 + ((1 + N) + ((1 + A) + (1 + B))))),
              type \o (port \o (protacol \o (name \o (address \o brief)))))
    BY ONLY <1>7, <2>1, <2>5
  <2> QED BY <1>9, <2>6 DEF Field
<1>11. Length(class, m) = 1 + (1 + (1 + (N + (A + B))))
  <2>1. /\ Layout[1] = "message_type" /\ Layout[2] = "port" /\ Layout[3] = "protacol"
        /\ Layout[4] = "name" /\ Layout[5] = "address" /\ Layout[6] = "brief"
    BY DEF Layout
  <2>2. class.sizes = Layout
    BY ClassLayout
  <2>3. /\ SizeOfMember(m, "message_type") = 1
        /\ SizeOfMember(m, "port") = 1
        /\ SizeOfMember(m, "protacol") = 1
        /\ SizeOfMember(m, "name") = Len(m.name)
        /\ SizeOfMember(m, "address") = Len(m.address)
        /\ SizeOfMember(m, "brief") = Len(m.brief)
    BY DEF SizeOfMember, Strings
  <2> QED BY ONLY <2>1, <2>2, <2>3 DEF Length
<1> HIDE DEF brief, address, name, type, port, protacol, A, B, N
<1> QED BY ONLY <1>8, <1>10, <1>11
-----------------------------------------------------------------------------

\* Error::operator|=: an error or-ed in is found by the test of its bit
\* whatever is or-ed in before and after it, so that the error of one member
\* survives the reads of the members that follow it.
THEOREM ErrorsAccumulate ==
  ASSUME NEW before \in Error, NEW code \in Code \ {PFC_NONE}, NEW after \in Error
  PROVE  LET e == Or(Or(before, code), after)
         IN  e \in Error /\ EqualsCode(e, code) /\ ~is_ok(e)
<1> DEFINE e == Or(Or(before, code), after)
<1>1. PICK bit \in 0..13 : code = {bit}
  BY DEF Code
<1>2. bit \in And(e, code) /\ bit \in e
  BY <1>1 DEF Or, And
<1>3. code \in Error
  BY <1>1 DEF Error
<1>4. e \in Error
  BY <1>3 DEF Or, Error
<1> QED BY <1>2, <1>4 DEF EqualsCode, is_ok, PFC_NONE

\* Error::operator==(Code) and operator!=(Code) are not opposites.  Both hold
\* when other errors came with the code, and neither when a success is
\* compared with PFC_NONE: == PFC_NONE holds of no error at all.
THEOREM EqualAndDifferent ==
  ASSUME NEW e \in Error, NEW code \in Code
  PROVE  /\ EqualsCode(e, code) /\ DiffersFromCode(e, code)
              <=> code # PFC_NONE /\ code \subseteq e /\ e \ code # {}
         /\ ~EqualsCode(e, code) /\ ~DiffersFromCode(e, code)
              <=> is_ok(e) /\ code = PFC_NONE
<1>1. CASE code = PFC_NONE
  BY <1>1 DEF EqualsCode, DiffersFromCode, And, is_ok, PFC_NONE
<1>2. CASE code # PFC_NONE
  <2>1. PICK bit \in 0..13 : code = {bit}
    BY <1>2 DEF Code
  <2>2. EqualsCode(e, code) <=> bit \in e
    BY <2>1 DEF EqualsCode, And, PFC_NONE
  <2>3. bit \in e /\ e # code <=> code \subseteq e /\ e \ code # {}
    BY <2>1
  <2>4. e = code => bit \in e
    BY <2>1
  <2> QED BY <1>2, <2>2, <2>3, <2>4 DEF DiffersFromCode
<1> QED BY <1>1, <1>2

\* nano_to_Error is given what a nanomsg function returned and not errno: of
\* a call that failed, and so returned a negative number, it makes a success.
THEOREM NegativeIsSuccess ==
  ASSUME NEW code \in Int, code < 0
  PROVE  is_ok(nano_to_Error(code))
<1>1. \A n \in DOMAIN BitOf : errno[n] > 0
  BY DEF BitOf, errno, NN_HAUSNUMERO
<1>2. {n \in DOMAIN BitOf : errno[n] = code} = {}
  <2>1. ASSUME NEW n \in DOMAIN BitOf PROVE errno[n] # code
    <3>1. errno[n] > 0
      BY <1>1
    <3> QED BY <3>1
  <2> QED BY <2>1
<1> QED BY <1>2 DEF nano_to_Error, is_ok, PFC_NONE
=============================================================================
