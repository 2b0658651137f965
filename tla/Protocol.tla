------------------------------ MODULE Protocol ------------------------------
(***************************************************************************)
(* The wire format of the PFC messages (Protocol.h, Protocol.cpp).  Each   *)
(* message class hands a list of its members to the templates that size,   *)
(* write and read them.                                                    *)
(*                                                                         *)
(* A stream is a sequence of cells.  A fixed-size member takes one cell, a *)
(* string takes a cell for its length and one per character; 0 is '\0'.    *)
(* A stream may end between two cells.  Where inside a cell it ends makes  *)
(* no difference to what the reader reports.                               *)
(***************************************************************************)
EXTENDS Integers, Sequences, Errors

\* _port has no initialiser: what a fresh message holds there is a value no
\* sender chose.
Uninitialised == -1

\* The type a fresh message of each class has.  A response has the number of
\* its request with bit 28 set.
SERVICE_Announcement_REQUEST == 1
SERVICE_signoff_REQUEST == 2
REGISTRY_LIST_REQUEST == 3
REGISTRY_LIST_RESPONSE == 2^28 + 3
CONNECTION_HERTBEAT_REQUEST == 4
CONNECTION_HERTBEAT_RESPONSE == 2^28 + 4

\* A class of messages: the members its Length sizes, its serialize writes and
\* its deserialize reads, each in the order it names them, and the members its
\* operator== compares.  operator!= is the negation of operator==.
MessageClass(type, members) ==
  [type |-> type, sizes |-> members, writes |-> members, reads |-> members,
   compares |-> {members[i] : i \in 1..Len(members)}]

\* The six classes each spell the list of their members out, four times over.
pfc_service_announcement == MessageClass(SERVICE_Announcement_REQUEST,
  <<"message_type", "port", "protacol", "name", "address", "brief">>)

pfc_service_signoff == MessageClass(SERVICE_signoff_REQUEST,
  <<"message_type", "port", "protacol", "name", "address", "brief">>)

pfc_registry_request == MessageClass(REGISTRY_LIST_REQUEST,
  <<"message_type", "port", "protacol", "name", "address", "brief">>)

pfc_registry_response == MessageClass(REGISTRY_LIST_RESPONSE,
  <<"message_type", "port", "protacol", "name", "address", "brief">>)

pfc_heartbeat_request == MessageClass(CONNECTION_HERTBEAT_REQUEST,
  <<"message_type", "port", "protacol", "name", "address", "brief">>)

pfc_heartbeat_response == MessageClass(CONNECTION_HERTBEAT_RESPONSE,
  <<"message_type", "port", "protacol", "name", "address", "brief">>)

MessageClasses ==
  {pfc_service_announcement, pfc_service_signoff,
   pfc_registry_request, pfc_registry_response,
   pfc_heartbeat_request, pfc_heartbeat_response}

Strings == {"name", "address", "brief"}

Message == [message_type : Int, port : Int, protacol : Int,
            name : Seq(Int), address : Seq(Int), brief : Seq(Int)]

\* A message of the class before anything is assigned to it.
Fresh(class) ==
  [message_type |-> class.type, port |-> Uninitialised,
   protacol |-> 0, name |-> <<>>, address |-> <<>>, brief |-> <<>>]

\* operator==: member by member.
Equal(class, lhs, rhs) == \A member \in class.compares : lhs[member] = rhs[member]

-----------------------------------------------------------------------------
(* Writing.                                                                *)

SerializeFixed(value) == <<value>>

SerializeString(string) == <<Len(string)>> \o string

\* The overload the type of the member selects.
SerializeMember(m, member) ==
  IF member \in Strings THEN SerializeString(m[member]) ELSE SerializeFixed(m[member])

Serialize(class, m) ==
  LET piece(k) == SerializeMember(m, class.writes[k])
  IN piece(1) \o (piece(2) \o (piece(3) \o (piece(4) \o (piece(5) \o piece(6)))))

\* A fixed-size member counts for its cell, a string for its characters only.
SizeOfMember(m, member) == IF member \in Strings THEN Len(m[member]) ELSE 1

Length(class, m) ==
  LET size(k) == SizeOfMember(m, class.sizes[k])
  IN size(1) + (size(2) + (size(3) + (size(4) + (size(5) + size(6)))))

-----------------------------------------------------------------------------
(* Reading.  A reader is the istream (what is left of it and whether it is *)
(* still good), the errors or-ed so far and the message being filled in.   *)

Reader(class, cells) ==
  [rest |-> cells, good |-> TRUE, error |-> Success, message |-> Fresh(class)]

\* error |= PFC_IP_SERIALIZATION_ERROR.
Refuse(in) == Or(in.error, PFC_IP_SERIALIZATION_ERROR)

Zeros(n) == [i \in 1..n |-> 0]

Least(a, b) == IF a <= b THEN a ELSE b

Drop(cells, n) == SubSeq(cells, n + 1, Len(cells))

\* A member is refused only when the stream was bad before the read: a read
\* that fails spoils the stream for the next member and reports nothing.
ReadFixed(in, member) ==
  IF ~in.good THEN [in EXCEPT !.error = Refuse(in)]
  ELSE IF in.rest = <<>> THEN [in EXCEPT !.good = FALSE]
  ELSE [in EXCEPT !.message[member] = Head(in.rest), !.rest = Drop(in.rest, 1)]

\* Seeded fault: the state of the stream is never looked at.
ReadString_Unchecked(in, member) ==
  IF in.rest = <<>> THEN [in EXCEPT !.good = FALSE]
  ELSE LET size  == Head(in.rest)
           chars == Drop(in.rest, 1)
           taken == Least(size, Len(chars))
       IN [in EXCEPT !.message[member] = SubSeq(chars, 1, taken),
                     !.rest = Drop(chars, taken)]

\* The string is resized to the length read, filled with '\0', and then
\* overwritten by the characters the stream still has.
ReadString(in, member) ==
  IF ~in.good \/ in.rest = <<>> THEN [in EXCEPT !.good = FALSE, !.error = Refuse(in)]
  ELSE LET size  == Head(in.rest)
           chars == Drop(in.rest, 1)
           taken == Least(size, Len(chars))
       IN [in EXCEPT
             !.message[member] = SubSeq(chars, 1, taken) \o Zeros(size - taken),
             !.rest = Drop(chars, taken),
             !.good = (size <= Len(chars))]

\* The overload the type of the member selects.
ReadMember(in, member) ==
  IF member \in Strings THEN ReadString(in, member) ELSE ReadFixed(in, member)

\* The class that reads asks for no type: it takes the one in the stream.  Each
\* step is a singleton, which TLC evaluates once where a nested term is
\* evaluated over and over.
Deserialize(class, cells) ==
  LET read1 == {ReadMember(in, class.reads[1]) : in \in {Reader(class, cells)}}
      read2 == {ReadMember(in, class.reads[2]) : in \in read1}
      read3 == {ReadMember(in, class.reads[3]) : in \in read2}
      read4 == {ReadMember(in, class.reads[4]) : in \in read3}
      read5 == {ReadMember(in, class.reads[5]) : in \in read4}
      read6 == {ReadMember(in, class.reads[6]) : in \in read5}
  IN CHOOSE in \in read6 : TRUE
=============================================================================
