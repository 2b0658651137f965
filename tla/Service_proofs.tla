--------------------------- MODULE Service_proofs ---------------------------
(***************************************************************************)
(* What the constructors of Uri make of a text, for every text, and the    *)
(* ownership of Implementations and their threads, for any number of       *)
(* services and cells.                                                     *)
(*                                                                         *)
(* Why an owner comes back: destructor and assignments stop both contexts  *)
(* before they wait, a stopped context ends its thread after the handler   *)
(* it is in, and nothing starts it again meanwhile.                        *)
(***************************************************************************)
EXTENDS Service, SequenceTheorems, TLAPS

\* A URI made of one text never has an endpoint for c_str(): it is empty or the
\* one piece before "://".
LEMMA OneTextIsNoEndpoint ==
  ASSUME NEW text \in Text
  PROVE  ~regex_match(c_str(URI(text)))
<1>1. CASE regex_match(text)
  <2>1. c_str(URI(text)) = <<text[1]>>
    BY <1>1 DEF c_str, URI, matches
  <2>2. Len(<<text[1]>>) = 1
    OBVIOUS
  <2> QED BY <2>1, <2>2 DEF regex_match
<1>2. CASE ~regex_match(text)
  <2>1. c_str(URI(text)) = <<>>
    BY <1>2 DEF c_str, URI
  <2> QED BY <2>1 DEF regex_match
<1> QED BY <1>1, <1>2

\* A text that matches holds "://" once, as its second piece.
LEMMA SeparatorIsSecond ==
  ASSUME NEW text \in Text, regex_match(text), NEW k \in 1..Len(text), text[k] = "://"
  PROVE  k = 2
<1>1. "://" \notin Pieces /\ "://" # ":"
  BY UriAssumption
<1>2. Words \subseteq Pieces /\ Hosts \subseteq Pieces /\ Numbers \subseteq Pieces
  BY UriAssumption
<1>3. k \in {1, 2, 3, 4, 5}
  BY DEF regex_match
<1> QED BY <1>1, <1>2, <1>3 DEF regex_match

\* Nor does a valid URI made of its parts: an address with a "://" of its own
\* makes an endpoint with two.
LEMMA PartsAreNoEndpoint ==
  ASSUME NEW transport \in Text, NEW addr \in Text, NEW port \in Numbers,
         is_valid(URI_of_parts(transport, addr, port))
  PROVE  ~regex_match(c_str(URI_of_parts(transport, addr, port)))
<1> DEFINE scheme == transport \o <<"://">>
           suffix == IF port = "0" THEN <<>> ELSE <<":", port>>
           endpoint == scheme \o addr \o suffix
<1>1. port \in Pieces
  BY UriAssumption
<1>2. suffix \in Text /\ <<"://">> \in Text /\ Len(<<"://">>) = 1
  <2>1. <<>> \in Text
    BY DEF Text
  <2>2. <<":", port>> \in Text
    BY <1>1 DEF Text
  <2>3. <<"://">> \in Text /\ Len(<<"://">>) = 1
    BY DEF Text
  <2> QED BY <2>1, <2>2, <2>3
<1>3. /\ scheme \in Text /\ Len(scheme) = Len(transport) + 1
      /\ scheme[Len(transport) + 1] = "://"
  BY <1>2, ConcatProperties DEF Text
<1>4. /\ scheme \o addr \in Text /\ Len(scheme \o addr) = Len(scheme) + Len(addr)
      /\ \A i \in 1..Len(scheme) : (scheme \o addr)[i] = scheme[i]
      /\ \A i \in 1..Len(addr) : (scheme \o addr)[Len(scheme) + i] = addr[i]
  BY <1>3, ConcatProperties DEF Text
<1> HIDE DEF scheme, suffix
<1>5. /\ endpoint \in Text /\ Len(endpoint) = Len(scheme \o addr) + Len(suffix)
      /\ \A i \in 1..Len(scheme \o addr) : endpoint[i] = (scheme \o addr)[i]
  BY <1>2, <1>4, ConcatProperties DEF Text
<1>6. regex_match(endpoint)
  BY DEF is_valid, is_ok, URI_of_parts, PFC_IP_PARSE_ERROR, PFC_NONE, scheme, suffix
<1> HIDE DEF endpoint
<1>7. Len(transport) \in Nat /\ Len(addr) \in Nat /\ Len(suffix) \in Nat
  BY <1>2, LenProperties DEF Text
<1>8. Len(transport) + 1 = 2
  <2>1. Len(transport) + 1 \in 1..Len(endpoint)
    BY <1>3, <1>4, <1>5, <1>7
  <2>2. endpoint[Len(transport) + 1] = "://"
    BY <1>3, <1>4, <1>5, <1>7
  <2> QED BY <1>5, <1>6, <2>1, <2>2, SeparatorIsSecond
<1>9. ASSUME regex_match(addr) PROVE FALSE
  <2>1. Len(addr) >= 2 /\ addr[2] = "://"
    BY <1>9 DEF regex_match
  <2>2. Len(scheme) = 2
    BY <1>3, <1>8
  <2>3. 4 \in 1..Len(endpoint) /\ endpoint[4] = "://"
    <3>1. 2 \in 1..Len(addr)
      BY <2>1, <1>7
    <3>2. (scheme \o addr)[Len(scheme) + 2] = addr[2]
      BY <3>1, <1>4
    <3>3. 4 \in 1..Len(scheme \o addr)
      BY <2>1, <2>2, <1>4, <1>7
    <3> QED BY <2>1, <2>2, <3>2, <3>3, <1>5, <1>7
  <2> QED BY <1>5, <1>6, <2>3, SeparatorIsSecond
<1>10. c_str(URI_of_parts(transport, addr, port)) = addr
  BY DEF c_str, URI_of_parts
<1> QED BY <1>9, <1>10

\* URI::c_str(): what a Service announces, and what the patterns give nn_bind
\* and nn_connect, is of no valid URI an endpoint, however it was constructed.
THEOREM NoEndpointFromValid ==
  ASSUME NEW text \in Text, NEW transport \in Text, NEW addr \in Text, NEW port \in Numbers
  PROVE  /\ ~regex_match(c_str(URI(text)))
         /\ is_valid(URI_of_parts(transport, addr, port))
              => ~regex_match(c_str(URI_of_parts(transport, addr, port)))
BY OneTextIsNoEndpoint, PartsAreNoEndpoint

\* URI::operator==: a URI made of one valid text equals none that was given the
\* scheme of the text, although the two may have the same endpoint; two made of
\* valid texts are equal only if the texts are, and yet c_str() is the same for
\* all those of one scheme.
THEOREM OneEndpointTwoURIs ==
  ASSUME NEW text \in Text, regex_match(text),
         NEW other \in Text, regex_match(other), other[1] = text[1],
         NEW addr \in Text, NEW port \in Numbers
  PROVE  /\ ~SameURI(URI(text), URI_of_parts(<<text[1]>>, addr, port))
         /\ c_str(URI(text)) = c_str(URI(other))
         /\ SameURI(URI(text), URI(other)) => text = other
<1>1. URI(text).transport = text /\ URI(other).transport = other
  BY DEF URI, matches
<1>2. URI_of_parts(<<text[1]>>, addr, port).transport = <<text[1]>>
  BY DEF URI_of_parts
<1>3. text # <<text[1]>>
  <2>1. Len(<<text[1]>>) = 1
    OBVIOUS
  <2> QED BY <2>1 DEF regex_match
<1>4. c_str(URI(text)) = <<text[1]>> /\ c_str(URI(other)) = <<other[1]>>
  BY DEF c_str, URI, matches
<1> QED BY <1>1, <1>2, <1>3, <1>4 DEF SameURI
-----------------------------------------------------------------------------
(* Services.                                                               *)

\* What a service and the call of its owner say of each other, and what the
\* waiting for the first thread leaves for the second.
Shape ==
  /\ \A s \in Services \ alive : _impl[s] = None /\ doing[s] = Nothing
  /\ \A s \in Services : doing[s].call = "nothing" => doing[s] = Nothing
  /\ \A s \in Services : doing[s].call \in {"start", "join", "destroy"} =>
       _impl[s] # None /\ doing[s].cell = _impl[s]
  /\ \A s \in Services : doing[s].call = "replace" => doing[s].cell # None
  /\ \A s \in Services :
       (doing[s].call \in {"join", "destroy", "replace"} /\ doing[s].part = "listiner")
         => thread[doing[s].cell]["announcer"] = "none"

Quiet ==
  /\ NoUseAfterFree
  /\ \A i \in Cells : handler[i] # "idle" => thread[i]["listiner"] = "running"

\* While nothing is misused, every service has its Implementation, a handler
\* that found a function still has it, and a listener is joinable only while
\* its announcer is, or its owner is about to join it.
Book ==
  ~misused =>
    /\ died = "no"
    /\ \A s \in alive : _impl[s] # None
    /\ \A s \in Services : doing[s].call # "replace"
    /\ \A i \in Cells : handler[i] # "idle" => callback[i]
    /\ \A s \in alive :
         /\ (doing[s].call = "nothing" /\ thread[_impl[s]]["announcer"] = "none")
              => thread[_impl[s]]["listiner"] = "none"
         /\ doing[s].call = "start" =>
              /\ thread[_impl[s]]["announcer"] # "none"
              /\ thread[_impl[s]]["listiner"] = "none"

\* What is announced is some service's.
Named == \A i \in allocated : \E s \in Services : announced[i] = c_str(address(s))

IInv == TypeOK /\ Shape /\ OneOwner /\ Quiet /\ Book /\ Named

LEMMA TextOfAddress ==
  ASSUME NEW s \in Services
  PROVE  c_str(address(s)) \in Text
<1>1. Given[s] \in [uri : Text] \cup [transport : Text, address : Text, port : Numbers]
  BY ServiceAssumption
<1>2. CASE "uri" \in DOMAIN Given[s]
  <2>1. Given[s].uri \in Text
    BY <1>1, <1>2
  <2>2. address(s) = URI(Given[s].uri)
    BY <1>2 DEF address
  <2>3. CASE regex_match(Given[s].uri)
    <3>1. c_str(address(s)) = <<Given[s].uri[1]>>
      BY <2>2, <2>3 DEF c_str, URI, matches
    <3>2. Given[s].uri[1] \in Pieces \cup {"://", ":"}
      BY <2>3, UriAssumption DEF regex_match
    <3> QED BY <3>1, <3>2 DEF Text
  <2>4. CASE ~regex_match(Given[s].uri)
    BY <2>2, <2>4 DEF c_str, URI, Text
  <2> QED BY <2>3, <2>4
<1>3. CASE "uri" \notin DOMAIN Given[s]
  <2>1. Given[s].address \in Text
    BY <1>1, <1>3
  <2>2. c_str(address(s)) = Given[s].address
    BY <1>3 DEF address, c_str, URI_of_parts
  <2> QED BY <2>1, <2>2
<1> QED BY <1>2, <1>3

LEMMA InitEstablishes == Init => IInv
<1> SUFFICES ASSUME Init PROVE IInv
  OBVIOUS
<1> USE DEF Init
<1>1. TypeOK
  <2>1. misused \in BOOLEAN
    BY Zenon
  <2>2. <<>> \in Text
    BY DEF Text
  <2> QED BY <2>1, <2>2 DEF TypeOK, Nothing, Parts
<1>2. Shape /\ Quiet /\ Book /\ Named
  BY DEF Shape, Quiet, NoUseAfterFree, Book, Named, Nothing, Parts
<1>3. OneOwner
  BY DEF OneOwner, Owns, Nothing
<1> QED BY <1>1, <1>2, <1>3 DEF IInv

LEMMA Construct_preserves ==
  ASSUME IInv, NEW s \in Services, Construct(s)
  PROVE  IInv'
<1> USE DEF Construct, serviceVars, heapVars, contextVars, listinerVars, programVars
<1>0. IInv
  OBVIOUS
<1>1. TypeOK'
  BY <1>0, TextOfAddress DEF IInv, TypeOK, Nothing, Parts
<1>2. Shape'
  BY <1>0, ServiceAssumption DEF IInv, TypeOK, Shape, OneOwner, Owns, Nothing, Parts
<1>3. OneOwner'
  BY <1>0, ServiceAssumption DEF IInv, TypeOK, Shape, OneOwner, Owns, Nothing, Parts
<1>4. Quiet'
  BY <1>0, ServiceAssumption DEF IInv, TypeOK, Shape, OneOwner, Owns, Quiet, NoUseAfterFree, Nothing, Parts
<1>5. Book'
  BY <1>0, ServiceAssumption DEF IInv, TypeOK, Shape, OneOwner, Owns, Quiet, NoUseAfterFree, Book, Nothing, Parts
<1>6. Named'
  BY <1>0 DEF IInv, TypeOK, Named, Nothing, Parts
<1> QED BY <1>1, <1>2, <1>3, <1>4, <1>5, <1>6 DEF IInv

LEMMA start_preserves ==
  ASSUME IInv, NEW s \in Services, start(s)
  PROVE  IInv'
<1> USE DEF start, Calls, Run, serviceVars, heapVars, contextVars, listinerVars, programVars
<1>0. IInv
  OBVIOUS
<1>1. TypeOK'
  <2>1. misused' \in BOOLEAN
    BY Zenon
  <2>2. _impl[s] \in Cells
    BY <1>0 DEF IInv, TypeOK
  <2> QED BY <1>0, <2>1, <2>2, SMTT(30) DEF IInv, TypeOK, Nothing, Parts
<1>2. Shape'
  BY <1>0, ServiceAssumption DEF IInv, TypeOK, Shape, OneOwner, Owns, Nothing, Parts
<1>3. OneOwner'
  BY <1>0, ServiceAssumption DEF IInv, TypeOK, Shape, OneOwner, Owns, Nothing, Parts
<1>4. Quiet'
  BY <1>0, ServiceAssumption, SMTT(30) DEF IInv, TypeOK, Shape, OneOwner, Owns, Quiet, NoUseAfterFree, Nothing, Parts
<1>5. Book'
  <2> SUFFICES ASSUME ~misused' PROVE Book'
    BY DEF Book
  <2>1. ~misused /\ thread[_impl[s]]["announcer"] = "none"
    BY Zenon
  <2>2. Book /\ TypeOK /\ Shape /\ OneOwner /\ Quiet
    BY <1>0 DEF IInv
  <2>3. thread[_impl[s]]["listiner"] = "none" /\ _impl[s] \in Cells
    BY <2>1, <2>2 DEF Book, TypeOK, Nothing
  <2>4. \A t \in alive \ {s} : _impl[t] # _impl[s]
    BY <2>2, <2>3 DEF OneOwner, Owns, TypeOK
  <2>5. /\ thread' = [thread EXCEPT ![_impl[s]]["announcer"] = "running"]
        /\ died' = died
    BY <2>1
  <2> QED BY <2>1, <2>2, <2>3, <2>4, <2>5, ServiceAssumption
          DEF Book, TypeOK, Parts, Shape, Quiet
<1>6. Named'
  BY <1>0 DEF IInv, TypeOK, Named, Nothing, Parts
<1> QED BY <1>1, <1>2, <1>3, <1>4, <1>5, <1>6 DEF IInv

LEMMA StartsListiner_preserves ==
  ASSUME IInv, NEW s \in Services, StartsListiner(s)
  PROVE  IInv'
<1> USE DEF StartsListiner, Run, serviceVars, heapVars, contextVars, listinerVars, programVars
<1>0. IInv
  OBVIOUS
<1>1. TypeOK'
  BY <1>0 DEF IInv, TypeOK, Nothing, Parts
<1>2. Shape'
  BY <1>0, ServiceAssumption DEF IInv, TypeOK, Shape, OneOwner, Owns, Nothing, Parts
<1>3. OneOwner'
  BY <1>0, ServiceAssumption DEF IInv, TypeOK, Shape, OneOwner, Owns, Nothing, Parts
<1>4. Quiet'
  BY <1>0, ServiceAssumption DEF IInv, TypeOK, Shape, OneOwner, Owns, Quiet, NoUseAfterFree, Nothing, Parts
<1>5. Book'
  BY <1>0, ServiceAssumption DEF IInv, TypeOK, Shape, OneOwner, Owns, Quiet, NoUseAfterFree, Book, Nothing, Parts
<1>6. Named'
  BY <1>0 DEF IInv, TypeOK, Named, Nothing, Parts
<1> QED BY <1>1, <1>2, <1>3, <1>4, <1>5, <1>6 DEF IInv

LEMMA join_preserves ==
  ASSUME IInv, NEW s \in Services, join(s)
  PROVE  IInv'
<1> USE DEF join, Calls, Waits, serviceVars, heapVars, contextVars, listinerVars, programVars
<1>0. IInv
  OBVIOUS
<1>1. TypeOK'
  BY <1>0 DEF IInv, TypeOK, Nothing, Parts
<1>2. Shape'
  BY <1>0, ServiceAssumption DEF IInv, TypeOK, Shape, OneOwner, Owns, Nothing, Parts
<1>3. OneOwner'
  BY <1>0, ServiceAssumption DEF IInv, TypeOK, Shape, OneOwner, Owns, Nothing, Parts
<1>4. Quiet'
  BY <1>0, ServiceAssumption DEF IInv, TypeOK, Shape, OneOwner, Owns, Quiet, NoUseAfterFree, Nothing, Parts
<1>5. Book'
  BY <1>0, ServiceAssumption DEF IInv, TypeOK, Shape, OneOwner, Owns, Quiet, NoUseAfterFree, Book, Nothing, Parts
<1>6. Named'
  BY <1>0 DEF IInv, TypeOK, Named, Nothing, Parts
<1> QED BY <1>1, <1>2, <1>3, <1>4, <1>5, <1>6 DEF IInv

LEMMA Destroy_preserves ==
  ASSUME IInv, NEW s \in Services, Destroy(s)
  PROVE  IInv'
<1> USE DEF Destroy, Calls, Stop, Waits, serviceVars, heapVars, contextVars, listinerVars, programVars
<1>0. IInv
  OBVIOUS
<1>1. TypeOK'
  BY <1>0 DEF IInv, TypeOK, Nothing, Parts
<1>2. Shape'
  BY <1>0, ServiceAssumption DEF IInv, TypeOK, Shape, OneOwner, Owns, Nothing, Parts
<1>3. OneOwner'
  BY <1>0, ServiceAssumption DEF IInv, TypeOK, Shape, OneOwner, Owns, Nothing, Parts
<1>4. Quiet'
  BY <1>0, ServiceAssumption DEF IInv, TypeOK, Shape, OneOwner, Owns, Quiet, NoUseAfterFree, Nothing, Parts
<1>5. Book'
  BY <1>0, ServiceAssumption DEF IInv, TypeOK, Shape, OneOwner, Owns, Quiet, NoUseAfterFree, Book, Nothing, Parts
<1>6. Named'
  BY <1>0 DEF IInv, TypeOK, Named, Nothing, Parts
<1> QED BY <1>1, <1>2, <1>3, <1>4, <1>5, <1>6 DEF IInv

LEMMA MoveAssign_preserves ==
  ASSUME IInv, NEW s \in Services, NEW obj \in Services, MoveAssign(s, obj)
  PROVE  IInv'
<1> USE DEF MoveAssign, Calls, Replaces, Stop, Waits, serviceVars, heapVars, contextVars, listinerVars, programVars
<1>0. IInv
  OBVIOUS
<1>1. TypeOK'
  <2>1. CASE _impl[s] = None
    BY <1>0, <2>1 DEF IInv, TypeOK, Nothing, Parts
  <2>2. CASE _impl[s] # None
    <3>1. _impl[s] \in Cells /\ _impl[obj] \in Cells \cup {None}
      BY <1>0, <2>2 DEF IInv, TypeOK
    <3>2. doing' \in [Services -> [call : {"nothing", "start", "join", "destroy", "replace"},
                                   cell : Cells \cup {None}, part : Parts]]
      BY <1>0, <2>2, <3>1, SMTT(30) DEF IInv, TypeOK, Parts
    <3>3. stopped' \in [Cells -> [Parts -> BOOLEAN]]
      <4>1. [part \in Parts |-> TRUE] \in [Parts -> BOOLEAN]
        OBVIOUS
      <4>2. stopped' = [stopped EXCEPT ![_impl[s]] = [part \in Parts |-> TRUE]]
        BY <2>2
      <4> QED BY ONLY <1>0, <3>1, <4>1, <4>2 DEF IInv, TypeOK
    <3>4. _impl' \in [Services -> Cells \cup {None}]
      BY <1>0, <3>1 DEF IInv, TypeOK
    <3> HIDE DEF Replaces
    <3> QED BY <1>0, <3>2, <3>3, <3>4, <2>2 DEF IInv, TypeOK, Replaces
  <2> QED BY <2>1, <2>2
<1>2. Shape'
  <2>0. /\ _impl' = [_impl EXCEPT ![s] = _impl[obj], ![obj] = None]
        /\ s \in alive /\ obj \in alive /\ s # obj /\ alive' = alive
        /\ doing[s] = Nothing /\ doing[obj] = Nothing
        /\ thread' = thread /\ allocated' = allocated
    OBVIOUS
  <2>3. /\ _impl'[s] = _impl[obj] /\ _impl'[obj] = None
        /\ \A t \in Services \ {s, obj} : _impl'[t] = _impl[t]
    BY <1>0, <2>0 DEF IInv, TypeOK
  <2>1. CASE _impl[s] = None
    <3>1. doing' = doing
      BY <2>1
    <3> QED BY ONLY <1>0, <2>0, <2>1, <2>3, <3>1, ServiceAssumption
            DEF IInv, TypeOK, Shape, OneOwner, Owns, Nothing
  <2>2. CASE _impl[s] # None
    <3>1. doing' = [doing EXCEPT ![s] = [call |-> "replace", cell |-> _impl[s], part |-> "announcer"]]
      BY <2>2
    <3>2. /\ doing'[s] = [call |-> "replace", cell |-> _impl[s], part |-> "announcer"]
          /\ \A t \in Services \ {s} : doing'[t] = doing[t]
      BY <1>0, <3>1 DEF IInv, TypeOK
    <3>3. \A t \in Services \ alive' : _impl'[t] = None /\ doing'[t] = Nothing
      BY ONLY <1>0, <2>0, <2>3, <3>2 DEF IInv, Shape
    <3>4. \A t \in Services \ {s} :
            /\ doing'[t].call = "nothing" => doing'[t] = Nothing
            /\ doing'[t].call = "replace" => doing'[t].cell # None
            /\ (doing'[t].call \in {"join", "destroy", "replace"} /\ doing'[t].part = "listiner")
                 => thread'[doing'[t].cell]["announcer"] = "none"
      BY ONLY <1>0, <2>0, <3>2 DEF IInv, Shape
    <3>5. \A t \in Services \ {s, obj} : doing'[t].call \in {"start", "join", "destroy"} =>
            _impl'[t] # None /\ doing'[t].cell = _impl'[t]
      BY ONLY <1>0, <2>0, <2>3, <3>2 DEF IInv, Shape
    <3>6. doing'[obj].call = "nothing"
      BY ONLY <2>0, <3>2 DEF Nothing
    <3> QED BY ONLY <2>2, <3>2, <3>3, <3>4, <3>5, <3>6 DEF Shape
  <2> QED BY <2>1, <2>2
<1>3. OneOwner'
  <2>0. /\ _impl' = [_impl EXCEPT ![s] = _impl[obj], ![obj] = None]
        /\ s \in alive /\ obj \in alive /\ s # obj /\ alive' = alive
        /\ doing[s] = Nothing /\ doing[obj] = Nothing
        /\ thread' = thread /\ allocated' = allocated
    OBVIOUS
  <2>3. /\ _impl'[s] = _impl[obj] /\ _impl'[obj] = None
        /\ \A t \in Services \ {s, obj} : _impl'[t] = _impl[t]
    BY <1>0, <2>0 DEF IInv, TypeOK
  <2>1. CASE _impl[s] = None
    <3>1. doing' = doing
      BY <2>1
    <3>2. \A i \in Cells : Owns(s, i)' <=> Owns(obj, i)
      BY ONLY <1>0, <2>0, <2>3, <3>1 DEF IInv, TypeOK, Owns, Nothing
    <3>3. \A i \in Cells : ~Owns(obj, i)' /\ ~Owns(s, i)
      BY ONLY <1>0, <2>0, <2>1, <2>3, <3>1, ServiceAssumption DEF IInv, TypeOK, Owns, Nothing
    <3>4. \A i \in Cells : \A t \in Services \ {s, obj} : Owns(t, i)' <=> Owns(t, i)
      BY ONLY <1>0, <2>0, <2>3, <3>1 DEF IInv, TypeOK, Owns
    <3>5. \A t \in Services : (doing[t].call = "replace" => _impl[t] # doing[t].cell)'
      BY ONLY <1>0, <2>0, <2>1, <2>3, <3>1 DEF IInv, TypeOK, Shape, OneOwner, Nothing
    <3>6. \A i \in Cells : (i \in allocated <=> \E t \in Services : Owns(t, i))'
      BY ONLY <1>0, <2>0, <3>2, <3>3, <3>4 DEF IInv, OneOwner
    <3>7. \A i \in Cells : \A t, u \in Services : (Owns(t, i) /\ Owns(u, i) => t = u)'
      BY ONLY <1>0, <2>0, <3>2, <3>3, <3>4 DEF IInv, OneOwner
    <3> QED BY ONLY <3>5, <3>6, <3>7 DEF OneOwner
  <2>2. CASE _impl[s] # None
    <3>1. doing' = [doing EXCEPT ![s] = [call |-> "replace", cell |-> _impl[s], part |-> "announcer"]]
      BY <2>2
    <3>2. /\ doing'[s] = [call |-> "replace", cell |-> _impl[s], part |-> "announcer"]
          /\ \A t \in Services \ {s} : doing'[t] = doing[t]
      BY <1>0, <3>1 DEF IInv, TypeOK
    <3>3. \A i \in Cells : _impl[s] = i => (\A t \in Services : Owns(t, i) <=> t = s)
      BY ONLY <1>0, <2>0, <2>2 DEF IInv, TypeOK, OneOwner, Owns
    <3>4. \A i \in Cells : Owns(s, i)' <=> (Owns(s, i) \/ Owns(obj, i))
      BY ONLY <1>0, <2>0, <2>2, <2>3, <3>2 DEF IInv, TypeOK, Owns, Nothing
    <3>5. \A i \in Cells : ~Owns(obj, i)'
      BY ONLY <1>0, <2>0, <2>2, <2>3, <3>2, ServiceAssumption DEF IInv, TypeOK, Owns, Nothing
    <3>6. \A i \in Cells : \A t \in Services \ {s, obj} : Owns(t, i)' <=> Owns(t, i)
      BY ONLY <1>0, <2>0, <2>3, <3>2 DEF IInv, TypeOK, Owns
    <3>7. _impl[obj] # _impl[s]
      BY ONLY <1>0, <2>0, <2>2 DEF IInv, TypeOK, OneOwner, Owns
    <3>8. \A t \in Services : (doing[t].call = "replace" => _impl[t] # doing[t].cell)'
      BY ONLY <1>0, <2>0, <2>2, <2>3, <3>2, <3>7 DEF IInv, TypeOK, Shape, OneOwner, Nothing
    <3>9. \A i \in Cells : (i \in allocated <=> \E t \in Services : Owns(t, i))'
      BY ONLY <1>0, <2>0, <3>4, <3>5, <3>6 DEF IInv, OneOwner
    <3>10. \A i \in Cells : \A t, u \in Services : (Owns(t, i) /\ Owns(u, i) => t = u)'
      BY ONLY <1>0, <2>0, <3>4, <3>5, <3>6 DEF IInv, OneOwner
    <3> QED BY ONLY <3>8, <3>9, <3>10 DEF OneOwner
  <2> QED BY <2>1, <2>2
<1>4. Quiet'
  <2>1. CASE _impl[s] = None
    BY <1>0, <2>1, ServiceAssumption DEF IInv, TypeOK, Shape, OneOwner, Owns, Quiet, NoUseAfterFree, Nothing, Parts
  <2>2. CASE _impl[s] # None
    BY <1>0, <2>2, ServiceAssumption DEF IInv, TypeOK, Shape, OneOwner, Owns, Quiet, NoUseAfterFree, Nothing, Parts
  <2> QED BY <2>1, <2>2
<1>5. Book'
  BY <1>0, ServiceAssumption DEF IInv, TypeOK, Shape, OneOwner, Owns, Quiet, NoUseAfterFree, Book, Nothing, Parts
<1>6. Named'
  BY <1>0 DEF IInv, TypeOK, Named, Nothing, Parts
<1> QED BY <1>1, <1>2, <1>3, <1>4, <1>5, <1>6 DEF IInv

LEMMA MoveConstruct_preserves ==
  ASSUME IInv, NEW s \in Services, NEW obj \in Services, MoveConstruct(s, obj)
  PROVE  IInv'
<1> USE DEF MoveConstruct, Calls, serviceVars, heapVars, contextVars, listinerVars, programVars
<1>0. IInv
  OBVIOUS
<1>1. TypeOK'
  BY <1>0 DEF IInv, TypeOK, Nothing, Parts
<1>2. Shape'
  BY <1>0, ServiceAssumption DEF IInv, TypeOK, Shape, OneOwner, Owns, Nothing, Parts
<1>3. OneOwner'
  BY <1>0, ServiceAssumption DEF IInv, TypeOK, Shape, OneOwner, Owns, Nothing, Parts
<1>4. Quiet'
  BY <1>0, ServiceAssumption DEF IInv, TypeOK, Shape, OneOwner, Owns, Quiet, NoUseAfterFree, Nothing, Parts
<1>5. Book'
  BY <1>0, ServiceAssumption DEF IInv, TypeOK, Shape, OneOwner, Owns, Quiet, NoUseAfterFree, Book, Nothing, Parts
<1>6. Named'
  BY <1>0 DEF IInv, TypeOK, Named, Nothing, Parts
<1> QED BY <1>1, <1>2, <1>3, <1>4, <1>5, <1>6 DEF IInv

LEMMA FollowsNull_preserves ==
  ASSUME IInv, NEW s \in Services, FollowsNull(s)
  PROVE  IInv'
<1> USE DEF FollowsNull, Calls, serviceVars, heapVars, contextVars, listinerVars, programVars
<1>0. IInv
  OBVIOUS
<1>1. TypeOK'
  BY <1>0 DEF IInv, TypeOK, Nothing, Parts
<1>2. Shape'
  BY <1>0, ServiceAssumption DEF IInv, TypeOK, Shape, OneOwner, Owns, Nothing, Parts
<1>3. OneOwner'
  BY <1>0, ServiceAssumption DEF IInv, TypeOK, Shape, OneOwner, Owns, Nothing, Parts
<1>4. Quiet'
  BY <1>0, ServiceAssumption DEF IInv, TypeOK, Shape, OneOwner, Owns, Quiet, NoUseAfterFree, Nothing, Parts
<1>5. Book'
  BY <1>0, ServiceAssumption DEF IInv, TypeOK, Shape, OneOwner, Owns, Quiet, NoUseAfterFree, Book, Nothing, Parts
<1>6. Named'
  BY <1>0 DEF IInv, TypeOK, Named, Nothing, Parts
<1> QED BY <1>1, <1>2, <1>3, <1>4, <1>5, <1>6 DEF IInv

LEMMA set_service_announcement_callback_preserves ==
  ASSUME IInv, NEW s \in Services, NEW func \in BOOLEAN, set_service_announcement_callback(s, func)
  PROVE  IInv'
<1> USE DEF set_service_announcement_callback, Calls, serviceVars, heapVars, contextVars, listinerVars, programVars
<1>0. IInv
  OBVIOUS
<1>1. TypeOK'
  BY <1>0 DEF IInv, TypeOK, Nothing, Parts
<1>2. Shape'
  BY <1>0, ServiceAssumption DEF IInv, TypeOK, Shape, OneOwner, Owns, Nothing, Parts
<1>3. OneOwner'
  BY <1>0, ServiceAssumption DEF IInv, TypeOK, Shape, OneOwner, Owns, Nothing, Parts
<1>4. Quiet'
  BY <1>0, ServiceAssumption DEF IInv, TypeOK, Shape, OneOwner, Owns, Quiet, NoUseAfterFree, Nothing, Parts
<1>5. Book'
  BY <1>0, ServiceAssumption DEF IInv, TypeOK, Shape, OneOwner, Owns, Quiet, NoUseAfterFree, Book, Nothing, Parts
<1>6. Named'
  BY <1>0 DEF IInv, TypeOK, Named, Nothing, Parts
<1> QED BY <1>1, <1>2, <1>3, <1>4, <1>5, <1>6 DEF IInv

LEMMA JoinsAnnouncer_preserves ==
  ASSUME IInv, NEW s \in Services, JoinsAnnouncer(s)
  PROVE  IInv'
<1> USE DEF JoinsAnnouncer, Joined, serviceVars, heapVars, contextVars, listinerVars, programVars
<1>0. IInv
  OBVIOUS
<1>1. TypeOK'
  BY <1>0 DEF IInv, TypeOK, Nothing, Parts
<1>2. Shape'
  BY <1>0, ServiceAssumption DEF IInv, TypeOK, Shape, OneOwner, Owns, Nothing, Parts
<1>3. OneOwner'
  BY <1>0, ServiceAssumption DEF IInv, TypeOK, Shape, OneOwner, Owns, Nothing, Parts
<1>4. Quiet'
  BY <1>0, ServiceAssumption DEF IInv, TypeOK, Shape, OneOwner, Owns, Quiet, NoUseAfterFree, Nothing, Parts
<1>5. Book'
  BY <1>0, ServiceAssumption DEF IInv, TypeOK, Shape, OneOwner, Owns, Quiet, NoUseAfterFree, Book, Nothing, Parts
<1>6. Named'
  BY <1>0 DEF IInv, TypeOK, Named, Nothing, Parts
<1> QED BY <1>1, <1>2, <1>3, <1>4, <1>5, <1>6 DEF IInv

LEMMA JoinsListiner_preserves ==
  ASSUME IInv, NEW s \in Services, JoinsListiner(s)
  PROVE  IInv'
<1> USE DEF JoinsListiner, Joined, serviceVars, heapVars, contextVars, listinerVars, programVars
<1>0. IInv
  OBVIOUS
<1>1. TypeOK'
  BY <1>0 DEF IInv, TypeOK, Nothing, Parts
<1>2. Shape'
  BY <1>0, ServiceAssumption DEF IInv, TypeOK, Shape, OneOwner, Owns, Nothing, Parts
<1>3. OneOwner'
  <2>1. CASE doing[s].call = "join"
    BY <1>0, <2>1, ServiceAssumption DEF IInv, TypeOK, Shape, OneOwner, Owns, Nothing, Parts
  <2>2. CASE doing[s].call = "destroy"
    BY <1>0, <2>2, ServiceAssumption DEF IInv, TypeOK, Shape, OneOwner, Owns, Nothing, Parts
  <2>3. CASE doing[s].call = "replace"
    BY <1>0, <2>3, ServiceAssumption DEF IInv, TypeOK, Shape, OneOwner, Owns, Nothing, Parts
  <2> QED BY <2>1, <2>2, <2>3
<1>4. Quiet'
  BY <1>0, ServiceAssumption DEF IInv, TypeOK, Shape, OneOwner, Owns, Quiet, NoUseAfterFree, Nothing, Parts
<1>5. Book'
  BY <1>0, ServiceAssumption DEF IInv, TypeOK, Shape, OneOwner, Owns, Quiet, NoUseAfterFree, Book, Nothing, Parts
<1>6. Named'
  BY <1>0 DEF IInv, TypeOK, Named, Nothing, Parts
<1> QED BY <1>1, <1>2, <1>3, <1>4, <1>5, <1>6 DEF IInv

LEMMA stop_preserves ==
  ASSUME IInv, NEW s \in Services, stop(s)
  PROVE  IInv'
<1> USE DEF stop, Stop, serviceVars, heapVars, contextVars, listinerVars, programVars
<1>0. IInv
  OBVIOUS
<1>1. TypeOK'
  BY <1>0 DEF IInv, TypeOK, Nothing, Parts
<1>2. Shape'
  BY <1>0, ServiceAssumption DEF IInv, TypeOK, Shape, OneOwner, Owns, Nothing, Parts
<1>3. OneOwner'
  BY <1>0, ServiceAssumption DEF IInv, TypeOK, Shape, OneOwner, Owns, Nothing, Parts
<1>4. Quiet'
  BY <1>0, ServiceAssumption DEF IInv, TypeOK, Shape, OneOwner, Owns, Quiet, NoUseAfterFree, Nothing, Parts
<1>5. Book'
  BY <1>0, ServiceAssumption DEF IInv, TypeOK, Shape, OneOwner, Owns, Quiet, NoUseAfterFree, Book, Nothing, Parts
<1>6. Named'
  BY <1>0 DEF IInv, TypeOK, Named, Nothing, Parts
<1> QED BY <1>1, <1>2, <1>3, <1>4, <1>5, <1>6 DEF IInv

LEMMA TestsCallback_preserves ==
  ASSUME IInv, NEW i \in Cells, TestsCallback(i)
  PROVE  IInv'
<1> USE DEF TestsCallback, serviceVars, heapVars, contextVars, listinerVars, programVars
<1>0. IInv
  OBVIOUS
<1>1. TypeOK'
  BY <1>0 DEF IInv, TypeOK, Nothing, Parts
<1>2. Shape'
  BY <1>0, ServiceAssumption DEF IInv, TypeOK, Shape, OneOwner, Owns, Nothing, Parts
<1>3. OneOwner'
  BY <1>0, ServiceAssumption DEF IInv, TypeOK, Shape, OneOwner, Owns, Nothing, Parts
<1>4. Quiet'
  BY <1>0, ServiceAssumption DEF IInv, TypeOK, Shape, OneOwner, Owns, Quiet, NoUseAfterFree, Nothing, Parts
<1>5. Book'
  BY <1>0, ServiceAssumption DEF IInv, TypeOK, Shape, OneOwner, Owns, Quiet, NoUseAfterFree, Book, Nothing, Parts
<1>6. Named'
  BY <1>0 DEF IInv, TypeOK, Named, Nothing, Parts
<1> QED BY <1>1, <1>2, <1>3, <1>4, <1>5, <1>6 DEF IInv

LEMMA CallsCallback_preserves ==
  ASSUME IInv, NEW i \in Cells, CallsCallback(i)
  PROVE  IInv'
<1> USE DEF CallsCallback, serviceVars, heapVars, contextVars, listinerVars, programVars
<1>0. IInv
  OBVIOUS
<1>1. TypeOK'
  BY <1>0 DEF IInv, TypeOK, Nothing, Parts
<1>2. Shape'
  BY <1>0, ServiceAssumption DEF IInv, TypeOK, Shape, OneOwner, Owns, Nothing, Parts
<1>3. OneOwner'
  BY <1>0, ServiceAssumption DEF IInv, TypeOK, Shape, OneOwner, Owns, Nothing, Parts
<1>4. Quiet'
  BY <1>0, ServiceAssumption DEF IInv, TypeOK, Shape, OneOwner, Owns, Quiet, NoUseAfterFree, Nothing, Parts
<1>5. Book'
  BY <1>0, ServiceAssumption DEF IInv, TypeOK, Shape, OneOwner, Owns, Quiet, NoUseAfterFree, Book, Nothing, Parts
<1>6. Named'
  BY <1>0 DEF IInv, TypeOK, Named, Nothing, Parts
<1> QED BY <1>1, <1>2, <1>3, <1>4, <1>5, <1>6 DEF IInv

LEMMA CallbackReturns_preserves ==
  ASSUME IInv, NEW i \in Cells, CallbackReturns(i)
  PROVE  IInv'
<1> USE DEF CallbackReturns, serviceVars, heapVars, contextVars, listinerVars, programVars
<1>0. IInv
  OBVIOUS
<1>1. TypeOK'
  BY <1>0 DEF IInv, TypeOK, Nothing, Parts
<1>2. Shape'
  BY <1>0, ServiceAssumption DEF IInv, TypeOK, Shape, OneOwner, Owns, Nothing, Parts
<1>3. OneOwner'
  BY <1>0, ServiceAssumption DEF IInv, TypeOK, Shape, OneOwner, Owns, Nothing, Parts
<1>4. Quiet'
  BY <1>0, ServiceAssumption DEF IInv, TypeOK, Shape, OneOwner, Owns, Quiet, NoUseAfterFree, Nothing, Parts
<1>5. Book'
  BY <1>0, ServiceAssumption DEF IInv, TypeOK, Shape, OneOwner, Owns, Quiet, NoUseAfterFree, Book, Nothing, Parts
<1>6. Named'
  BY <1>0 DEF IInv, TypeOK, Named, Nothing, Parts
<1> QED BY <1>1, <1>2, <1>3, <1>4, <1>5, <1>6 DEF IInv

LEMMA RunReturns_preserves ==
  ASSUME IInv, NEW i \in Cells, NEW part \in Parts, RunReturns(i, part)
  PROVE  IInv'
<1> USE DEF RunReturns, serviceVars, heapVars, contextVars, listinerVars, programVars
<1>0. IInv
  OBVIOUS
<1>1. TypeOK'
  BY <1>0 DEF IInv, TypeOK, Nothing, Parts
<1>2. Shape'
  BY <1>0, ServiceAssumption DEF IInv, TypeOK, Shape, OneOwner, Owns, Nothing, Parts
<1>3. OneOwner'
  BY <1>0, ServiceAssumption DEF IInv, TypeOK, Shape, OneOwner, Owns, Nothing, Parts
<1>4. Quiet'
  BY <1>0, ServiceAssumption DEF IInv, TypeOK, Shape, OneOwner, Owns, Quiet, NoUseAfterFree, Nothing, Parts
<1>5. Book'
  BY <1>0, ServiceAssumption DEF IInv, TypeOK, Shape, OneOwner, Owns, Quiet, NoUseAfterFree, Book, Nothing, Parts
<1>6. Named'
  BY <1>0 DEF IInv, TypeOK, Named, Nothing, Parts
<1> QED BY <1>1, <1>2, <1>3, <1>4, <1>5, <1>6 DEF IInv

LEMMA NextPreserves == IInv /\ [Next]_vars => IInv'
<1> SUFFICES ASSUME IInv, [Next]_vars PROVE IInv'
  OBVIOUS
<1>1. ASSUME NEW s \in Services, Owner(s) PROVE IInv'
  <2>1. CASE \E obj \in Services : MoveAssign(s, obj) \/ MoveConstruct(s, obj)
    BY <2>1, MoveAssign_preserves, MoveConstruct_preserves
  <2>2. CASE \E func \in BOOLEAN : set_service_announcement_callback(s, func)
    BY <2>2, set_service_announcement_callback_preserves
  <2> QED
    BY <1>1, <2>1, <2>2, Construct_preserves, start_preserves, StartsListiner_preserves,
       join_preserves, Destroy_preserves, FollowsNull_preserves,
       JoinsAnnouncer_preserves, JoinsListiner_preserves DEF Owner
<1>2. ASSUME NEW s \in Services, stop(s) PROVE IInv'
  BY <1>2, stop_preserves
<1>3. ASSUME NEW i \in Cells, Threads(i) PROVE IInv'
  BY <1>3, TestsCallback_preserves, CallsCallback_preserves, CallbackReturns_preserves,
     RunReturns_preserves DEF Threads
<1>4. CASE Dead \/ UNCHANGED vars
  <2> USE <1>4 DEF Dead, vars, serviceVars, heapVars, contextVars, listinerVars, programVars
  <2>1. TypeOK' /\ Shape'
    BY DEF IInv, TypeOK, Shape
  <2>2. OneOwner' /\ Quiet'
    BY DEF IInv, OneOwner, Owns, Quiet, NoUseAfterFree
  <2>3. Book' /\ Named'
    BY DEF IInv, Book, Named
  <2> QED BY <2>1, <2>2, <2>3 DEF IInv
<1> QED BY <1>1, <1>2, <1>3, <1>4 DEF Next

THEOREM Inductive == Spec => []IInv
<1>1. Init => IInv
  BY InitEstablishes
<1>2. IInv /\ [Next]_vars => IInv'
  BY NextPreserves
<1> QED BY <1>1, <1>2, PTL DEF Spec

\* The variables of Service.cpp's model keep their types.
THEOREM TypeCorrect == Spec => []TypeOK
<1>1. IInv => TypeOK
  BY DEF IInv
<1> QED BY <1>1, Inductive, PTL

\* ~Implementation and the two assignments wait for both threads before the
\* memory they use is given back, whatever state the service was in.
THEOREM NoUseAfterFreeHolds == Spec => []NoUseAfterFree
<1>1. IInv => NoUseAfterFree
  BY DEF IInv, Quiet
<1> QED BY <1>1, Inductive, PTL

\* The moves of Service.cpp:119 and 210 keep every Implementation in one
\* service's hands.
THEOREM OneOwnerHolds == Spec => []OneOwner
<1>1. IInv => OneOwner
  BY DEF IInv
<1> QED BY <1>1, Inductive, PTL

\* A program that uses its services by the book is not terminated by a
\* joinable thread, a null pointer or an empty callback.
THEOREM SafeByTheBookHolds == Spec => []SafeByTheBook
<1>1. IInv => SafeByTheBook
  BY DEF IInv, Book, SafeByTheBook
<1> QED BY <1>1, Inductive, PTL

\* What Service::start announces of a valid URI is no endpoint.
THEOREM AnnouncesNoEndpointHolds == Spec => []AnnouncesNoEndpoint
<1>1. ASSUME NEW s \in Services, is_valid(address(s))
      PROVE  ~regex_match(c_str(address(s)))
  <2>1. Given[s] \in [uri : Text] \cup [transport : Text, address : Text, port : Numbers]
    BY ServiceAssumption
  <2>2. CASE "uri" \in DOMAIN Given[s]
    <3>1. Given[s].uri \in Text /\ address(s) = URI(Given[s].uri)
      BY <2>1, <2>2 DEF address
    <3> QED BY <3>1, OneTextIsNoEndpoint
  <2>3. CASE "uri" \notin DOMAIN Given[s]
    <3>1. /\ Given[s].transport \in Text /\ Given[s].address \in Text /\ Given[s].port \in Numbers
          /\ address(s) = URI_of_parts(Given[s].transport, Given[s].address, Given[s].port)
      BY <2>1, <2>3 DEF address
    <3> QED BY <1>1, <3>1, PartsAreNoEndpoint
  <2> QED BY <2>2, <2>3
<1>2. IInv => AnnouncesNoEndpoint
  <2> SUFFICES ASSUME IInv, \A s \in Services : is_valid(address(s)), NEW i \in allocated
               PROVE  ~regex_match(announced[i])
    BY DEF AnnouncesNoEndpoint
  <2>1. PICK s \in Services : announced[i] = c_str(address(s))
    BY DEF IInv, Named
  <2> QED BY <2>1, <1>1
<1> QED BY <1>2, Inductive, PTL

\* Service::stop is for good: no step makes a stopped context ready again, and
\* a handler begins only on one that is ready.
THEOREM StoppedForGoodHolds == Spec => StoppedForGood
<1> DEFINE Kept == \A i \in allocated \cap allocated' :
       stopped[i]["listiner"] =>
         /\ stopped'[i]["listiner"]
         /\ handler[i] = "idle" => handler'[i] = "idle"
<1>1. IInv /\ [Next]_vars => Kept
  <2> SUFFICES ASSUME IInv, [Next]_vars, NEW i \in allocated, i \in allocated',
                      stopped[i]["listiner"]
               PROVE  /\ stopped'[i]["listiner"]
                      /\ handler[i] = "idle" => handler'[i] = "idle"
    OBVIOUS
  <2> USE DEF serviceVars, heapVars, contextVars, listinerVars, programVars, Parts
  <2>0. TypeOK /\ i \in Cells
    BY DEF IInv, TypeOK
  <2>1. ASSUME NEW s \in Services, Owner(s) \/ stop(s)
        PROVE  stopped'[i]["listiner"] /\ handler'[i] = handler[i]
    <3>1. CASE Construct(s)
      BY <2>0, <3>1 DEF Construct, TypeOK
    <3>2. CASE start(s) \/ StartsListiner(s) \/ join(s) \/ FollowsNull(s)
      BY <3>2 DEF start, StartsListiner, join, FollowsNull, Run
    <3>3. CASE Destroy(s) \/ stop(s)
      BY <2>0, <3>3, SMTT(30) DEF Destroy, stop, Stop, TypeOK
    <3>4. ASSUME NEW obj \in Services, MoveAssign(s, obj)
          PROVE  stopped'[i]["listiner"] /\ handler'[i] = handler[i]
      BY <2>0, <3>4, SMTT(30) DEF MoveAssign, Replaces, Stop, TypeOK
    <3>5. ASSUME NEW obj \in Services, MoveConstruct(s, obj)
          PROVE  stopped'[i]["listiner"] /\ handler'[i] = handler[i]
      BY <3>5 DEF MoveConstruct
    <3>6. ASSUME NEW func \in BOOLEAN, set_service_announcement_callback(s, func)
          PROVE  stopped'[i]["listiner"] /\ handler'[i] = handler[i]
      BY <3>6 DEF set_service_announcement_callback
    <3>7. CASE JoinsAnnouncer(s) \/ JoinsListiner(s)
      BY <3>7 DEF JoinsAnnouncer, JoinsListiner
    <3> QED BY <2>1, <3>1, <3>2, <3>3, <3>4, <3>5, <3>6, <3>7 DEF Owner
  <2>2. ASSUME NEW j \in Cells, Threads(j)
        PROVE  /\ stopped'[i]["listiner"]
               /\ handler[i] = "idle" => handler'[i] = "idle"
    <3>1. CASE TestsCallback(j)
      BY <2>0, <3>1 DEF TestsCallback, TypeOK
    <3>2. CASE CallsCallback(j) \/ CallbackReturns(j)
      BY <2>0, <3>2 DEF CallsCallback, CallbackReturns, TypeOK
    <3>3. ASSUME NEW part \in Parts, RunReturns(j, part)
          PROVE  stopped'[i]["listiner"] /\ handler'[i] = handler[i]
      BY <2>0, <3>3 DEF RunReturns, TypeOK
    <3> QED BY <2>2, <3>1, <3>2, <3>3 DEF Threads
  <2>3. CASE Dead \/ UNCHANGED vars
    BY <2>3 DEF Dead, vars
  <2> QED BY <2>1, <2>2, <2>3 DEF Next
<1>2. IInv /\ [Next]_vars => [Kept]_vars
  BY <1>1
<1> QED BY <1>2, Inductive, PTL DEF Spec, StoppedForGood
-----------------------------------------------------------------------------
(* Progress.  As no prover here expands ENABLED, the theorems below name    *)
(* for each fair action the condition under which its guards let it happen, *)
(* and ask that it then be enabled; TLC, which evaluates ENABLED, checks    *)
(* the same properties without.                                             *)

Joining(s) == doing[s].call \in {"join", "destroy", "replace"}

CallReady(s) ==
  /\ died = "no"
  /\ doing[s].call = "start" \/ (Joining(s) /\ Joined(doing[s].cell, doing[s].part))

ReturnReady(i, part) ==
  /\ died = "no" /\ stopped[i][part] /\ thread[i][part] = "running"
  /\ part = "listiner" => handler[i] = "idle"

OwnersGoOn ==
  \A s \in Services :
    [](CallReady(s) =>
         ENABLED <<StartsListiner(s) \/ JoinsAnnouncer(s) \/ JoinsListiner(s)>>_vars)

HandlersGoOn ==
  \A i \in Cells :
    /\ [](died = "no" /\ handler[i] = "tested" => ENABLED <<CallsCallback(i)>>_vars)
    /\ [](died = "no" /\ handler[i] = "calling" => ENABLED <<CallbackReturns(i)>>_vars)

RunsGoOn ==
  \A i \in Cells : \A part \in Parts :
    [](ReturnReady(i, part) => ENABLED <<stopped[i][part] /\ RunReturns(i, part)>>_vars)

\* A step under which a context of a cell that was stopped stays so, and only
\* finishes the handler it is in.
Finishes(i, part) ==
  /\ stopped'[i][part]
  /\ part = "listiner" =>
       /\ handler[i] = "idle" => handler'[i] = "idle"
       /\ handler[i] = "calling" => handler'[i] \in {"calling", "idle"}

LEMMA OnlyFinishes ==
  ASSUME IInv, NEW i \in Cells, NEW part \in Parts, stopped[i][part],
         thread[i][part] = "running", [Next]_vars
  PROVE  Finishes(i, part) \/ thread'[i][part] # "running"
<1> USE DEF serviceVars, heapVars, contextVars, listinerVars, programVars, Parts, Finishes
<1>0. TypeOK
  BY DEF IInv
<1>1. ASSUME NEW s \in Services, Owner(s) \/ stop(s)
      PROVE  /\ stopped'[i][part] \/ thread'[i][part] # "running"
             /\ handler'[i] = handler[i] \/ thread'[i][part] # "running"
  <2>1. CASE Construct(s)
    <3>1. PICK j \in Cells \ allocated :
            /\ stopped' = [stopped EXCEPT ![j] = [p \in Parts |-> FALSE]]
            /\ thread' = [thread EXCEPT ![j] = [p \in Parts |-> "none"]]
            /\ handler' = [handler EXCEPT ![j] = "idle"]
      BY <2>1 DEF Construct
    <3>2. CASE i = j
      BY <1>0, <3>1, <3>2 DEF TypeOK
    <3>3. CASE i # j
      BY <1>0, <3>1, <3>3 DEF TypeOK
    <3> QED BY <3>2, <3>3
  <2>2. CASE start(s) \/ StartsListiner(s) \/ join(s) \/ FollowsNull(s)
    BY <2>2 DEF start, StartsListiner, join, FollowsNull, Run
  <2>3. CASE Destroy(s) \/ stop(s)
    BY <1>0, <2>3, SMTT(30) DEF Destroy, stop, Stop, TypeOK
  <2>4. ASSUME NEW obj \in Services, MoveAssign(s, obj)
        PROVE  stopped'[i][part] /\ handler'[i] = handler[i]
    BY <1>0, <2>4, SMTT(30) DEF MoveAssign, Replaces, Stop, TypeOK
  <2>5. ASSUME NEW obj \in Services, MoveConstruct(s, obj)
        PROVE  stopped'[i][part] /\ handler'[i] = handler[i]
    BY <2>5 DEF MoveConstruct
  <2>6. ASSUME NEW func \in BOOLEAN, set_service_announcement_callback(s, func)
        PROVE  stopped'[i][part] /\ handler'[i] = handler[i]
    BY <2>6 DEF set_service_announcement_callback
  <2>7. CASE JoinsAnnouncer(s) \/ JoinsListiner(s)
    BY <2>7 DEF JoinsAnnouncer, JoinsListiner
  <2> QED BY <1>1, <2>1, <2>2, <2>3, <2>4, <2>5, <2>6, <2>7 DEF Owner
<1>2. ASSUME NEW j \in Cells, Threads(j)
      PROVE  Finishes(i, part)
  <2>1. CASE TestsCallback(j)
    BY <1>0, <2>1 DEF TestsCallback, TypeOK
  <2>2. CASE CallsCallback(j) \/ CallbackReturns(j)
    BY <1>0, <2>2 DEF CallsCallback, CallbackReturns, TypeOK
  <2>3. ASSUME NEW p \in Parts, RunReturns(j, p)
        PROVE  Finishes(i, part)
    BY <1>0, <2>3 DEF RunReturns, TypeOK
  <2> QED BY <1>2, <2>1, <2>2, <2>3 DEF Threads
<1>3. CASE Dead \/ UNCHANGED vars
  BY <1>3 DEF Dead, vars
<1>4. handler'[i] = handler[i] /\ stopped'[i][part] => Finishes(i, part)
  BY <1>0 DEF TypeOK
<1> QED BY <1>1, <1>2, <1>3, <1>4 DEF Next

ThreadEnds(i, part) == stopped[i][part] ~> (thread[i][part] # "running" \/ died # "no")

\* Service.cpp:149: stop() ends the thread of a context, which finishes at most
\* the handler it is in.
LEMMA StopEndsOne ==
  ASSUME NEW i \in Cells, NEW part \in Parts
  PROVE  FairSpec /\ HandlersGoOn /\ RunsGoOn => ThreadEnds(i, part)
<1> DEFINE Stopped == stopped[i][part]
           Ended == thread[i][part] # "running" \/ died # "no"
           Ending == Stopped /\ ~Ended
           Testing == Ending /\ part = "listiner" /\ handler[i] = "tested"
           Calling == Ending /\ part = "listiner" /\ handler[i] = "calling"
           Idle == Ending /\ (part = "listiner" => handler[i] = "idle")
<1>1. IInv /\ Stopped => Testing \/ Calling \/ Idle \/ Ended
  BY DEF IInv, TypeOK
<1>2. /\ IInv /\ IInv' /\ Testing /\ [Next]_vars => Testing' \/ Calling' \/ Idle' \/ Ended'
      /\ IInv /\ IInv' /\ Calling /\ [Next]_vars => Calling' \/ Idle' \/ Ended'
      /\ IInv /\ IInv' /\ Idle /\ [Next]_vars => Idle' \/ Ended'
  <2> SUFFICES ASSUME IInv, IInv', Ending, [Next]_vars, ~Ended'
               PROVE  /\ Testing' \/ Calling' \/ Idle'
                      /\ Calling => Calling' \/ Idle'
                      /\ Idle => Idle'
    OBVIOUS
  <2>1. Finishes(i, part)
    BY OnlyFinishes
  <2>2. handler'[i] \in {"idle", "tested", "calling"}
    BY DEF IInv, TypeOK
  <2> QED BY <2>1, <2>2 DEF Finishes
<1>3. IInv /\ Testing /\ <<CallsCallback(i)>>_vars => ~Testing'
  BY DEF CallsCallback, IInv, TypeOK
<1>4. IInv /\ Calling /\ <<CallbackReturns(i)>>_vars => ~Calling'
  BY DEF CallbackReturns, IInv, TypeOK
<1>5. IInv /\ Idle /\ <<stopped[i][part] /\ RunReturns(i, part)>>_vars => Ended'
  BY DEF RunReturns, IInv, TypeOK
<1>6. /\ Testing => died = "no" /\ handler[i] = "tested"
      /\ Calling => died = "no" /\ handler[i] = "calling"
      /\ Idle => ReturnReady(i, part)
  BY DEF ReturnReady
<1>7. FairSpec => Spec /\ HandlerGoesOn(i) /\ RunGoesOn(i, part)
  BY DEF FairSpec
<1>8. /\ HandlersGoOn =>
           /\ [](died = "no" /\ handler[i] = "tested" => ENABLED <<CallsCallback(i)>>_vars)
           /\ [](died = "no" /\ handler[i] = "calling" => ENABLED <<CallbackReturns(i)>>_vars)
      /\ RunsGoOn =>
           [](ReturnReady(i, part) => ENABLED <<stopped[i][part] /\ RunReturns(i, part)>>_vars)
  BY DEF HandlersGoOn, RunsGoOn
<1> HIDE DEF Stopped, Ended, Testing, Calling, Idle
<1>9. FairSpec /\ HandlersGoOn /\ RunsGoOn => (Stopped ~> Ended)
  BY <1>1, <1>2, <1>3, <1>4, <1>5, <1>6, <1>7, <1>8, Inductive, PTL
     DEF Spec, HandlerGoesOn, RunGoesOn
<1> QED BY <1>9, PTL DEF ThreadEnds, Stopped, Ended

\* stop() ends both threads, for any number of services and cells.
THEOREM StopEndsThreadsHolds == FairSpec /\ HandlersGoOn /\ RunsGoOn => StopEndsThreads
BY StopEndsOne DEF StopEndsThreads, ThreadEnds
\* The destructor and the assignment have stopped what they wait for.
Stopping ==
  \A s \in Services : doing[s].call \in {"destroy", "replace"} =>
    \A part \in Parts : stopped[doing[s].cell][part]

\* What the steps of others leave alone while the owner of s is inside a call
\* on its cell: the call, what was stopped and what has ended.
Untouched(s) ==
  LET i == doing[s].cell
  IN /\ doing'[s] = doing[s]
     /\ \A part \in Parts :
          /\ stopped[i][part] => stopped'[i][part]
          /\ Joining(s) /\ thread[i][part] # "running" => thread'[i][part] # "running"

LEMMA CallsAreUndisturbed ==
  ASSUME IInv, NEW s \in Services, doing[s].call # "nothing", [Next]_vars
  PROVE  \/ StartsListiner(s) \/ JoinsAnnouncer(s) \/ JoinsListiner(s)
         \/ Untouched(s)
<1> USE DEF serviceVars, heapVars, contextVars, listinerVars, programVars, Parts, Nothing
<1> DEFINE i == doing[s].cell
<1>0. TypeOK /\ Shape /\ OneOwner
  BY DEF IInv
<1>1. s \in alive /\ i \in Cells /\ Owns(s, i) /\ i \in allocated
  <2>1. s \in alive
    BY <1>0 DEF Shape
  <2>2. doing[s].call \in {"start", "join", "destroy", "replace"} /\ i \in Cells \cup {None}
    BY <1>0 DEF TypeOK
  <2>3. i # None
    BY <1>0, <2>2 DEF Shape
  <2>4. Owns(s, i)
    BY <1>0, <2>1, <2>2 DEF Shape, Owns
  <2> QED BY <1>0, <2>1, <2>2, <2>3, <2>4 DEF OneOwner
<1>2. \A t \in Services : Owns(t, i) => t = s
  BY <1>0, <1>1 DEF OneOwner
<1> HIDE DEF i
<1> DEFINE Kept == \A part \in Parts :
               /\ stopped[i][part] => stopped'[i][part]
               /\ thread[i][part] # "running" => thread'[i][part] # "running"
<1>3. ASSUME UNCHANGED doing, UNCHANGED <<stopped, thread>> PROVE Untouched(s)
  BY <1>3 DEF Untouched, i
<1>4. ASSUME doing'[s] = doing[s], Kept PROVE Untouched(s)
  BY <1>4 DEF Untouched, i
<1>5. ASSUME NEW t \in Services, Owner(t) \/ stop(t),
             ~StartsListiner(s), ~JoinsAnnouncer(s), ~JoinsListiner(s)
      PROVE  Untouched(s)
  <2>1. CASE Construct(t)
    <3>1. PICK j \in Cells \ allocated :
            /\ stopped' = [stopped EXCEPT ![j] = [p \in Parts |-> FALSE]]
            /\ thread' = [thread EXCEPT ![j] = [p \in Parts |-> "none"]]
      BY <2>1 DEF Construct
    <3>2. i # j
      BY <1>1, <3>1
    <3>3. doing' = doing
      BY <2>1 DEF Construct
    <3> QED BY <1>0, <1>1, <1>4, <3>1, <3>2, <3>3 DEF TypeOK
  <2>2. CASE start(t)
    <3>1. t # s /\ t \in alive
      BY <2>2 DEF start, Calls
    <3>2. _impl[t] # i
      BY <1>2, <3>1 DEF Owns
    <3>3. _impl[t] \in Cells
      BY <1>0, <2>2 DEF start, TypeOK
    <3>4. thread'[i] = thread[i] /\ stopped' = stopped
      BY <1>0, <1>1, <2>2, <3>2, <3>3 DEF start, Run, TypeOK
    <3>5. doing'[s] = doing[s]
      BY <1>0, <2>2, <3>1 DEF start, TypeOK
    <3> QED BY <1>4, <3>4, <3>5
  <2>3. CASE StartsListiner(t)
    <3>1. t # s
      BY <1>5, <2>3
    <3>2. t \in alive /\ doing[t].cell = _impl[t] /\ _impl[t] # None
      BY <1>0, <2>3 DEF StartsListiner, Shape
    <3>3. doing[t].cell # i /\ doing[t].cell \in Cells
      BY <1>0, <1>2, <3>1, <3>2 DEF Owns, TypeOK
    <3>4. thread'[i] = thread[i] /\ stopped' = stopped
      BY <1>0, <1>1, <2>3, <3>3 DEF StartsListiner, Run, TypeOK
    <3>5. doing'[s] = doing[s]
      BY <1>0, <2>3, <3>1 DEF StartsListiner, TypeOK
    <3> QED BY <1>4, <3>4, <3>5
  <2>4. CASE join(t) \/ Destroy(t)
    <3>1. t # s
      BY <2>4 DEF join, Destroy, Calls
    <3>2. doing'[s] = doing[s]
      BY <1>0, <2>4, <3>1 DEF join, Destroy, Waits, TypeOK
    <3>3. _impl[t] \in Cells
      BY <1>0, <2>4 DEF join, Destroy, TypeOK
    <3>4. thread' = thread
      BY <2>4 DEF join, Destroy
    <3>5. \A part \in Parts : stopped[i][part] => stopped'[i][part]
      BY <1>0, <1>1, <2>4, <3>3 DEF join, Destroy, Stop, TypeOK
    <3> QED BY <1>4, <3>2, <3>4, <3>5
  <2>5. CASE stop(t)
    <3>1. _impl[t] \in Cells
      BY <1>0, <2>5 DEF stop, TypeOK
    <3>2. \A part \in Parts : stopped[i][part] => stopped'[i][part]
      BY <1>0, <1>1, <2>5, <3>1 DEF stop, Stop, TypeOK
    <3>3. UNCHANGED <<doing, thread>>
      BY <2>5 DEF stop
    <3> QED BY <1>4, <3>2, <3>3
  <2>6. ASSUME NEW obj \in Services, MoveAssign(t, obj) PROVE Untouched(s)
    <3>1. t # s
      BY <2>6 DEF MoveAssign, Calls
    <3>2. doing'[s] = doing[s]
      BY <1>0, <2>6, <3>1 DEF MoveAssign, Replaces, Waits, TypeOK
    <3>3. thread' = thread
      BY <2>6 DEF MoveAssign
    <3>4. \A part \in Parts : stopped[i][part] => stopped'[i][part]
      <4>1. CASE _impl[t] = None
        BY <2>6, <4>1 DEF MoveAssign, Replaces
      <4>2. CASE _impl[t] # None
        <5>1. _impl[t] \in Cells
          BY <1>0, <4>2 DEF TypeOK
        <5>2. Stop(_impl[t])
          BY <2>6, <4>2 DEF MoveAssign, Replaces
        <5> QED BY <1>0, <1>1, <5>1, <5>2 DEF Stop, TypeOK
      <4> QED BY <4>1, <4>2
    <3> QED BY <1>4, <3>2, <3>3, <3>4
  <2>7. ASSUME NEW obj \in Services, MoveConstruct(t, obj) PROVE Untouched(s)
    BY <1>3, <2>7 DEF MoveConstruct
  <2>8. CASE FollowsNull(t)
    BY <1>3, <2>8 DEF FollowsNull
  <2>9. ASSUME NEW func \in BOOLEAN, set_service_announcement_callback(t, func)
        PROVE  Untouched(s)
    BY <1>3, <2>9 DEF set_service_announcement_callback
  <2>10. CASE JoinsAnnouncer(t) \/ JoinsListiner(t)
    <3>1. t # s
      BY <1>5, <2>10
    <3>2. doing'[s] = doing[s] /\ stopped' = stopped
      BY <1>0, <2>10, <3>1 DEF JoinsAnnouncer, JoinsListiner, TypeOK
    <3>3. \A part \in Parts : thread[i][part] # "running" => thread'[i][part] # "running"
      BY <1>0, <1>1, <2>10 DEF JoinsAnnouncer, JoinsListiner, TypeOK
    <3> QED BY <1>4, <3>2, <3>3
  <2> QED
    BY <1>5, <2>1, <2>2, <2>3, <2>4, <2>5, <2>6, <2>7, <2>8, <2>9, <2>10 DEF Owner
<1>6. ASSUME NEW j \in Cells, Threads(j) PROVE Untouched(s)
  <2>1. CASE TestsCallback(j) \/ CallsCallback(j) \/ CallbackReturns(j)
    BY <1>3, <2>1 DEF TestsCallback, CallsCallback, CallbackReturns
  <2>2. ASSUME NEW p \in Parts, RunReturns(j, p) PROVE Untouched(s)
    <3>1. doing' = doing
      BY <2>2 DEF RunReturns
    <3>2. Kept
      BY <1>0, <1>1, <2>2 DEF RunReturns, TypeOK
    <3> QED BY <1>4, <3>1, <3>2
  <2> QED BY <1>6, <2>1, <2>2 DEF Threads
<1>7. CASE Dead \/ UNCHANGED vars
  BY <1>3, <1>7 DEF Dead, vars
<1> QED BY <1>5, <1>6, <1>7 DEF Next

\* What the call of s itself does.
LEMMA CallsGoOn ==
  ASSUME IInv, NEW s \in Services
  PROVE  /\ StartsListiner(s) \/ JoinsListiner(s) => doing'[s] = Nothing
         /\ JoinsAnnouncer(s) =>
              /\ doing'[s].call = doing[s].call /\ doing'[s].cell = doing[s].cell
              /\ doing'[s].part = "listiner" /\ doing[s].part = "announcer"
              /\ stopped' = stopped
              /\ thread'[doing[s].cell]["listiner"] = thread[doing[s].cell]["listiner"]
BY DEF StartsListiner, JoinsListiner, JoinsAnnouncer, IInv, TypeOK, Parts

LEMMA StoppingInit == Init => Stopping
BY DEF Init, Stopping, Nothing

LEMMA StoppingStep == IInv /\ Stopping /\ [Next]_vars => Stopping'
<1> SUFFICES ASSUME IInv, Stopping, [Next]_vars,
                    NEW s \in Services, doing'[s].call \in {"destroy", "replace"},
                    NEW part \in Parts
             PROVE  stopped'[doing'[s].cell][part]
  BY DEF Stopping
<1>1. CASE doing[s].call # "nothing"
  <2>1. CASE StartsListiner(s) \/ JoinsListiner(s)
    BY <2>1, CallsGoOn DEF Nothing
  <2>2. CASE JoinsAnnouncer(s)
    BY <2>2, CallsGoOn DEF Stopping
  <2>3. CASE Untouched(s)
    BY <2>3 DEF Untouched, Stopping
  <2> QED BY <1>1, <2>1, <2>2, <2>3, CallsAreUndisturbed
<1>2. CASE doing[s].call = "nothing"
  <2> USE DEF serviceVars, heapVars, contextVars, listinerVars, programVars
  <2>1. TypeOK
    BY DEF IInv
  <2>2. ASSUME NEW i \in Cells, Stop(i), doing'[s].cell = i PROVE stopped'[doing'[s].cell][part]
    BY <2>1, <2>2 DEF Stop, TypeOK
  <2>3. ASSUME NEW t \in Services, Owner(t) PROVE stopped'[doing'[s].cell][part]
    <3>1. CASE Destroy(t)
      <4>1. t = s
        BY <1>2, <2>1, <3>1 DEF Destroy, Waits, TypeOK
      <4>2. doing'[s].cell = _impl[s] /\ _impl[s] \in Cells /\ Stop(_impl[s])
        BY <2>1, <3>1, <4>1 DEF Destroy, Waits, TypeOK
      <4> QED BY <2>2, <4>2
    <3>2. ASSUME NEW obj \in Services, MoveAssign(t, obj) PROVE stopped'[doing'[s].cell][part]
      <4>1. t = s /\ _impl[t] # None
        BY <1>2, <2>1, <3>2 DEF MoveAssign, Replaces, Waits, TypeOK
      <4>2. doing'[s].cell = _impl[s] /\ _impl[s] \in Cells /\ Stop(_impl[s])
        BY <2>1, <3>2, <4>1 DEF MoveAssign, Replaces, Waits, TypeOK
      <4> QED BY <2>2, <4>2
    <3>3. ASSUME ~Destroy(t), ~\E obj \in Services : MoveAssign(t, obj)
          PROVE  FALSE
      <4>1. doing' = doing \/ start(t) \/ StartsListiner(t) \/ join(t)
              \/ JoinsAnnouncer(t) \/ JoinsListiner(t)
        BY <2>3, <3>3 DEF Owner, Construct, MoveConstruct, FollowsNull,
                          set_service_announcement_callback
      <4>2. CASE t = s
        BY <1>2, <2>1, <4>1, <4>2 DEF start, StartsListiner, join, Waits, JoinsAnnouncer,
                                      JoinsListiner, TypeOK, Nothing
      <4>3. CASE t # s
        BY <1>2, <2>1, <4>1, <4>3 DEF start, StartsListiner, join, Waits, JoinsAnnouncer,
                                      JoinsListiner, TypeOK, Nothing
      <4> QED BY <4>2, <4>3
    <3> QED BY <3>1, <3>2, <3>3
  <2>4. ASSUME ~\E t \in Services : Owner(t) PROVE doing' = doing
    BY <2>4 DEF Next, Threads, stop, TestsCallback, CallsCallback, CallbackReturns,
                RunReturns, Dead, vars
  <2> QED BY <1>2, <2>3, <2>4
<1> QED BY <1>1, <1>2

LEMMA OwnersProgress == Spec => [](IInv /\ Stopping)
<1>1. Init => IInv /\ Stopping
  BY InitEstablishes, StoppingInit
<1>2. IInv /\ Stopping /\ [Next]_vars => (IInv /\ Stopping)'
  BY NextPreserves, StoppingStep
<1> QED BY <1>1, <1>2, PTL DEF Spec

\* Service.cpp:132 and 156: the owner comes back from start(), from the
\* destructor and the assignment, and from join() once both contexts were
\* stopped: it waits for the announcer and then for the listener, and neither
\* is started again meanwhile.
THEOREM OwnerReturnsHolds ==
  FairSpec /\ OwnersGoOn /\ HandlersGoOn /\ RunsGoOn => OwnerReturns
<1> SUFFICES ASSUME NEW s \in Services, NEW i \in Cells
             PROVE  FairSpec /\ OwnersGoOn /\ HandlersGoOn /\ RunsGoOn =>
                      ((/\ doing[s].cell = i
                        /\ \/ doing[s].call \in {"start", "destroy", "replace"}
                           \/ doing[s].call = "join" /\ \A part \in Parts : stopped[i][part])
                         ~> (doing[s] = Nothing \/ died # "no"))
  BY DEF OwnerReturns
<1> DEFINE Inv == IInv /\ Stopping
           Inside == /\ doing[s].cell = i
                     /\ \/ doing[s].call \in {"start", "destroy", "replace"}
                        \/ doing[s].call = "join" /\ \A part \in Parts : stopped[i][part]
           Out == doing[s] = Nothing \/ died # "no"
           In == Inside /\ ~Out
           Starting == In /\ doing[s].call = "start"
           First == In /\ Joining(s) /\ doing[s].part = "announcer"
           Second == In /\ Joining(s) /\ doing[s].part = "listiner"
           StoppedA == stopped[i]["announcer"]
           StoppedL == stopped[i]["listiner"]
           EndedA == thread[i]["announcer"] # "running"
           EndedL == thread[i]["listiner"] # "running"
           Dies == died # "no"
<1>1. Inv /\ Inside => Starting \/ First \/ Second \/ Out
  BY DEF IInv, TypeOK, Joining, Parts
<1>2. Inv /\ (First \/ Second) => StoppedA /\ StoppedL
  BY DEF Stopping, Joining, Parts
<1>3. Inv /\ Inv' /\ In /\ [Next]_vars =>
        \/ Out'
        \/ First /\ Second'
        \/ /\ Starting => Starting'
           /\ First => First' /\ (EndedA => EndedA')
           /\ Second => Second' /\ (EndedL => EndedL')
  <2> SUFFICES ASSUME Inv, Inv', In, [Next]_vars, ~Out'
               PROVE  \/ First /\ Second'
                      \/ /\ Starting => Starting'
                         /\ First => First' /\ (EndedA => EndedA')
                         /\ Second => Second' /\ (EndedL => EndedL')
    OBVIOUS
  <2>1. doing[s].call # "nothing"
    OBVIOUS
  <2>2. CASE StartsListiner(s) \/ JoinsListiner(s)
    BY <2>2, CallsGoOn
  <2>3. CASE JoinsAnnouncer(s)
    <3>1. doing[s].call \in {"join", "destroy", "replace"}
      BY <2>3 DEF JoinsAnnouncer
    <3>2. /\ doing'[s].call = doing[s].call /\ doing'[s].cell = i
          /\ doing'[s].part = "listiner" /\ doing[s].part = "announcer"
          /\ stopped' = stopped
      BY <2>3, CallsGoOn
    <3> QED BY <2>3, <3>1, <3>2 DEF Joining
  <2>4. CASE Untouched(s)
    <3>1. /\ doing'[s] = doing[s] /\ doing[s].cell = i
          /\ \A part \in Parts :
               /\ stopped[i][part] => stopped'[i][part]
               /\ Joining(s) /\ thread[i][part] # "running" => thread'[i][part] # "running"
      BY <2>4 DEF Untouched
    <3>2. In'
      BY <3>1
    <3> QED BY <3>1, <3>2 DEF Joining, Parts
  <2> QED BY <2>1, <2>2, <2>3, <2>4, CallsAreUndisturbed
<1>4. Inv /\ Starting /\ <<StartsListiner(s) \/ JoinsAnnouncer(s) \/ JoinsListiner(s)>>_vars => Out'
  BY CallsGoOn DEF JoinsAnnouncer
<1>5. Inv /\ First /\ <<StartsListiner(s) \/ JoinsAnnouncer(s) \/ JoinsListiner(s)>>_vars => ~First'
  BY CallsGoOn DEF StartsListiner, JoinsListiner, Joining
<1>6. Inv /\ Second /\ <<StartsListiner(s) \/ JoinsAnnouncer(s) \/ JoinsListiner(s)>>_vars => Out'
  BY CallsGoOn DEF JoinsAnnouncer, StartsListiner
<1>7. Starting \/ (First /\ EndedA) \/ (Second /\ EndedL) => CallReady(s)
  BY DEF CallReady, Joining, Joined
<1>8. (Dies => Out) /\ (Starting \/ First \/ Second => In)
  OBVIOUS
<1>9. ~(First /\ Second) /\ ~(Starting /\ First) /\ ~(Starting /\ Second)
  BY DEF Joining
<1>10. FairSpec /\ HandlersGoOn /\ RunsGoOn =>
         (StoppedA ~> (EndedA \/ Dies)) /\ (StoppedL ~> (EndedL \/ Dies))
  <2>1. PICK a \in Parts, l \in Parts : a = "announcer" /\ l = "listiner"
    BY DEF Parts
  <2>2. /\ StoppedA => stopped[i][a]
        /\ StoppedL => stopped[i][l]
        /\ thread[i][a] # "running" \/ died # "no" => EndedA \/ Dies
        /\ thread[i][l] # "running" \/ died # "no" => EndedL \/ Dies
    BY <2>1
  <2>3. FairSpec /\ HandlersGoOn /\ RunsGoOn => ThreadEnds(i, a) /\ ThreadEnds(i, l)
    BY StopEndsOne
  <2> HIDE DEF StoppedA, EndedA, StoppedL, EndedL, Dies
  <2> QED BY <2>2, <2>3, PTL DEF ThreadEnds
<1>11. FairSpec /\ OwnersGoOn =>
         /\ Spec /\ OwnerGoesOn(s)
         /\ [](CallReady(s) => ENABLED <<StartsListiner(s) \/ JoinsAnnouncer(s) \/ JoinsListiner(s)>>_vars)
  BY DEF FairSpec, OwnersGoOn
<1> HIDE DEF Inside, Out, In, Starting, First, Second, StoppedA, StoppedL, EndedA, EndedL, Dies
<1>12. FairSpec /\ OwnersGoOn /\ HandlersGoOn /\ RunsGoOn => (Inside ~> Out)
  BY <1>1, <1>2, <1>3, <1>4, <1>5, <1>6, <1>7, <1>8, <1>9, <1>10, <1>11, OwnersProgress, PTL
     DEF Spec, OwnerGoesOn
<1> QED BY <1>12, PTL DEF Inside, Out
=============================================================================


