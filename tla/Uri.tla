-------------------------------- MODULE Uri --------------------------------
(***************************************************************************)
(* Uri.h.  A text is a sequence of the pieces the regular expression of    *)
(* the constructors tells apart: "://", ":" and runs of other characters.  *)
(* The members of a URI are texts; _port is the text of a number.          *)
(***************************************************************************)
EXTENDS Naturals, Sequences, Errors

CONSTANTS
  Pieces,    \* the runs of characters a text may hold
  Words,     \* those that \w+ matches
  Hosts,     \* those that [A-Za-z0-9_.]+ matches
  Numbers    \* those that \d+ matches

ASSUME UriAssumption ==
  /\ {"0", "80"} \subseteq Numbers
  /\ Numbers \subseteq Words /\ Words \subseteq Hosts /\ Hosts \subseteq Pieces
  /\ Pieces \cap {"://", ":"} = {}

Text == Seq(Pieces \cup {"://", ":"})

-----------------------------------------------------------------------------
(* The regular expression (\w+)://([A-Za-z0-9_.]+)(:(\d+)){0,1}.           *)

regex_match(text) ==
  /\ Len(text) \in {3, 5}
  /\ text[1] \in Words /\ text[2] = "://" /\ text[3] \in Hosts
  /\ Len(text) = 5 => text[4] = ":" /\ text[5] \in Numbers

\* The sub-matches of a text that matches.  matches[0] is the whole text, and
\* there are always five, whether or not a port was given.
matches(text) ==
  [i \in 0..4 |->
     CASE i = 0 -> text
       [] i = 1 -> <<text[1]>>
       [] i = 2 -> <<text[3]>>
       [] i = 3 -> SubSeq(text, 4, Len(text))
       [] i = 4 -> SubSeq(text, 5, Len(text))]

matches_size == 5

-----------------------------------------------------------------------------

\* The constructor that is given one text.
URI(uri) ==
  IF regex_match(uri)
  THEN [transport |-> matches(uri)[0], address |-> matches(uri)[1],
        port |-> IF matches_size = 4 THEN matches(uri)[0] ELSE <<"80">>,
        endpoint |-> uri, ec |-> Success]
  ELSE [transport |-> <<>>, address |-> <<>>, port |-> <<"80">>,
        endpoint |-> <<>>, ec |-> PFC_IP_PARSE_ERROR]

\* The constructor that is given the parts: they are kept whether or not the
\* endpoint they make matches.
URI_of_parts(transport, address, port) ==
  LET endpoint == transport \o <<"://">> \o address
                  \o (IF port = "0" THEN <<>> ELSE <<":", port>>)
  IN [transport |-> transport, address |-> address, port |-> <<port>>,
      endpoint |-> endpoint,
      ec |-> IF regex_match(endpoint) THEN Success ELSE PFC_IP_PARSE_ERROR]

\* operator==.
SameURI(lhs, rhs) ==
  /\ lhs.transport = rhs.transport
  /\ lhs.address = rhs.address
  /\ lhs.port = rhs.port

\* Seeded fault: the full copy of the endpoint.
c_str_Endpoint(uri) == uri.endpoint

\* What Service announces and what the patterns give nn_bind and nn_connect.
c_str(uri) == uri.address

is_valid(uri) == is_ok(uri.ec)
=============================================================================
