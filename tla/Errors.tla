------------------------------- MODULE Errors -------------------------------
(***************************************************************************)
(* pfc::Error (Error.h, Error.cpp) and the conversion of nanomsg's error   *)
(* numbers (nanomsg_helper.h).  An Error is an uint64_t used as an array   *)
(* of bits: here, the set of the bits that are set.  A Code is an Error of *)
(* at most one bit.                                                        *)
(***************************************************************************)
EXTENDS Integers

Error == SUBSET (0..63)

PFC_NONE == {}
Code == {PFC_NONE} \cup {{bit} : bit \in 0..13}

PFC_IP_PARSE_ERROR == {0}
PFC_IP_SERIALIZATION_ERROR == {5}

Success == PFC_NONE

\* |= and |, of an Error or of a Code.
Or(e, rhs) == e \cup rhs

\* &, of an Error or of a Code.
And(e, rhs) == e \cap rhs

\* == with a Code is a test of the bit; != with a Code compares the values.
EqualsCode(e, code)  == And(e, code) # PFC_NONE
DiffersFromCode(e, code) == e # code

is_ok(e) == e = PFC_NONE

-----------------------------------------------------------------------------
(* nanomsg's errors: errno of Linux, and ETERM and EFSM, which are         *)
(* nanomsg's own.                                                          *)

NN_HAUSNUMERO == 156384712

errno ==
  [EINTR |-> 4, EBADF |-> 9, EAGAIN |-> 11, ENODEV |-> 19, EINVAL |-> 22,
   EMFILE |-> 24, ENAMETOOLONG |-> 36, EPROTONOSUPPORT |-> 93, ENOTSUP |-> 95,
   EAFNOSUPPORT |-> 97, EADDRINUSE |-> 98, EADDRNOTAVAIL |-> 99,
   ETIMEDOUT |-> 110, ETERM |-> NN_HAUSNUMERO + 53, EFSM |-> NN_HAUSNUMERO + 54]

\* The bit of the Code that stands for each of them.
BitOf ==
  [EAFNOSUPPORT |-> 2, EINVAL |-> 4, EMFILE |-> 6, ETERM |-> 7, EBADF |-> 8,
   ENAMETOOLONG |-> 1, EPROTONOSUPPORT |-> 4, EADDRNOTAVAIL |-> 9,
   ENODEV |-> 1, EADDRINUSE |-> 3, ENOTSUP |-> 10, EFSM |-> 10,
   EAGAIN |-> 10, EINTR |-> 11, ETIMEDOUT |-> 12]

\* Any other number is no error.
nano_to_Error(code) ==
  {BitOf[name] : name \in {n \in DOMAIN BitOf : errno[n] = code}}
=============================================================================
