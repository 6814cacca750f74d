-------------------------- MODULE MCControlSocket ---------------------------
(***************************************************************************)
(* Small instances of ControlSocket for TLC.                               *)
(***************************************************************************)
EXTENDS ControlSocket

CONSTANTS a, b, cidr, x, y

Ban(target, ttl) == [op |-> "Ban", target |-> target, ttl |-> ttl]
Unban(target) == [op |-> "Unban", target |-> target]
Plain(op) == [op |-> op]

\* One request for every branch of the handler.  With Word = 16 and
\* NsPerSec = 2, at time 2 a ttl of 7 overflows the sum, to an end_time of 0,
\* and a ttl of 8 overflows the product.  At time 9 the clock has left i64 and
\* reads 0, so that a ttl of 7 ends in time.
MCRequests ==
  { Ban(b, NoTtl), Ban(a, 7), Ban(a, 8), Ban(cidr, NoTtl),
    Unban(a), Plain("List"), Plain("Stats"), Plain("Malformed") }

=============================================================================
