---------------------------- MODULE MCRustGuard -----------------------------
(***************************************************************************)
(* Small instances of RustGuard for TLC.                                   *)
(***************************************************************************)
EXTENDS RustGuard, TLC

CONSTANTS a, b, d, cidr, s1, s2, s3, c1

BanOf(target, ttl) == [op |-> "Ban", target |-> target, ttl |-> ttl]
UnbanOf(target) == [op |-> "Unban", target |-> target]
Plain(op) == [op |-> op]

Tcp(src) == [len |-> 60, ether_type |-> "Ipv4", proto |-> "Tcp", src |-> src]

MCFrames == {Tcp(a)}

MCRequests ==
  {BanOf(a, NoTtl), BanOf(a, 1), BanOf(b, NoTtl), BanOf(d, NoTtl),
   UnbanOf(a), Plain("List")}

MCTtl == {BanOf(a, 1)}
MCFull == {BanOf(a, NoTtl), BanOf(b, NoTtl)}

Symmetry == Permutations(Slot)

\* In MCRequests, b and d play the same part: other addresses that take room.
SymmetryAll == Symmetry \cup Permutations({b, d})

=============================================================================
