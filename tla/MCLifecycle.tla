---------------------------- MODULE MCLifecycle -----------------------------
(***************************************************************************)
(* Small instances of Lifecycle for TLC.                                   *)
(***************************************************************************)
EXTENDS Lifecycle

CONSTANTS p, q, r, eth0, eth1

\* Two services on one interface, and one on another.
MCIface == [s \in Proc |-> IF s = r THEN eth1 ELSE eth0]

=============================================================================
