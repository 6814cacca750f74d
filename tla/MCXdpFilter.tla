---------------------------- MODULE MCXdpFilter -----------------------------
(***************************************************************************)
(* Small instances of XdpFilter for TLC.                                   *)
(***************************************************************************)
EXTENDS XdpFilter, TLC

CONSTANTS a, b, s1, s2, s3, c1

Symmetry == Permutations({s1, s2, s3})

Frame(len, ether_type, proto, src) ==
  [len |-> len, ether_type |-> ether_type, proto |-> proto, src |-> src]

\* One frame for every way out of the header checks.
MCFrames ==
  { Frame(13, "Ipv4", "Tcp", a),    \* no room for the Ethernet header
    Frame(14, "Ipv6", "Tcp", a),    \* not IPv4, and nothing after the header
    Frame(33, "Ipv4", "Udp", a),    \* no room for the IPv4 header
    Frame(60, "Ipv4", "Icmp", a),   \* neither TCP nor UDP
    Frame(53, "Ipv4", "Tcp", a),    \* one byte short of a TCP header
    Frame(41, "Ipv4", "Udp", a),    \* one byte short of a UDP header
    Frame(54, "Ipv4", "Tcp", a),
    Frame(42, "Ipv4", "Udp", b) }

MCPing == {Frame(60, "Ipv4", "Tcp", a), Frame(60, "Ipv4", "Icmp", a)}

=============================================================================
