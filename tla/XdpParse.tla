------------------------------ MODULE XdpParse ------------------------------
(***************************************************************************)
(* How try_rustguard (rustguard-ebpf/src/main.rs) takes a frame apart      *)
(* before it consults the ban table: bounds checks and early returns.      *)
(* A frame is the number of bytes between ctx.data() and ctx.data_end(),   *)
(* and the three header fields the program looks at.  A field of a header  *)
(* that the frame is too short for is never consulted.                     *)
(***************************************************************************)
EXTENDS Naturals

EthHdrLEN == 14
Ipv4HdrLEN == 20
TcpHdrLEN == 20
UdpHdrLEN == 8

\* Mutant of PtrAt: >= for >.
PtrAtStrict(frame, offset, size) == offset + size < frame.len

\* ptr_at returns Ok: a header of size bytes at offset ends inside the frame.
PtrAt(frame, offset, size) == offset + size <= frame.len

HasEthHdr(frame) == PtrAt(frame, 0, EthHdrLEN)

HasIpv4Hdr(frame) == PtrAt(frame, EthHdrLEN, Ipv4HdrLEN)

\* The match on proto: only TCP and UDP have a header the program reads.
HasTransportHdr(frame) ==
  \/ frame.proto = "Tcp" /\ PtrAt(frame, EthHdrLEN + Ipv4HdrLEN, TcpHdrLEN)
  \/ frame.proto = "Udp" /\ PtrAt(frame, EthHdrLEN + Ipv4HdrLEN, UdpHdrLEN)

\* return Ok(XDP_PASS) on an EtherType that is not IPv4.
Ignored(frame) == HasEthHdr(frame) /\ frame.ether_type # "Ipv4"

\* The frames that reach the lookup of their source address.
Inspected(frame) ==
  /\ HasEthHdr(frame)
  /\ frame.ether_type = "Ipv4"
  /\ HasIpv4Hdr(frame)
  /\ HasTransportHdr(frame)

\* Every other frame leaves through `?` or return Err(()): XDP_ABORTED.
Aborted(frame) == ~Ignored(frame) /\ ~Inspected(frame)

=============================================================================
