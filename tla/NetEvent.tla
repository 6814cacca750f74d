------------------------------ MODULE NetEvent ------------------------------
(***************************************************************************)
(* What the monitor knows of a connection: the event a probe fills from    *)
(* the kernel's socket (rustguard-ebpf/src/socket.rs, fexit_tcp4_*.rs,     *)
(* rustguard-common/src/event.rs) and the line print_event makes of it     *)
(* (rustguard/src/monitor.rs).  Names, user and process ids and the time   *)
(* of printing are data that nothing depends on, and left out.             *)
(***************************************************************************)
EXTENDS Integers, Sequences

\* event.rs 3-11
AF_INET == 2
AF_INET6 == 10
IPPROTO_TCP == 6
IPPROTO_UDP == 17

\* EventType and TransportProtocol, with what their Display writes.
as_str ==
  [Unknown |-> "UNKNOWN", Connect |-> "CONNECT", Accept |-> "ACCEPT",
   Send |-> "SEND", Recv |-> "RECV", Close |-> "CLOSE",
   StateChange |-> "STATE", Dns |-> "DNS", TlsHandshake |-> "TLS"]
EventType == DOMAIN as_str

TransportProtocol == [Unknown |-> "UNKNOWN", Tcp |-> "TCP", Udp |-> "UDP"]

\* An IPv4 address is 4 bytes, an IPv6 address 16.
Zeros(n) == [i \in 1..n |-> 0]
Mapped(v4) == Zeros(10) \o <<255, 255>> \o v4
IsMapped(ip) == ip = Mapped(SubSeq(ip, 13, 16))

\* A u16 with its two bytes swapped: u16::from_be, and htons in the kernel.
SwapBytes(port) == 256 * (port % 256) + port \div 256

Byte == 0..255
U16 == 0..65535

\* A connection has a kind, a protocol, two ends of one family and, for a
\* connect, the value tcp_v4_connect returned.  Local is what this end is bound
\* to when the probed function returns (all zeros, if a connect failed before it
\* was bound), and the peer is the other end as the socket holds it then.
Endpoint(bytes) == [ip : [1..bytes -> Byte], port : U16]

ConnectionOf(family, bytes) ==
  [kind : {"connect", "accept"}, family : {family}, protocol : U16,
   local : Endpoint(bytes), remote : Endpoint(bytes), peer : Endpoint(bytes),
   ret : Int]

Failed(c) == c.kind = "connect" /\ c.ret # 0

\* A connect that fails clears the port of the other end, and may return before
\* it has stored the address.
Connection ==
  {c \in ConnectionOf(AF_INET, 4) \cup ConnectionOf(AF_INET6, 16) :
     IF Failed(c) THEN c.peer.port = 0 ELSE c.peer = c.remote}

\* The socket of a connection as the kernel keeps it.
SockCommon(c) ==
  [skc_family |-> c.family,
   skc_rcv_saddr |-> c.local.ip,
   skc_daddr |-> c.peer.ip,
   skc_num |-> c.local.port,
   skc_dport |-> SwapBytes(c.peer.port)]

-----------------------------------------------------------------------------
(* The probes' side.                                                       *)

protocol(c) ==
  CASE c.protocol = IPPROTO_TCP -> "Tcp"
    [] c.protocol = IPPROTO_UDP -> "Udp"
    [] OTHER -> "Unknown"

direction(type) ==
  CASE type \in {"Connect", "Send"} -> "Egress"
    [] type \in {"Accept", "Recv"} -> "Ingress"
    [] OTHER -> "Unknown"

\* NetEvent::default().
DefaultEvent ==
  [timestamp_ns |-> 0, socket_id |-> 0, tid |-> 0, event |-> "Unknown",
   protocol |-> "Unknown", direction |-> "Unknown",
   src_ip |-> Zeros(16), dst_ip |-> Zeros(16), src_port |-> 0, dst_port |-> 0,
   ret |-> 0]

\* Mutant of fill_ports: the remote port is left in network order.
fill_ports_raw(event, common) ==
  [event EXCEPT !.src_port = common.skc_num, !.dst_port = common.skc_dport]

fill_ports(event, common) ==
  [event EXCEPT !.src_port = common.skc_num,
                !.dst_port = SwapBytes(common.skc_dport)]

fill_ipv4(event, common) ==
  fill_ports([event EXCEPT !.src_ip = common.skc_rcv_saddr \o Zeros(12),
                           !.dst_ip = common.skc_daddr \o Zeros(12)], common)

fill_ipv6(event, common) ==
  fill_ports([event EXCEPT !.src_ip = common.skc_rcv_saddr,
                           !.dst_ip = common.skc_daddr], common)

fill_socket(event, common) ==
  CASE common.skc_family = AF_INET -> fill_ipv4(event, common)
    [] common.skc_family = AF_INET6 -> fill_ipv6(event, common)
    [] OTHER -> event

\* What both probes fill in; sk stands for the address of the socket.
Filled(type, c, sk, task, now) ==
  fill_socket([DefaultEvent EXCEPT
                 !.timestamp_ns = now, !.socket_id = sk, !.tid = task,
                 !.event = type, !.direction = direction(type),
                 !.protocol = protocol(c)], SockCommon(c))

try_tcp_v4_connect_exit(c, sk, task, now) ==
  [Filled("Connect", c, sk, task, now) EXCEPT !.ret = c.ret]

try_incoming_connection(c, sk, task, now) == Filled("Accept", c, sk, task, now)

-----------------------------------------------------------------------------
(* The monitor's side.                                                     *)

ip_to_string(ip) ==
  CASE SubSeq(ip, 5, 16) = Zeros(12) -> SubSeq(ip, 1, 4)
    [] SubSeq(ip, 1, 12) = Zeros(10) \o <<255, 255>> -> SubSeq(ip, 13, 16)
    [] OTHER -> ip

result_string(ret) == IF ret = 0 THEN <<"OK">> ELSE <<"ERR", ret>>

arrow(type) ==
  CASE type = "Connect" -> "right"
    [] type = "Accept" -> "left"
    [] OTHER -> "none"

print_event(e) ==
  [protocol |-> TransportProtocol[e.protocol],
   event |-> as_str[e.event],
   result |-> result_string(e.ret),
   src |-> [ip |-> ip_to_string(e.src_ip), port |-> e.src_port],
   arrow |-> arrow(e.event),
   dst |-> [ip |-> ip_to_string(e.dst_ip), port |-> e.dst_port]]

-----------------------------------------------------------------------------
(* What a line says, for its reader.                                       *)

\* The end the arrow leaves, and the end it points to.
From(line) == IF line.arrow = "right" THEN line.src ELSE line.dst
To(line) == IF line.arrow = "right" THEN line.dst ELSE line.src

\* The end that opened the connection, and the other one.
Initiator(c) == IF c.kind = "connect" THEN c.local ELSE c.remote
Target(c) == IF c.kind = "connect" THEN c.remote ELSE c.local

\* An IPv4-mapped address may be shown as the IPv4 address it stands for.
Names(shown, end) ==
  /\ shown.port = end.port
  /\ shown.ip = end.ip \/ end.ip = Mapped(shown.ip)

\* Kind, protocol and result; Ok means that the connect was sent.
TellsKind(line, c) ==
  /\ line.protocol = "TCP" <=> c.protocol = IPPROTO_TCP
  /\ line.event = "CONNECT" <=> c.kind = "connect"
  /\ line.result = <<"OK">> <=> ~Failed(c)

TellsInitiator(line, c) == Names(From(line), Initiator(c))

\* The socket of a failed connect does not know its target.
TellsTarget(line, c) == ~Failed(c) => Names(To(line), Target(c))

\* An IPv6 address that ends in twelve zero bytes looks like the form in which
\* fill_ipv4 keeps an IPv4 address, and is shown as one.
LooksLikeIpv4(ip) == Len(ip) = 16 /\ SubSeq(ip, 5, 16) = Zeros(12)

=============================================================================
