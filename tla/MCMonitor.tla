----------------------------- MODULE MCMonitor ------------------------------
(***************************************************************************)
(* Small instances of Monitor for TLC.                                     *)
(***************************************************************************)
EXTENDS Monitor, TLC

CONSTANTS s, t

V4(last) == <<10, 0, 0, last>>
V6 == <<32, 1, 13, 184>> \o Zeros(11) \o <<1>>

At(ip, port) == [ip |-> ip, port |-> port]

Conn(kind, family, proto, local, remote) ==
  [kind |-> kind, family |-> family, protocol |-> proto,
   local |-> local, remote |-> remote, peer |-> remote, ret |-> 0]

\* A connect that failed: the socket holds the address at, and no port.
FailedConn(c, at) == [c EXCEPT !.ret = -113, !.peer = At(at, 0)]

ConnectV4 ==
  Conn("connect", AF_INET, IPPROTO_TCP, At(V4(1), 40000), At(V4(2), 443))
ConnectMapped ==
  Conn("connect", AF_INET6, IPPROTO_TCP, At(Mapped(V4(1)), 40000),
       At(Mapped(V4(2)), 443))
ConnectV6 ==
  Conn("connect", AF_INET6, IPPROTO_TCP, At(V6, 40000), At(V6, 443))
AcceptV4 ==
  Conn("accept", AF_INET, IPPROTO_TCP, At(V4(1), 443), At(V4(2), 40000))
AcceptV6 ==
  Conn("accept", AF_INET6, IPPROTO_TCP, At(V6, 443), At(V6, 40000))
\* The subnet's anycast address, 2001:db8::.
AcceptAnycast ==
  Conn("accept", AF_INET6, IPPROTO_TCP,
       At(<<32, 1, 13, 184>> \o Zeros(12), 443), At(V6, 40000))
\* A DCCP connection, also accepted by inet_csk_accept.
AcceptDccp ==
  Conn("accept", AF_INET, 33, At(V4(1), 443), At(V4(2), 40000))

\* One thread connects, the other accepts.
MCConns ==
  s :> {FailedConn(ConnectV4, Zeros(4)), ConnectMapped, ConnectV6} @@
  t :> {AcceptV6, AcceptAnycast, AcceptDccp}

MCTcpConns == s :> {ConnectV4, ConnectV6} @@ t :> {AcceptV4, AcceptV6}

MCAnycastConns == s :> {ConnectV4} @@ t :> {AcceptV4, AcceptAnycast}

=============================================================================
