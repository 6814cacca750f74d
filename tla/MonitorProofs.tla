--------------------------- MODULE MonitorProofs ----------------------------
(***************************************************************************)
(* The safety properties of Monitor for any number of threads, any         *)
(* connections, any capacity of the ring and any number of events.         *)
(***************************************************************************)
EXTENDS Monitor, SequenceTheorems, TLAPS

Events ==
  UNION {{ProbeEvent(c, sk, t, now) :
            c \in Conns[t], sk \in 1..MaxConns, now \in 0..MaxTime} : t \in Task}

Openings == [conn : Connection, watched : BOOLEAN]

Types ==
  /\ time \in 0..MaxTime
  /\ opened \in Seq(Openings)
  /\ Len(opened) <= MaxConns
  /\ probe \in [Task -> {"idle", "filled", "reserved"}]
  /\ event \in [Task -> Events \cup {Nothing}]
  /\ ring \in Seq([by : Task, event : Events \cup {Nothing}])
  /\ Len(ring) <= Capacity
  /\ attached \subseteq {"tcp_v4_connect", "inet_csk_accept"}
  /\ reader \in {"load", "attach_accept", "open_ring", "next", "held", "sleep",
                 "ended"}
  /\ placed \in Seq(Events)
  /\ shown \in Seq([event : Events, line : {print_event(e) : e \in Events}])

\* Event e was filled by thread t for a connection that it has opened.
Genuine(e, t) ==
  \E n \in 1..Len(opened), ts \in 0..time :
    /\ opened[n].conn \in Conns[t]
    /\ e = ProbeEvent(opened[n].conn, n, t, ts)

\* A thread has an event while its probe runs; until the event has a place it
\* is younger than all that the thread has placed.
EventInv(t) ==
  /\ event[t] = Nothing <=> probe[t] = "idle"
  /\ probe[t] # "idle" => Genuine(event[t], t)
  /\ probe[t] = "filled" =>
       \A i \in 1..Len(placed) :
         placed[i].tid = t =>
           /\ placed[i].timestamp_ns <= event[t].timestamp_ns
           /\ placed[i].socket_id < event[t].socket_id

\* Events with a place are genuine, and in the order of their thread.
PlacedInv ==
  /\ \A i \in 1..Len(placed) :
       placed[i].tid \in Task /\ Genuine(placed[i], placed[i].tid)
  /\ \A i, j \in 1..Len(placed) :
       i < j /\ placed[i].tid = placed[j].tid =>
         /\ placed[i].timestamp_ns <= placed[j].timestamp_ns
         /\ placed[i].socket_id < placed[j].socket_id

\* The places that the reader has freed.
Freed == Len(placed) - Len(ring)

\* The ring holds the events placed last.  A busy place is the only one of its
\* thread, whose probe still has the event.
RingInv ==
  /\ Freed >= 0
  /\ \A i \in 1..Len(ring) :
       /\ ring[i].by = placed[Freed + i].tid
       /\ \/ ring[i].event = placed[Freed + i]
          \/ /\ ring[i].event = Nothing
             /\ probe[ring[i].by] = "reserved"
             /\ event[ring[i].by] = placed[Freed + i]
  /\ \A i, j \in 1..Len(ring) :
       /\ ring[i].event = Nothing /\ ring[j].event = Nothing
       /\ ring[i].by = ring[j].by
       => i = j

\* The reader has shown what it freed, and the item that it holds.
ShownInv ==
  /\ Len(shown) = Freed + (IF reader = "held" THEN 1 ELSE 0)
  /\ reader = "held" => Len(ring) > 0 /\ ring[1].event # Nothing
  /\ \A i \in 1..Len(shown) :
       shown[i].event = placed[i] /\ shown[i].line = print_event(placed[i])

IInv ==
  /\ Types
  /\ \A t \in Task : EventInv(t)
  /\ PlacedInv
  /\ RingInv
  /\ ShownInv

-----------------------------------------------------------------------------
(* The events.                                                             *)

\* u16::from_be undoes the kernel's htons.
LEMMA SwapTwice ==
  ASSUME NEW port \in U16
  PROVE  SwapBytes(SwapBytes(port)) = port
<1> DEFINE hi == port \div 256  lo == port % 256
<1>1. /\ hi \in Nat /\ lo \in Nat /\ hi < 256 /\ lo < 256
      /\ port = 256 * hi + lo
  <2>1. port \in Nat /\ port < 65536
    BY SMT DEF U16
  <2>2. hi \in Nat /\ lo \in Nat /\ lo < 256 /\ port = 256 * hi + lo
    BY <2>1, SMT
  <2>3. hi < 256
    BY <2>1, <2>2, SMT
  <2> QED
    BY <2>2, <2>3
<1>2. SwapBytes(port) = 256 * lo + hi
  BY DEF SwapBytes
<1> HIDE DEF hi, lo
<1>3. (256 * lo + hi) % 256 = hi /\ (256 * lo + hi) \div 256 = lo
  BY <1>1, SMT
<1>4. SwapBytes(256 * lo + hi) = 256 * hi + lo
  BY <1>3 DEF SwapBytes
<1> QED
  BY <1>1, <1>2, <1>4

\* The bytes in which an event keeps an address.
Kept(c, ip) == IF c.family = AF_INET THEN ip \o Zeros(12) ELSE ip

\* e is a NetEvent with these fields.
Has(e, now, sk, t, type, proto, dir, src, dst, sport, dport, ret) ==
  /\ e = [f \in {"timestamp_ns", "socket_id", "tid", "event", "protocol",
                  "direction", "src_ip", "dst_ip", "src_port", "dst_port",
                  "ret"} |-> e[f]]
  /\ e.timestamp_ns = now /\ e.socket_id = sk /\ e.tid = t
  /\ e.event = type /\ e.protocol = proto /\ e.direction = dir
  /\ e.src_ip = src /\ e.dst_ip = dst
  /\ e.src_port = sport /\ e.dst_port = dport /\ e.ret = ret

\* fill_socket fills in the two ends, and only them.
LEMMA SocketFields ==
  ASSUME NEW c \in Connection, NEW e, NEW now, NEW sk, NEW t, NEW type,
         NEW proto, NEW dir, NEW src, NEW dst, NEW sport, NEW dport, NEW ret,
         Has(e, now, sk, t, type, proto, dir, src, dst, sport, dport, ret)
  PROVE  Has(fill_socket(e, SockCommon(c)), now, sk, t, type, proto, dir,
             Kept(c, c.local.ip), Kept(c, c.peer.ip),
             c.local.port, c.peer.port, ret)
<1> DEFINE k == SockCommon(c)
<1>1. c.peer.port \in U16
  <2>1. \A f, b : c \in ConnectionOf(f, b) => c.peer \in Endpoint(b)
    BY DEF ConnectionOf
  <2>2. \A b : c.peer \in Endpoint(b) => c.peer.port \in U16
    BY DEF Endpoint
  <2> QED
    BY <2>1, <2>2 DEF Connection
<1>2. /\ k.skc_family = c.family
      /\ k.skc_rcv_saddr = c.local.ip /\ k.skc_daddr = c.peer.ip
      /\ k.skc_num = c.local.port
      /\ SwapBytes(k.skc_dport) = c.peer.port
  <2>1. k.skc_dport = SwapBytes(c.peer.port)
    BY DEF SockCommon
  <2> QED
    BY <1>1, <2>1, SwapTwice DEF SockCommon
<1> HIDE DEF k
<1>3. ASSUME NEW x, NEW y
      PROVE  Has(fill_ports([e EXCEPT !.src_ip = x, !.dst_ip = y], k),
                 now, sk, t, type, proto, dir, x, y,
                 c.local.port, c.peer.port, ret)
  <2>1. Has([e EXCEPT !.src_ip = x, !.dst_ip = y],
            now, sk, t, type, proto, dir, x, y, sport, dport, ret)
    BY DEF Has
  <2>2. ASSUME NEW g, NEW p, NEW q,
               Has(g, now, sk, t, type, proto, dir, x, y, sport, dport, ret)
        PROVE  Has([g EXCEPT !.src_port = p, !.dst_port = q],
                   now, sk, t, type, proto, dir, x, y, p, q, ret)
    BY <2>2 DEF Has
  <2> QED
    BY <1>2, <2>1, <2>2 DEF fill_ports
<1>4. c.family \in {AF_INET, AF_INET6}
  BY DEF Connection, ConnectionOf
<1>5. CASE c.family = AF_INET
  <2>1. fill_socket(e, k)
        = fill_ports([e EXCEPT !.src_ip = k.skc_rcv_saddr \o Zeros(12),
                               !.dst_ip = k.skc_daddr \o Zeros(12)], k)
    BY <1>2, <1>5 DEF fill_socket, fill_ipv4, AF_INET, AF_INET6
  <2> QED
    BY <1>2, <1>3, <1>5, <2>1 DEF Kept, k
<1>6. CASE c.family = AF_INET6
  <2>1. fill_socket(e, k)
        = fill_ports([e EXCEPT !.src_ip = k.skc_rcv_saddr,
                               !.dst_ip = k.skc_daddr], k)
    BY <1>2, <1>6 DEF fill_socket, fill_ipv6, AF_INET, AF_INET6
  <2>2. Kept(c, c.local.ip) = c.local.ip /\ Kept(c, c.peer.ip) = c.peer.ip
    BY <1>6 DEF Kept, AF_INET, AF_INET6
  <2>3. Has(fill_ports([e EXCEPT !.src_ip = c.local.ip,
                                 !.dst_ip = c.peer.ip], k),
            now, sk, t, type, proto, dir, c.local.ip, c.peer.ip,
            c.local.port, c.peer.port, ret)
    BY <1>3
  <2> QED
    BY <1>2, <2>1, <2>2, <2>3 DEF k
<1> QED
  BY <1>4, <1>5, <1>6

\* What the two probes fill in.
LEMMA ProbeFields ==
  ASSUME NEW c \in Connection, NEW sk, NEW t, NEW now
  PROVE  Has(ProbeEvent(c, sk, t, now), now, sk, t,
             IF c.kind = "connect" THEN "Connect" ELSE "Accept",
             protocol(c),
             IF c.kind = "connect" THEN "Egress" ELSE "Ingress",
             Kept(c, c.local.ip), Kept(c, c.peer.ip),
             c.local.port, c.peer.port,
             IF c.kind = "connect" THEN c.ret ELSE 0)
<1> DEFINE e(type) ==
      [DefaultEvent EXCEPT
         !.timestamp_ns = now, !.socket_id = sk, !.tid = t,
         !.event = type, !.direction = direction(type), !.protocol = protocol(c)]
<1>1. \A type : Has(e(type), now, sk, t, type, protocol(c), direction(type),
                    Zeros(16), Zeros(16), 0, 0, 0)
  <2>1. Has(DefaultEvent, 0, 0, 0, "Unknown", "Unknown", "Unknown",
            Zeros(16), Zeros(16), 0, 0, 0)
    BY DEF DefaultEvent, Has
  <2> QED
    BY <2>1 DEF Has
<1> HIDE DEF e
<1>2. \A type : Has(Filled(type, c, sk, t, now), now, sk, t, type, protocol(c),
                    direction(type), Kept(c, c.local.ip), Kept(c, c.peer.ip),
                    c.local.port, c.peer.port, 0)
  BY <1>1, SocketFields DEF Filled, e
<1>3. direction("Connect") = "Egress" /\ direction("Accept") = "Ingress"
  BY DEF direction
<1>4. CASE c.kind = "connect"
  <2>1. ProbeEvent(c, sk, t, now)
        = [Filled("Connect", c, sk, t, now) EXCEPT !.ret = c.ret]
    BY <1>4 DEF ProbeEvent, try_tcp_v4_connect_exit
  <2> DEFINE g == Filled("Connect", c, sk, t, now)
  <2>2. Has(g, now, sk, t, "Connect", protocol(c), "Egress",
            Kept(c, c.local.ip), Kept(c, c.peer.ip),
            c.local.port, c.peer.port, 0)
    BY <1>2, <1>3
  <2> HIDE DEF g
  <2>3. Has([g EXCEPT !.ret = c.ret], now, sk, t, "Connect", protocol(c),
            "Egress", Kept(c, c.local.ip), Kept(c, c.peer.ip),
            c.local.port, c.peer.port, c.ret)
    BY <2>2 DEF Has
  <2> QED
    BY <1>4, <2>1, <2>3 DEF g
<1>5. CASE c.kind # "connect"
  BY <1>2, <1>3, <1>5 DEF ProbeEvent, try_incoming_connection
<1> QED
  BY <1>4, <1>5

-----------------------------------------------------------------------------
(* The invariant.                                                          *)

\* A probe's event carries its thread, its connection and its time.
LEMMA GenuineFields ==
  ASSUME Types, NEW t \in Task, NEW e, Genuine(e, t)
  PROVE  /\ e.tid = t
         /\ e.socket_id \in 1..Len(opened)
         /\ e.timestamp_ns \in 0..time
         /\ e.event \in {"Connect", "Accept"}
         /\ e \in Events
         /\ e # Nothing
<1>1. PICK n \in 1..Len(opened), ts \in 0..time :
        /\ opened[n].conn \in Conns[t]
        /\ e = ProbeEvent(opened[n].conn, n, t, ts)
  BY DEF Genuine
<1>2. opened[n].conn \in Connection
  BY <1>1, MonitorAssumption
<1>3. /\ e.tid = t /\ e.socket_id = n /\ e.timestamp_ns = ts
      /\ e.event \in {"Connect", "Accept"}
  BY <1>1, <1>2, ProbeFields DEF Has
<1>4. n \in 1..MaxConns /\ ts \in 0..MaxTime
  <2>1. Len(opened) \in Nat /\ Len(opened) <= MaxConns /\ time \in 0..MaxTime
    BY DEF Types
  <2> QED
    BY <2>1, MonitorAssumption
<1>5. e \in Events
  BY <1>1, <1>4 DEF Events
<1>6. e # Nothing
  BY <1>1, <1>4, MonitorAssumption
<1> QED
  BY <1>3, <1>5, <1>6

\* What is in a place of the ring.
LEMMA RingFields ==
  ASSUME Types
  PROVE  \A i \in 1..Len(ring) :
           /\ ring[i] \in [by : Task, event : Events \cup {Nothing}]
           /\ ring[i].by \in Task
           /\ ring[i].event \in Events \cup {Nothing}
<1>1. ring \in Seq([by : Task, event : Events \cup {Nothing}])
  BY DEF Types
<1>2. \A i \in 1..Len(ring) : ring[i] \in [by : Task, event : Events \cup {Nothing}]
  BY <1>1, ElementOfSeq
<1> QED
  BY <1>2

\* Connections and time only grow.
LEMMA GenuineStays ==
  ASSUME Types, NEW t, NEW e, Genuine(e, t),
         time' \in Nat, time' >= time,
         \/ opened' = opened
         \/ \E o \in Openings : opened' = Append(opened, o)
  PROVE  Genuine(e, t)'
<1>1. PICK n \in 1..Len(opened), ts \in 0..time :
        /\ opened[n].conn \in Conns[t]
        /\ e = ProbeEvent(opened[n].conn, n, t, ts)
  BY DEF Genuine
<1>2. ts \in 0..time'
  BY DEF Types
<1>3. n \in 1..Len(opened') /\ opened'[n] = opened[n]
  <2>1. opened \in Seq(Openings)
    BY DEF Types
  <2> QED
    BY <2>1, AppendProperties
<1> QED
  BY <1>1, <1>2, <1>3 DEF Genuine

\* The state before the first probe is attached.
LEMMA InitHolds == Init => IInv
<1> SUFFICES ASSUME Init PROVE IInv
  OBVIOUS
<1> USE DEF Init
<1>1. Types
  BY MonitorAssumption DEF Types
<1>2. Len(placed) = 0 /\ Len(ring) = 0 /\ Len(shown) = 0
  OBVIOUS
<1>3. PlacedInv /\ RingInv /\ ShownInv
  BY <1>2 DEF PlacedInv, RingInv, ShownInv, Freed
<1>4. \A t \in Task : EventInv(t)
  BY DEF EventInv
<1> QED
  BY <1>1, <1>3, <1>4 DEF IInv

\* A connection is opened, and noted.
LEMMA OpenGrows ==
  ASSUME Types, NEW t \in Task, NEW c \in Conns[t], Open(c)
  PROVE  /\ Len(opened') = Len(opened) + 1
         /\ opened'[Len(opened) + 1].conn = c
         /\ Len(opened') <= MaxConns
         /\ opened' \in Seq(Openings)
         /\ \E o \in Openings : opened' = Append(opened, o)
<1> DEFINE o == [conn |-> c, watched |-> BothAttached]
<1>1. c \in Connection
  BY MonitorAssumption
<1>2. BothAttached \in BOOLEAN
  BY DEF BothAttached
<1>3. o \in Openings /\ o.conn = c
  BY <1>1, <1>2 DEF Openings
<1>4. opened' = Append(opened, o) /\ Len(opened) < MaxConns
  BY DEF Open
<1>5. opened \in Seq(Openings) /\ Len(opened) \in Nat
  BY DEF Types
<1> HIDE DEF o
<1> QED
  BY <1>3, <1>4, <1>5, AppendProperties, MonitorAssumption

\* Time passes, or a connection is opened that no probe sees.
LEMMA WorldKeeps ==
  ASSUME IInv, Tick \/ \E t \in Task : \E c \in Conns[t] : OpenUnseen(t, c)
  PROVE  IInv'
<1> USE DEF IInv
<1>1. /\ probe' = probe /\ event' = event /\ ring' = ring /\ attached' = attached
      /\ reader' = reader /\ shown' = shown /\ placed' = placed
  BY DEF Tick, OpenUnseen, probeVars, readerVars
<1>2. /\ time' \in 0..MaxTime /\ time' >= time
      /\ opened' = opened \/ \E o \in Openings : opened' = Append(opened, o)
      /\ opened' \in Seq(Openings) /\ Len(opened') <= MaxConns
  <2>1. CASE Tick
    BY <2>1, MonitorAssumption DEF Tick, probeVars, Types
  <2>2. CASE \E t \in Task : \E c \in Conns[t] : OpenUnseen(t, c)
    BY <2>2, OpenGrows, MonitorAssumption DEF OpenUnseen, Types
  <2> QED
    BY <2>1, <2>2
<1>3. \A e, t : Genuine(e, t) => Genuine(e, t)'
  BY <1>2, GenuineStays
<1>4. Types'
  BY <1>1, <1>2 DEF Types
<1>5. ASSUME NEW t \in Task
      PROVE  EventInv(t)'
  BY <1>1, <1>3 DEF EventInv
<1>6. PlacedInv'
  BY <1>1, <1>3 DEF PlacedInv
<1>7. RingInv' /\ ShownInv'
  BY <1>1 DEF RingInv, ShownInv, Freed
<1> QED
  BY <1>4, <1>5, <1>6, <1>7

\* A probe fills its event: the connection is the last one opened, and the
\* time is now, so that the event is younger than any the thread has placed.
LEMMA FillKeeps ==
  ASSUME IInv, NEW t \in Task, NEW c \in Conns[t], Fill(t, c)
  PROVE  IInv'
<1> USE DEF IInv
<1> DEFINE e == ProbeEvent(c, Len(opened) + 1, t, time)
<1>1. /\ probe[t] = "idle" /\ Open(c)
      /\ probe' = [probe EXCEPT ![t] = "filled"]
      /\ event' = [event EXCEPT ![t] = e]
      /\ ring' = ring /\ attached' = attached /\ reader' = reader
      /\ shown' = shown /\ placed' = placed /\ time' = time
  BY DEF Fill, readerVars
<1>2. /\ Len(opened') = Len(opened) + 1 /\ opened'[Len(opened) + 1].conn = c
      /\ Len(opened') <= MaxConns /\ opened' \in Seq(Openings)
      /\ \E o \in Openings : opened' = Append(opened, o)
      /\ Len(opened) \in Nat /\ time \in Nat
  BY <1>1, OpenGrows, MonitorAssumption DEF Types
<1>3. \A g, u : Genuine(g, u) => Genuine(g, u)'
  BY <1>1, <1>2, GenuineStays
<1>4. ASSUME NEW g, g = e
      PROVE  Genuine(g, t)'
  <2>1. Len(opened) + 1 \in 1..Len(opened') /\ time \in 0..time'
    BY <1>1, <1>2
  <2>2. \E n \in 1..Len(opened'), ts \in 0..time' :
          opened'[n].conn \in Conns[t] /\ g = ProbeEvent(opened'[n].conn, n, t, ts)
    BY <1>2, <1>4, <2>1
  <2> QED
    BY <2>2 DEF Genuine
<1>5. e.socket_id = Len(opened) + 1 /\ e.timestamp_ns = time
  BY ProbeFields, MonitorAssumption DEF Has
<1>6. e \in Events /\ e # Nothing
  <2>1. Len(opened) + 1 \in 1..MaxConns /\ time \in 0..MaxTime
    BY <1>2, MonitorAssumption DEF Types
  <2>2. e \in Events
    BY <2>1 DEF Events
  <2>3. e # Nothing
    BY <2>1, MonitorAssumption
  <2> QED
    BY <2>2, <2>3
<1> HIDE DEF e
<1>7. Types'
  BY <1>1, <1>2, <1>6 DEF Types
<1>8. ASSUME NEW u \in Task
      PROVE  EventInv(u)'
  <2>1. CASE u = t
    <3>1. probe'[t] = "filled" /\ event'[t] = e
      BY <1>1 DEF Types
    <3>2. ASSUME NEW i \in 1..Len(placed), placed[i].tid = t
          PROVE  /\ placed[i].timestamp_ns <= e.timestamp_ns
                 /\ placed[i].socket_id < e.socket_id
      <4>1. placed[i].socket_id \in 1..Len(opened) /\ placed[i].timestamp_ns \in 0..time
        BY <3>2, GenuineFields DEF PlacedInv
      <4> QED
        BY <1>2, <1>5, <4>1
    <3>3. Genuine(event[t], t)'
      <4>1. \A g : g = e => Genuine(g, t)'
        BY <1>4
      <4> QED
        BY <3>1, <4>1
    <3> QED
      BY <1>1, <1>6, <2>1, <3>1, <3>2, <3>3 DEF EventInv
  <2>2. CASE u # t
    <3>1. probe'[u] = probe[u] /\ event'[u] = event[u]
      BY <1>1, <2>2 DEF Types
    <3> QED
      BY <1>1, <1>3, <3>1 DEF EventInv
  <2> QED
    BY <2>1, <2>2
<1>9. PlacedInv'
  BY <1>1, <1>3 DEF PlacedInv
<1>10. RingInv'
  <2>1. \A i \in 1..Len(ring) : ring[i].by \in Task
    BY RingFields
  <2>2. \A u \in Task : probe[u] = "reserved" =>
          probe'[u] = "reserved" /\ event'[u] = event[u]
    BY <1>1 DEF Types
  <2>3. Freed' = Freed
    BY <1>1 DEF Freed
  <2> QED
    BY <1>1, <2>1, <2>2, <2>3 DEF RingInv
<1>11. ShownInv'
  BY <1>1 DEF ShownInv, Freed
<1> QED
  BY <1>7, <1>8, <1>9, <1>10, <1>11

\* A probe gives up before it has a place.
LEMMA GiveUpKeeps ==
  ASSUME IInv, NEW t \in Task, ReadFails(t) \/ RingFull(t)
  PROVE  IInv'
<1> USE DEF IInv
<1>1. /\ probe[t] = "filled"
      /\ probe' = [probe EXCEPT ![t] = "idle"]
      /\ event' = [event EXCEPT ![t] = Nothing]
      /\ ring' = ring /\ attached' = attached /\ reader' = reader
      /\ shown' = shown /\ placed' = placed /\ time' = time /\ opened' = opened
  BY DEF ReadFails, RingFull, Return, readerVars
<1>2. \A u \in Task : u # t => probe'[u] = probe[u] /\ event'[u] = event[u]
  BY <1>1 DEF Types
<1>3. probe'[t] = "idle" /\ event'[t] = Nothing
  BY <1>1 DEF Types
<1>4. \A g, u : Genuine(g, u)' <=> Genuine(g, u)
  BY <1>1 DEF Genuine
<1>5. Types'
  BY <1>1 DEF Types
<1>6. ASSUME NEW u \in Task
      PROVE  EventInv(u)'
  BY <1>1, <1>2, <1>3, <1>4 DEF EventInv
<1>7. PlacedInv'
  BY <1>1, <1>4 DEF PlacedInv
<1>8. RingInv'
  <2>1. \A i \in 1..Len(ring) : ring[i].by \in Task
    BY RingFields
  <2>2. Freed' = Freed
    BY <1>1 DEF Freed
  <2> QED
    BY <1>1, <1>2, <2>1, <2>2 DEF RingInv
<1>9. ShownInv'
  BY <1>1 DEF ShownInv, Freed
<1> QED
  BY <1>5, <1>6, <1>7, <1>8, <1>9

\* What has been shown has had a place.
LEMMA ShownHadPlace ==
  ASSUME IInv
  PROVE  /\ Len(shown) \in Nat /\ Len(placed) \in Nat /\ Len(ring) \in Nat
         /\ Freed \in Nat /\ Len(shown) <= Len(placed)
<1>1. Len(shown) \in Nat /\ Len(placed) \in Nat /\ Len(ring) \in Nat
  BY DEF IInv, Types
<1>2. Freed \in Nat
  BY <1>1 DEF IInv, RingInv, Freed
<1>3. Len(shown) <= Len(placed)
  BY <1>1, <1>2 DEF IInv, ShownInv, Freed
<1> QED
  BY <1>1, <1>2, <1>3

\* An event takes the place behind all others, and is busy.
LEMMA ReserveKeeps ==
  ASSUME IInv, NEW t \in Task, Reserve(t)
  PROVE  IInv'
<1> USE DEF IInv
<1> DEFINE r == [by |-> t, event |-> Nothing]
<1>1. /\ probe[t] = "filled" /\ Len(ring) < Capacity
      /\ probe' = [probe EXCEPT ![t] = "reserved"]
      /\ ring' = Append(ring, r)
      /\ placed' = Append(placed, event[t])
      /\ event' = event /\ attached' = attached /\ reader' = reader
      /\ shown' = shown /\ time' = time /\ opened' = opened
  BY DEF Reserve, readerVars
<1>2. /\ r \in [by : Task, event : Events \cup {Nothing}]
      /\ r.by = t /\ r.event = Nothing
  OBVIOUS
<1> HIDE DEF r
<1>3. Genuine(event[t], t)
  BY <1>1 DEF EventInv
<1>4. event[t] \in Events /\ event[t].tid = t
  BY <1>3, GenuineFields
<1>5. /\ Len(placed') = Len(placed) + 1 /\ placed'[Len(placed) + 1] = event[t]
      /\ \A i \in 1..Len(placed) : placed'[i] = placed[i]
      /\ placed' \in Seq(Events)
  BY <1>1, <1>4, AppendProperties DEF Types
<1>6. /\ Len(ring') = Len(ring) + 1 /\ ring'[Len(ring) + 1] = r
      /\ \A i \in 1..Len(ring) : ring'[i] = ring[i]
      /\ ring' \in Seq([by : Task, event : Events \cup {Nothing}])
  BY <1>1, <1>2, AppendProperties DEF Types
<1>7. /\ Len(shown) \in Nat /\ Len(placed) \in Nat /\ Len(ring) \in Nat
      /\ Freed \in Nat /\ Len(shown) <= Len(placed)
  BY ShownHadPlace
<1>8. Freed' = Freed /\ Freed + Len(ring) = Len(placed)
  BY <1>5, <1>6, <1>7 DEF Freed
<1>9. \A g, u : Genuine(g, u)' <=> Genuine(g, u)
  BY <1>1 DEF Genuine
<1>10. /\ probe'[t] = "reserved"
       /\ \A u \in Task : u # t => probe'[u] = probe[u]
  BY <1>1 DEF Types
<1>11. \A i \in 1..Len(placed') : i = Len(placed) + 1 \/ i \in 1..Len(placed)
  <2> HIDE DEF IInv
  <2> QED  BY <1>5, <1>7
<1>12. Types'
  <2>1. Len(ring') <= Capacity
    BY <1>1, <1>6, <1>7, MonitorAssumption
  <2> QED
    BY <1>1, <1>5, <1>6, <2>1 DEF Types
<1>13. ASSUME NEW u \in Task
       PROVE  EventInv(u)'
  <2>1. CASE u = t
    BY <1>1, <1>9, <1>10, <2>1 DEF EventInv
  <2>2. CASE u # t
    <3>1. ASSUME NEW i \in 1..Len(placed'), placed'[i].tid = u
          PROVE  i \in 1..Len(placed) /\ placed'[i] = placed[i]
      BY <1>4, <1>5, <1>11, <2>2, <3>1
    <3> QED
      BY <1>1, <1>9, <1>10, <2>2, <3>1 DEF EventInv
  <2> QED
    BY <2>1, <2>2
<1>14. PlacedInv'
  <2>1. \A i \in 1..Len(placed') :
          placed'[i].tid \in Task /\ Genuine(placed'[i], placed'[i].tid)
    BY <1>3, <1>4, <1>5, <1>11 DEF PlacedInv
  <2>2. ASSUME NEW i \in 1..Len(placed'), NEW j \in 1..Len(placed'),
               i < j, placed'[i].tid = placed'[j].tid
        PROVE  /\ placed'[i].timestamp_ns <= placed'[j].timestamp_ns
               /\ placed'[i].socket_id < placed'[j].socket_id
    <3>1. i \in 1..Len(placed) /\ placed'[i] = placed[i]
      BY <1>5, <1>7, <2>2
    <3>2. CASE j = Len(placed) + 1
      BY <1>1, <1>4, <1>5, <2>2, <3>1, <3>2 DEF EventInv
    <3>3. CASE j \in 1..Len(placed)
      BY <1>5, <2>2, <3>1, <3>3 DEF PlacedInv
    <3> QED
      BY <1>11, <3>2, <3>3
  <2>3. \A i \in 1..Len(placed') : Genuine(placed'[i], placed'[i].tid) =>
                                   Genuine(placed[i], placed[i].tid)'
    BY <1>9
  <2> QED
    BY <2>1, <2>2, <2>3 DEF PlacedInv
<1>15. RingInv'
  <2>1. \A i \in 1..Len(ring') : i = Len(ring) + 1 \/ i \in 1..Len(ring)
    <3> HIDE DEF IInv
    <3> QED  BY <1>6, <1>7
  <2>2. \A i \in 1..Len(ring) : /\ ring[i].by \in Task
                                /\ Freed + i \in 1..Len(placed)
    BY <1>7, <1>8, RingFields
  <2>3. ASSUME NEW i \in 1..Len(ring')
        PROVE  /\ ring'[i].by = placed'[Freed + i].tid
               /\ \/ ring'[i].event = placed'[Freed + i]
                  \/ /\ ring'[i].event = Nothing
                     /\ probe'[ring'[i].by] = "reserved"
                     /\ event'[ring'[i].by] = placed'[Freed + i]
    <3>1. CASE i = Len(ring) + 1
      <4>1. Freed + i = Len(placed) + 1
        BY <1>7, <1>8, <3>1
      <4> QED
        BY <1>1, <1>2, <1>4, <1>5, <1>6, <1>10, <3>1, <4>1
    <3>2. CASE i \in 1..Len(ring)
      BY <1>1, <1>5, <1>6, <1>10, <2>2, <3>2 DEF RingInv
    <3> QED
      BY <2>1, <3>1, <3>2
  <2>4. ASSUME NEW i \in 1..Len(ring'), NEW j \in 1..Len(ring'),
               ring'[i].event = Nothing, ring'[j].event = Nothing,
               ring'[i].by = ring'[j].by
        PROVE  i = j
    <3>1. \A k \in 1..Len(ring) : ring[k].event = Nothing => ring[k].by # t
      <4>1. \A k \in 1..Len(ring) : placed[Freed + k] # Nothing
        BY <2>2, GenuineFields DEF PlacedInv
      <4> QED
        BY <1>1, <4>1 DEF RingInv
    <3> QED
      BY <1>2, <1>6, <2>1, <2>4, <3>1 DEF RingInv
  <2> QED
    BY <1>7, <1>8, <2>3, <2>4 DEF RingInv
<1>16. ShownInv'
  BY <1>1, <1>5, <1>6, <1>7, <1>8 DEF ShownInv
<1> QED
  BY <1>12, <1>13, <1>14, <1>15, <1>16

\* A busy place becomes readable: it is the one of the event's thread.
LEMMA CommitKeeps ==
  ASSUME IInv, NEW t \in Task, Commit(t)
  PROVE  IInv'
<1> USE DEF IInv
<1>1. /\ probe[t] = "reserved"
      /\ probe' = [probe EXCEPT ![t] = "idle"]
      /\ event' = [event EXCEPT ![t] = Nothing]
      /\ attached' = attached /\ reader' = reader
      /\ shown' = shown /\ placed' = placed /\ time' = time /\ opened' = opened
  BY DEF Commit, Return, readerVars
<1>2. PICK k \in DOMAIN ring :
        /\ ring[k].by = t /\ ring[k].event = Nothing
        /\ ring' = [ring EXCEPT ![k].event = event[t]]
  BY DEF Commit, Busy
<1> DEFINE Places == [by : Task, event : Events \cup {Nothing}]
           r == [ring[k] EXCEPT !.event = event[t]]
<1>3. ring \in Seq(Places) /\ k \in 1..Len(ring) /\ Len(ring) \in Nat
  BY DEF Types
<1>4. event[t] \in Events
  BY <1>1, GenuineFields DEF EventInv
<1>5. r \in Places /\ r.by = t /\ r.event = event[t]
  BY <1>2, <1>3, <1>4, RingFields
<1> HIDE DEF r, Places
<1>6. /\ ring' \in Seq(Places) /\ Len(ring') = Len(ring)
      /\ ring'[k] = r
      /\ \A i \in 1..Len(ring) : i # k => ring'[i] = ring[i]
  <2>1. ring' = [ring EXCEPT ![k] = r]
    BY <1>2 DEF r
  <2> QED
    BY <1>3, <1>5, <2>1, ExceptSeq
<1>7. event[t] = placed[Freed + k]
  <2>1. placed[Freed + k] # Nothing
    <3>1. Freed + k \in 1..Len(placed)
      BY <1>3, ShownHadPlace DEF Freed
    <3> QED
      BY <3>1, GenuineFields DEF PlacedInv
  <2> QED
    BY <1>2, <1>3, <2>1 DEF RingInv
<1>8. \A i \in 1..Len(ring) : i # k /\ ring[i].event = Nothing => ring[i].by # t
  BY <1>2, <1>3 DEF RingInv
<1>9. Freed' = Freed
  BY <1>1, <1>6 DEF Freed
<1>10. \A u \in Task : u # t => probe'[u] = probe[u] /\ event'[u] = event[u]
  BY <1>1 DEF Types
<1>11. probe'[t] = "idle" /\ event'[t] = Nothing
  BY <1>1 DEF Types
<1>12. \A g, u : Genuine(g, u)' <=> Genuine(g, u)
  BY <1>1 DEF Genuine
<1>13. Types'
  BY <1>1, <1>6 DEF Types, Places
<1>14. ASSUME NEW u \in Task
       PROVE  EventInv(u)'
  BY <1>1, <1>10, <1>11, <1>12 DEF EventInv
<1>15. PlacedInv'
  BY <1>1, <1>12 DEF PlacedInv
<1>16. RingInv'
  <2>1. \A i \in 1..Len(ring) : ring[i].by \in Task
    BY RingFields
  <2>2. ASSUME NEW i \in 1..Len(ring)
        PROVE  /\ ring'[i].by = placed[Freed + i].tid
               /\ \/ ring'[i].event = placed[Freed + i]
                  \/ /\ ring'[i].event = Nothing
                     /\ probe'[ring'[i].by] = "reserved"
                     /\ event'[ring'[i].by] = placed[Freed + i]
    <3>1. CASE i = k
      BY <1>2, <1>5, <1>6, <1>7, <3>1 DEF RingInv
    <3>2. CASE i # k
      BY <1>6, <1>8, <1>10, <2>1, <3>2 DEF RingInv
    <3> QED
      BY <3>1, <3>2
  <2>3. event[t] # Nothing
    BY <1>1 DEF EventInv
  <2>4. ASSUME NEW i \in 1..Len(ring), NEW j \in 1..Len(ring),
               ring'[i].event = Nothing, ring'[j].event = Nothing,
               ring'[i].by = ring'[j].by
        PROVE  i = j
    <3>1. i # k /\ j # k
      BY <1>5, <1>6, <2>3, <2>4
    <3> QED
      BY <1>6, <2>4, <3>1 DEF RingInv
  <2> QED
    BY <1>1, <1>6, <1>9, <2>2, <2>4 DEF RingInv
<1>17. ShownInv'
  <2>1. event[t] # Nothing
    BY <1>1 DEF EventInv
  <2>2. reader = "held" => ring'[1].event # Nothing
    <3>1. reader = "held" => k # 1 /\ 1 \in 1..Len(ring)
      BY <1>2, <1>3 DEF ShownInv
    <3> QED
      BY <1>6, <3>1 DEF ShownInv
  <2> QED
    BY <1>1, <1>6, <1>9, <2>2 DEF ShownInv
<1> QED
  BY <1>13, <1>14, <1>15, <1>16, <1>17

\* The reader attaches, ends, sleeps or wakes: the events are untouched.
LEMMA ReaderMovesKeeps ==
  ASSUME IInv, AttachEgress \/ AttachAccept \/ OpenRing \/ StartFails
                 \/ Sleep \/ Wake
  PROVE  IInv'
<1> USE DEF IInv
<1>1. /\ reader # "held" /\ reader' # "held"
      /\ reader' \in {"load", "attach_accept", "open_ring", "next", "held",
                      "sleep", "ended"}
      /\ attached' \subseteq {"tcp_v4_connect", "inet_csk_accept"}
      /\ time' = time /\ opened' = opened /\ probe' = probe /\ event' = event
      /\ ring' = ring /\ shown' = shown /\ placed' = placed
  BY DEF AttachEgress, AttachAccept, Attach, OpenRing, StartFails, Sleep, Wake,
         ReaderGoto, probeVars, Types
<1>2. \A g, u : Genuine(g, u)' <=> Genuine(g, u)
  BY <1>1 DEF Genuine
<1>3. Types'
  BY <1>1 DEF Types
<1>4. ASSUME NEW u \in Task
      PROVE  EventInv(u)'
  BY <1>1, <1>2 DEF EventInv
<1>5. PlacedInv'
  BY <1>1, <1>2 DEF PlacedInv
<1>6. RingInv' /\ ShownInv'
  BY <1>1 DEF RingInv, ShownInv, Freed
<1> QED
  BY <1>3, <1>4, <1>5, <1>6

\* The oldest event is printed, and its place held.
LEMMA ShowKeeps ==
  ASSUME IInv, Show
  PROVE  IInv'
<1> USE DEF IInv
<1> DEFINE e == ring[1].event
           Line == [event : Events, line : {print_event(g) : g \in Events}]
<1>1. /\ reader = "next" /\ reader' = "held"
      /\ ring # << >> /\ ring[1].event # Nothing
      /\ time' = time /\ opened' = opened /\ probe' = probe /\ event' = event
      /\ ring' = ring /\ attached' = attached /\ placed' = placed
  BY DEF Show, ReaderGoto, Readable, Busy, probeVars
<1>2. 1 \in 1..Len(ring) /\ Head(ring) = ring[1]
  BY <1>1 DEF Types
<1>3. shown' = Append(shown, [event |-> e, line |-> print_event(e)])
  BY <1>2 DEF Show
<1>4. e \in Events
  BY <1>1, <1>2, RingFields
<1>5. e = placed[Freed + 1]
  BY <1>1, <1>2 DEF RingInv
<1> DEFINE r == [event |-> e, line |-> print_event(e)]
<1>6. r \in Line /\ r.event = e /\ r.line = print_event(e)
  BY <1>4
<1> HIDE DEF r, Line, e
<1>7. /\ shown' \in Seq(Line) /\ Len(shown') = Len(shown) + 1
      /\ shown'[Len(shown) + 1] = r
      /\ \A i \in 1..Len(shown) : shown'[i] = shown[i]
  <2>1. shown \in Seq(Line) /\ shown' = Append(shown, r)
    BY <1>3 DEF Types, Line, r
  <2> QED
    BY <1>6, <2>1, AppendProperties
<1>8. \A g, u : Genuine(g, u)' <=> Genuine(g, u)
  BY <1>1 DEF Genuine
<1>9. Types'
  BY <1>1, <1>7 DEF Types, Line
<1>10. ASSUME NEW u \in Task
       PROVE  EventInv(u)'
  BY <1>1, <1>8 DEF EventInv
<1>11. PlacedInv'
  BY <1>1, <1>8 DEF PlacedInv
<1>12. RingInv' /\ Freed' = Freed
  BY <1>1 DEF RingInv, Freed
<1>13. ShownInv'
  <2>1. Len(shown) \in Nat /\ Freed \in Nat /\ Len(shown) = Freed /\ Len(ring) > 0
    BY <1>1, <1>2, ShownHadPlace DEF ShownInv
  <2>2. \A i \in 1..Len(shown') : i = Len(shown) + 1 \/ i \in 1..Len(shown)
    <3> HIDE DEF IInv
    <3> QED  BY <1>7, <2>1
  <2>3. \A i \in 1..Len(shown') :
          shown'[i].event = placed[i] /\ shown'[i].line = print_event(placed[i])
    BY <1>5, <1>6, <1>7, <2>1, <2>2 DEF ShownInv
  <2> QED
    BY <1>1, <1>7, <1>12, <2>1, <2>3 DEF ShownInv
<1> QED
  BY <1>9, <1>10, <1>11, <1>12, <1>13

\* The place of the item that was held is free.
LEMMA ReleaseKeeps ==
  ASSUME IInv, Release
  PROVE  IInv'
<1> USE DEF IInv
<1> DEFINE Places == [by : Task, event : Events \cup {Nothing}]
<1>1. /\ reader = "held" /\ reader' = "next" /\ ring' = Tail(ring)
      /\ time' = time /\ opened' = opened /\ probe' = probe /\ event' = event
      /\ attached' = attached /\ shown' = shown /\ placed' = placed
  BY DEF Release, ReaderGoto, probeVars
<1>2. ring \in Seq(Places) /\ ring # << >>
  BY <1>1 DEF Types, ShownInv
<1> HIDE DEF Places
<1>3. /\ ring' \in Seq(Places) /\ Len(ring') = Len(ring) - 1
      /\ \A i \in 1..Len(ring') : ring'[i] = ring[i + 1]
      /\ Len(ring) \in Nat \ {0} /\ Len(placed) \in Nat /\ Freed \in Nat
  BY <1>1, <1>2, HeadTailProperties, EmptySeq, ShownHadPlace
<1>4. Freed' = Freed + 1
  BY <1>1, <1>3 DEF Freed
<1>5. \A g, u : Genuine(g, u)' <=> Genuine(g, u)
  BY <1>1 DEF Genuine
<1>6. Types'
  <2>1. Len(ring') <= Capacity
    BY <1>3, MonitorAssumption DEF Types
  <2> QED
    BY <1>1, <1>3, <2>1 DEF Types, Places
<1>7. ASSUME NEW u \in Task
      PROVE  EventInv(u)'
  BY <1>1, <1>5 DEF EventInv
<1>8. PlacedInv'
  BY <1>1, <1>5 DEF PlacedInv
<1>9. RingInv'
  <2>1. \A i \in 1..Len(ring') :
          /\ i + 1 \in 1..Len(ring) /\ ring'[i] = ring[i + 1]
          /\ Freed' + i = Freed + (i + 1)
    BY <1>3, <1>4
  <2>2. ASSUME NEW i \in 1..Len(ring')
        PROVE  /\ ring'[i].by = placed'[Freed' + i].tid
               /\ \/ ring'[i].event = placed'[Freed' + i]
                  \/ /\ ring'[i].event = Nothing
                     /\ probe'[ring'[i].by] = "reserved"
                     /\ event'[ring'[i].by] = placed'[Freed' + i]
    BY <1>1, <2>1 DEF RingInv
  <2>3. ASSUME NEW i \in 1..Len(ring'), NEW j \in 1..Len(ring'),
               ring'[i].event = Nothing, ring'[j].event = Nothing,
               ring'[i].by = ring'[j].by
        PROVE  i = j
    <3>1. \A k, l \in 1..Len(ring) :
            /\ ring[k].event = Nothing /\ ring[l].event = Nothing
            /\ ring[k].by = ring[l].by
            => k = l
      BY DEF RingInv
    <3>2. /\ i + 1 \in 1..Len(ring) /\ j + 1 \in 1..Len(ring)
          /\ ring[i + 1].event = Nothing /\ ring[j + 1].event = Nothing
          /\ ring[i + 1].by = ring[j + 1].by
      BY <2>1, <2>3
    <3>3. i + 1 = j + 1
      BY <3>1, <3>2, Zenon
    <3> QED
      BY <3>3
  <2>4. Freed' >= 0
    BY <1>3, <1>4
  <2> QED
    BY <2>2, <2>3, <2>4 DEF RingInv
<1>10. ShownInv'
  BY <1>1, <1>3, <1>4 DEF ShownInv
<1> QED
  BY <1>6, <1>7, <1>8, <1>9, <1>10

\* No step leaves IInv.
LEMMA NextKeeps == IInv /\ [Next]_vars => IInv'
<1> SUFFICES ASSUME IInv, [Next]_vars PROVE IInv'
  OBVIOUS
<1>1. CASE UNCHANGED vars
  <2>1. /\ time' = time /\ opened' = opened /\ probe' = probe /\ event' = event
        /\ ring' = ring /\ attached' = attached /\ reader' = reader
        /\ shown' = shown /\ placed' = placed
    BY <1>1 DEF vars, probeVars, readerVars
  <2>2. \A g, u : Genuine(g, u)' <=> Genuine(g, u)
    BY <2>1 DEF Genuine
  <2>3. Types'
    BY <2>1 DEF IInv, Types
  <2>4. ASSUME NEW u \in Task
        PROVE  EventInv(u)'
    BY <2>1, <2>2 DEF IInv, EventInv
  <2>5. PlacedInv'
    BY <2>1, <2>2 DEF IInv, PlacedInv
  <2>6. RingInv' /\ ShownInv'
    BY <2>1 DEF IInv, RingInv, ShownInv, Freed
  <2> QED
    BY <2>3, <2>4, <2>5, <2>6 DEF IInv
<1>2. CASE Next
  BY <1>2, WorldKeeps, FillKeeps, GiveUpKeeps, ReserveKeeps, CommitKeeps,
     ReaderMovesKeeps, ShowKeeps, ReleaseKeeps DEF Next, ProbeStep, ReaderStep
<1> QED
  BY <1>1, <1>2

\* IInv holds in every reachable state.
LEMMA Invariance == Spec => []IInv
BY InitHolds, NextKeeps, PTL DEF Spec

-----------------------------------------------------------------------------
(* The theorems.                                                           *)

\* The ring never holds more than EVENTS has room for, whatever the threads
\* and the reader do, and an event in it carries the id of its thread.
THEOREM MonitorTypes == Spec => []TypeOK
<1>1. IInv => TypeOK
  <2> SUFFICES ASSUME IInv PROVE TypeOK
    OBVIOUS
  <2>1. ASSUME NEW t \in Task
        PROVE  /\ probe[t] \in {"idle", "filled", "reserved"}
               /\ event[t] = Nothing <=> probe[t] = "idle"
               /\ event[t] # Nothing => event[t].event \in EventType
    <3>1. {"Connect", "Accept"} \subseteq EventType
      BY DEF EventType, as_str
    <3>2. probe[t] # "idle" => event[t].event \in {"Connect", "Accept"}
      BY GenuineFields DEF IInv, EventInv
    <3> QED
      BY <3>1, <3>2 DEF IInv, EventInv, Types
  <2>2. ASSUME NEW i \in DOMAIN ring, ~Busy(i)
        PROVE  ring[i].event.tid = ring[i].by
    <3>1. i \in 1..Len(ring)
      BY DEF IInv, Types
    <3> QED
      BY <2>2, <3>1 DEF IInv, RingInv, Busy
  <2> QED
    BY <2>1, <2>2 DEF TypeOK, IInv, Types
<1> QED
  BY <1>1, Invariance, PTL

\* The loop of monitor.rs 72-86 prints what got a place in the ring, once and
\* in the order of the places; within a thread that is the order of its
\* connections and of their time stamps.
THEOREM AlwaysShownAsPlaced == Spec => []ShownAsPlaced
<1>1. IInv => ShownAsPlaced
  <2> SUFFICES ASSUME IInv PROVE ShownAsPlaced
    OBVIOUS
  <2>1. /\ DOMAIN shown = 1..Len(shown) /\ Len(shown) \in Nat
        /\ Len(placed) \in Nat /\ Len(shown) <= Len(placed)
    <3>1. DOMAIN shown = 1..Len(shown)
      BY DEF IInv, Types
    <3> QED
      BY <3>1, ShownHadPlace
  <2>2. \A i \in 1..Len(shown) : i \in 1..Len(placed) /\ shown[i].event = placed[i]
    BY <2>1 DEF IInv, ShownInv
  <2>3. ASSUME NEW i \in 1..Len(shown), NEW j \in 1..Len(shown), i < j,
               shown[i].event.tid = shown[j].event.tid
        PROVE  /\ shown[i].event.timestamp_ns <= shown[j].event.timestamp_ns
               /\ shown[i].event.socket_id < shown[j].event.socket_id
    BY <2>2, <2>3 DEF IInv, PlacedInv
  <2> QED
    BY <2>1, <2>2, <2>3 DEF ShownAsPlaced
<1> QED
  BY <1>1, Invariance, PTL

-----------------------------------------------------------------------------
(* The lines.                                                              *)

\* A function on 1..n is a sequence.
LEMMA FunctionIsSeq ==
  ASSUME NEW S, NEW n \in Nat, NEW f \in [1..n -> S]
  PROVE  f \in Seq(S) /\ Len(f) = n
OBVIOUS

\* The two parts of a concatenation.
LEMMA ConcatParts ==
  ASSUME NEW S, NEW m \in Nat, NEW n \in Nat,
         NEW y \in Seq(S), NEW z \in Seq(S), Len(y) = m, Len(z) = n
  PROVE  /\ y \o z \in Seq(S) /\ Len(y \o z) = m + n
         /\ \A i \in 1..m : (y \o z)[i] = y[i]
         /\ \A i \in 1..n : (y \o z)[m + i] = z[i]
<1>1. /\ y \o z \in Seq(S) /\ Len(y \o z) = m + n
      /\ \A i \in 1..(m + n) : (y \o z)[i] = IF i <= m THEN y[i] ELSE z[i - m]
  BY ConcatProperties
<1>2. ASSUME NEW i \in 1..n
      PROVE  (y \o z)[m + i] = z[i]
  <2>1. m + i \in 1..(m + n) /\ ~(m + i <= m) /\ m + i - m = i
    OBVIOUS
  <2> QED
    BY <1>1, <2>1
<1>3. \A i \in 1..m : i \in 1..(m + n) /\ i <= m
  OBVIOUS
<1> QED
  BY <1>1, <1>2, <1>3

\* The piece of a sequence behind its first m elements, up to the n-th.
LEMMA SubSeqParts ==
  ASSUME NEW S, NEW s \in Seq(S), NEW m \in Nat, NEW n \in Nat,
         m < n, n <= Len(s)
  PROVE  /\ SubSeq(s, m + 1, n) \in Seq(S)
         /\ Len(SubSeq(s, m + 1, n)) = n - m
         /\ \A i \in 1..(n - m) : SubSeq(s, m + 1, n)[i] = s[m + i]
<1>1. \A i \in (m + 1)..n : s[i] \in S
  BY ElementOfSeq
<1>2. /\ SubSeq(s, m + 1, n) \in Seq(S)
      /\ Len(SubSeq(s, m + 1, n)) = n - (m + 1) + 1
      /\ \A i \in 1..(n - (m + 1) + 1) :
           SubSeq(s, m + 1, n)[i] = s[(m + 1) + i - 1]
  BY <1>1, SubSeqProperties
<1>3. n - (m + 1) + 1 = n - m /\ \A i \in Nat : (m + 1) + i - 1 = m + i
  OBVIOUS
<1> QED
  BY <1>2, <1>3

\* Zero bytes.
LEMMA ZerosSeq ==
  ASSUME NEW n \in Nat
  PROVE  /\ Zeros(n) \in Seq(Byte) /\ Len(Zeros(n)) = n
         /\ \A i \in 1..n : Zeros(n)[i] = 0
BY DEF Zeros, Byte

\* The numbers of bytes that occur here, and their sums.
LEMMA Sizes ==
  /\ 0 \in Nat /\ 4 \in Nat /\ 10 \in Nat /\ 12 \in Nat /\ 16 \in Nat
  /\ 2 \in Nat /\ 0 + 1 = 1 /\ 4 + 1 = 5 /\ 4 + 12 = 16 /\ 12 + 1 = 13
OBVIOUS

\* What is padded with zero bytes: its head, and its tail.
LEMMA PaddedPieces ==
  ASSUME NEW m \in Nat, NEW n \in Nat, 0 < m, 0 < n,
         NEW ip \in [1..m -> Byte]
  PROVE  LET s == ip \o Zeros(n)
         IN /\ s \in Seq(Byte) /\ Len(s) = m + n
            /\ SubSeq(s, 1, m) = ip
            /\ SubSeq(s, m + 1, m + n) = Zeros(n)
            /\ \A i \in 1..n : s[m + i] = 0
<1> DEFINE s == ip \o Zeros(n)
<1>1. ip \in Seq(Byte) /\ Len(ip) = m
  BY FunctionIsSeq
<1>2. /\ Zeros(n) \in Seq(Byte) /\ Len(Zeros(n)) = n
      /\ \A i \in 1..n : Zeros(n)[i] = 0
  BY ZerosSeq
<1>3. /\ s \in Seq(Byte) /\ Len(s) = m + n
      /\ \A i \in 1..m : s[i] = ip[i]
      /\ \A i \in 1..n : s[m + i] = Zeros(n)[i]
  BY <1>1, <1>2, ConcatParts
<1> HIDE DEF s
<1>4. SubSeq(s, m + 1, m + n) = Zeros(n)
  <2>1. /\ SubSeq(s, m + 1, m + n) \in Seq(Byte)
        /\ Len(SubSeq(s, m + 1, m + n)) = m + n - m
        /\ \A i \in 1..(m + n - m) : SubSeq(s, m + 1, m + n)[i] = s[m + i]
    BY <1>3, SubSeqParts
  <2>2. m + n - m = n
    OBVIOUS
  <2> QED
    BY <1>2, <1>3, <2>1, <2>2, SeqEqual
<1>5. SubSeq(s, 1, m) = ip
  <2>1. /\ SubSeq(s, 0 + 1, m) \in Seq(Byte)
        /\ Len(SubSeq(s, 0 + 1, m)) = m - 0
        /\ \A i \in 1..(m - 0) : SubSeq(s, 0 + 1, m)[i] = s[0 + i]
    BY <1>3, SubSeqParts
  <2>2. m - 0 = m /\ \A i \in 1..m : 0 + i = i
    OBVIOUS
  <2>3. SubSeq(s, 0 + 1, m) = ip
    BY <1>1, <1>3, <2>1, <2>2, SeqEqual
  <2> QED
    BY <2>3
<1> QED
  BY <1>2, <1>3, <1>4, <1>5 DEF s

\* The eleventh byte of an IPv4-mapped address.
LEMMA MappedPrefix ==
  (Zeros(10) \o <<255, 255>>)[11] = 255
<1> DEFINE y == Zeros(10)  z == <<255, 255>>  m == 10  n == 2
<1>1. m \in Nat /\ n \in Nat /\ m + 1 = 11 /\ 1 \in 1..n
  OBVIOUS
<1>2. y \in Seq(Byte) /\ Len(y) = m
  BY <1>1, ZerosSeq
<1>3. z \in Seq(Byte) /\ Len(z) = n /\ z[1] = 255
  BY DEF Byte
<1> HIDE DEF y, z, m, n
<1>4. \A i \in 1..n : (y \o z)[m + i] = z[i]
  BY <1>1, <1>2, <1>3, ConcatParts
<1>5. (y \o z)[11] = 255
  <2>1. (y \o z)[m + 1] = z[1]
    BY <1>1, <1>4
  <2>2. (y \o z)[m + 1] = (y \o z)[11]
    BY <1>1, Zenon
  <2> QED
    BY <1>3, <2>1, <2>2
<1> QED
  BY <1>5 DEF y, z

\* An IPv4 address, kept as fill_ipv4 keeps it, is shown as it is.
LEMMA ShownIpv4 ==
  ASSUME NEW ip \in [1..4 -> Byte]
  PROVE  ip_to_string(ip \o Zeros(12)) = ip
<1> DEFINE s == ip \o Zeros(12)
<1>1. /\ s \in Seq(Byte) /\ Len(s) = 4 + 12
      /\ SubSeq(s, 1, 4) = ip
      /\ SubSeq(s, 4 + 1, 4 + 12) = Zeros(12)
      /\ \A i \in 1..12 : s[4 + i] = 0
  <2>1. 0 < 4 /\ 0 < 12
    OBVIOUS
  <2> QED
    BY <2>1, Sizes, PaddedPieces, Zenon
<1> HIDE DEF s
<1>2. SubSeq(s, 1, 12) # Zeros(10) \o <<255, 255>>
  <2> DEFINE n == 12  o == 0
  <2>1. /\ n \in Nat /\ o \in Nat /\ o < n /\ n <= Len(s)
        /\ 11 \in 1..(n - o) /\ o + 11 = 4 + 7 /\ o + 1 = 1
    BY <1>1
  <2> HIDE DEF n, o
  <2>2. \A i \in 1..(n - o) : SubSeq(s, o + 1, n)[i] = s[o + i]
    BY <1>1, <2>1, SubSeqParts
  <2>3. SubSeq(s, 1, 12)[11] = s[4 + 7]
    BY <2>1, <2>2 DEF n
  <2>4. s[4 + 7] = 0
    BY <1>1
  <2> QED
    BY <2>3, <2>4, MappedPrefix
<1>3. SubSeq(s, 5, 16) = Zeros(12)
  BY <1>1
<1> QED
  BY <1>1, <1>2, <1>3 DEF ip_to_string, s

\* An IPv6 address is shown as it is, or as the IPv4 address it stands for.
LEMMA ShownIpv6 ==
  ASSUME NEW ip \in [1..16 -> Byte], ~LooksLikeIpv4(ip)
  PROVE  \/ ip_to_string(ip) = ip
         \/ ip = Mapped(ip_to_string(ip))
<1>1. ip \in Seq(Byte) /\ Len(ip) = 16
  <2> DEFINE n == 16
  <2>1. n \in Nat /\ ip \in [1..n -> Byte]
    OBVIOUS
  <2> HIDE DEF n
  <2>2. ip \in Seq(Byte) /\ Len(ip) = n
    BY <2>1, FunctionIsSeq
  <2> QED
    BY <2>2 DEF n
<1>2. SubSeq(ip, 5, 16) # Zeros(12)
  BY <1>1 DEF LooksLikeIpv4
<1>3. CASE SubSeq(ip, 1, 12) = Zeros(10) \o <<255, 255>>
  <2>1. ip_to_string(ip) = SubSeq(ip, 13, 16)
    BY <1>2, <1>3 DEF ip_to_string
  <2>2. SubSeq(ip, 1, 12) \o SubSeq(ip, 13, 16) = SubSeq(ip, 1, 16)
    <3>1. \A m \in 1..Len(ip)+1 : \A k \in m-1..Len(ip) : \A n \in k..Len(ip) :
            SubSeq(ip, m, k) \o SubSeq(ip, k + 1, n) = SubSeq(ip, m, n)
      BY <1>1, ConcatAdjacentSubSeq
    <3>2. 1 \in 1..Len(ip)+1 /\ 12 \in 1-1..Len(ip) /\ 16 \in 12..Len(ip)
          /\ 12 + 1 = 13
      BY <1>1
    <3> QED
      BY <3>1, <3>2
  <2>3. SubSeq(ip, 1, 16) = ip
    BY <1>1, SubSeqFull
  <2>4. Mapped(SubSeq(ip, 13, 16)) = ip
    BY <1>3, <2>2, <2>3 DEF Mapped
  <2> QED
    BY <2>1, <2>4
<1>4. CASE SubSeq(ip, 1, 12) # Zeros(10) \o <<255, 255>>
  BY <1>2, <1>4 DEF ip_to_string
<1> QED
  BY <1>3, <1>4

\* What print_event writes of an address that a probe kept names that address.
LEMMA KeptIsShown ==
  ASSUME NEW c \in Connection, NEW ip \in {c.local.ip, c.remote.ip, c.peer.ip},
         ~LooksLikeIpv4(ip)
  PROVE  LET str == ip_to_string(Kept(c, ip))
         IN str = ip \/ ip = Mapped(str)
<1>1. \A f, b : c \in ConnectionOf(f, b) => c.family = f /\ ip \in [1..b -> Byte]
  <2>1. \A f, b : c \in ConnectionOf(f, b) =>
          /\ c.family = f /\ c.local \in Endpoint(b)
          /\ c.remote \in Endpoint(b) /\ c.peer \in Endpoint(b)
    BY DEF ConnectionOf
  <2>2. \A b, e : e \in Endpoint(b) => e.ip \in [1..b -> Byte]
    BY DEF Endpoint
  <2> QED
    BY <2>1, <2>2, Zenon
<1>2. CASE c \in ConnectionOf(AF_INET, 4)
  <2>1. c.family = AF_INET /\ ip \in [1..4 -> Byte]
    BY <1>1, <1>2
  <2>2. ip_to_string(ip \o Zeros(12)) = ip
    BY <2>1, ShownIpv4
  <2> QED
    BY <2>1, <2>2 DEF Kept
<1>3. CASE c \in ConnectionOf(AF_INET6, 16)
  <2>1. c.family = AF_INET6 /\ ip \in [1..16 -> Byte]
    BY <1>1, <1>3
  <2>2. Kept(c, ip) = ip
    BY <2>1 DEF Kept, AF_INET, AF_INET6
  <2>3. ip_to_string(ip) = ip \/ ip = Mapped(ip_to_string(ip))
    BY <2>1, ShownIpv6
  <2> QED
    BY <2>2, <2>3
<1> QED
  BY <1>2, <1>3 DEF Connection

\* The line of a probe's event tells its connection.
LEMMA LineDescribes ==
  ASSUME NEW c \in Connection, NEW sk, NEW t, NEW now
  PROVE  LET e == ProbeEvent(c, sk, t, now)
         IN /\ TellsKind(print_event(e), c)
            /\ ~LooksLikeIpv4(Initiator(c).ip) => TellsInitiator(print_event(e), c)
            /\ ~LooksLikeIpv4(Target(c).ip) => TellsTarget(print_event(e), c)
            /\ e.direction = "Egress" <=> c.kind = "connect"
<1> DEFINE e == ProbeEvent(c, sk, t, now)
           line == print_event(e)
<1>1. /\ e.event = IF c.kind = "connect" THEN "Connect" ELSE "Accept"
      /\ e.protocol = protocol(c)
      /\ e.direction = IF c.kind = "connect" THEN "Egress" ELSE "Ingress"
      /\ e.src_ip = Kept(c, c.local.ip) /\ e.dst_ip = Kept(c, c.peer.ip)
      /\ e.src_port = c.local.port /\ e.dst_port = c.peer.port
      /\ e.ret = IF c.kind = "connect" THEN c.ret ELSE 0
  BY ProbeFields DEF Has
<1> HIDE DEF e
<1>2. /\ line.protocol = TransportProtocol[e.protocol]
      /\ line.event = as_str[e.event]
      /\ line.result = result_string(e.ret)
      /\ line.arrow = arrow(e.event)
      /\ line.src.ip = ip_to_string(e.src_ip) /\ line.src.port = e.src_port
      /\ line.dst.ip = ip_to_string(e.dst_ip) /\ line.dst.port = e.dst_port
  BY DEF print_event
<1> HIDE DEF line
<1>3. c.kind \in {"connect", "accept"}
  BY DEF Connection, ConnectionOf
<1>4. line.protocol = "TCP" <=> c.protocol = IPPROTO_TCP
  BY <1>1, <1>2 DEF protocol, TransportProtocol, IPPROTO_TCP, IPPROTO_UDP
<1>5. line.event = "CONNECT" <=> c.kind = "connect"
  BY <1>1, <1>2 DEF as_str
<1>6. line.result = <<"OK">> <=> ~Failed(c)
  <2>1. \A r : result_string(r) = <<"OK">> <=> r = 0
    <3>1. \A r : <<"ERR", r>> # <<"OK">>
      <4>1. \A r : Len(<<"ERR", r>>) = 2 /\ Len(<<"OK">>) = 1
        OBVIOUS
      <4> QED
        BY <4>1
    <3> QED
      BY <3>1 DEF result_string
  <2> QED
    BY <1>1, <1>2, <1>3, <2>1 DEF Failed
<1>7. /\ ~LooksLikeIpv4(Initiator(c).ip) => TellsInitiator(line, c)
      /\ ~LooksLikeIpv4(Target(c).ip) => TellsTarget(line, c)
  <2>1. ~LooksLikeIpv4(c.local.ip) => Names(line.src, c.local)
    BY <1>1, <1>2, KeptIsShown DEF Names
  <2>2. ASSUME ~Failed(c), ~LooksLikeIpv4(c.remote.ip)
        PROVE  Names(line.dst, c.remote)
    <3>1. c.peer = c.remote
      BY <2>2 DEF Connection
    <3> QED
      BY <1>1, <1>2, <2>2, <3>1, KeptIsShown DEF Names
  <2>3. line.arrow = IF c.kind = "connect" THEN "right" ELSE "left"
    BY <1>1, <1>2 DEF arrow
  <2>4. c.kind # "connect" => ~Failed(c)
    BY DEF Failed
  <2>5. CASE c.kind = "connect"
    BY <2>1, <2>2, <2>3, <2>5
       DEF From, To, Initiator, Target, TellsInitiator, TellsTarget
  <2>6. CASE c.kind # "connect"
    BY <2>1, <2>2, <2>3, <2>4, <2>6
       DEF From, To, Initiator, Target, TellsInitiator, TellsTarget
  <2> QED
    BY <2>5, <2>6
<1>8. e.direction = "Egress" <=> c.kind = "connect"
  BY <1>1
<1> QED
  BY <1>4, <1>5, <1>6, <1>7, <1>8 DEF TellsKind, line, e

\* Two conversions in two programs (socket.rs 10-54 and monitor.rs 89-182)
\* agree on every protocol, kind, result and port, on every IPv4 address and on
\* every IPv6 address that does not end in twelve zero bytes; of a failed
\* connect the line tells the end that opened it.
THEOREM AlwaysLineTells == Spec => []LineTellsConnection
<1>1. IInv => LineTellsConnection
  <2> SUFFICES ASSUME IInv, NEW i \in 1..Len(shown)
               PROVE  LET c == opened[shown[i].event.socket_id].conn
                          line == shown[i].line
                      IN /\ TellsKind(line, c)
                         /\ ~LooksLikeIpv4(Initiator(c).ip) =>
                              TellsInitiator(line, c)
                         /\ ~LooksLikeIpv4(Target(c).ip) =>
                              TellsTarget(line, c)
                         /\ shown[i].event.direction = "Egress"
                              <=> c.kind = "connect"
    <3>1. DOMAIN shown = 1..Len(shown)
      BY DEF IInv, Types
    <3> QED
      BY <3>1 DEF LineTellsConnection
  <2>1. /\ i \in 1..Len(placed)
        /\ shown[i].event = placed[i] /\ shown[i].line = print_event(placed[i])
    <3>1. Len(shown) \in Nat /\ Len(placed) \in Nat /\ Len(shown) <= Len(placed)
      BY ShownHadPlace DEF IInv, Types
    <3> QED
      BY <3>1 DEF IInv, ShownInv
  <2>2. placed[i].tid \in Task /\ Genuine(placed[i], placed[i].tid)
    BY <2>1 DEF IInv, PlacedInv
  <2>3. PICK n \in 1..Len(opened), ts \in 0..time :
          /\ opened[n].conn \in Conns[placed[i].tid]
          /\ placed[i] = ProbeEvent(opened[n].conn, n, placed[i].tid, ts)
    BY <2>2 DEF Genuine
  <2>4. opened[n].conn \in Connection
    BY <2>2, <2>3, MonitorAssumption
  <2>5. placed[i].socket_id = n
    BY <2>3, <2>4, ProbeFields DEF Has
  <2> QED
    BY <2>1, <2>3, <2>4, <2>5, LineDescribes
<1> QED
  BY <1>1, Invariance, PTL

=============================================================================
