------------------------------ MODULE Monitor -------------------------------
(***************************************************************************)
(* The connection monitor: the two fexit probes, which run in the threads  *)
(* that open connections (rustguard-ebpf/src/fexit_tcp4_*.rs), the ring    *)
(* EVENTS they share (socket.rs), and monitor_run, which attaches them and *)
(* prints what the ring delivers (rustguard/src/monitor.rs).  A probe      *)
(* fills its event first and takes a place in the ring later, and the      *)
(* place is readable only once it is committed.  print_event also asks     *)
(* ProcessCache for an executable and discards the answer: that part is in *)
(* the module ProcessCache.                                                *)
(***************************************************************************)
EXTENDS NetEvent

CONSTANTS
  Task,       \* threads that open connections
  Conns,      \* Conns[t]: the connections thread t may open
  Capacity,   \* events that fit in EVENTS
  Nothing,    \* no event
  MaxConns,   \* bound on the connections opened
  MaxTime     \* bound on the clock

\* What the probe on connection c has filled in when it calls EVENTS.output.
ProbeEvent(c, sk, t, now) ==
  IF c.kind = "connect" THEN try_tcp_v4_connect_exit(c, sk, t, now)
                        ELSE try_incoming_connection(c, sk, t, now)

ASSUME MonitorAssumption ==
  /\ Capacity \in Nat \ {0}
  /\ MaxConns \in Nat
  /\ MaxTime \in Nat
  /\ \A t \in Task : Conns[t] \subseteq Connection
  /\ \A t \in Task : \A c \in Conns[t] :
       \A sk \in 1..MaxConns, now \in 0..MaxTime :
         ProbeEvent(c, sk, t, now) # Nothing

VARIABLES
  time,       \* the clock of bpf_ktime_get_ns
  opened,     \* connections opened, and whether both probes were attached
  probe,      \* probe[t]: where the probe is that runs in thread t
  event,      \* event[t]: its local variable event
  ring,       \* EVENTS: places in order, each with its thread and its event, or
              \* Nothing while the place is busy
  attached,   \* kernel functions that have a probe
  reader,     \* where monitor_run is
  \* History, read by the properties only:
  placed,     \* the events that got a place in the ring
  shown       \* the events printed, each with its line

probeVars == <<opened, probe, event>>
readerVars == <<attached, reader, shown>>
vars == <<time, probeVars, ring, readerVars, placed>>

Init ==
  /\ time = 0
  /\ opened = << >>
  /\ probe = [t \in Task |-> "idle"]
  /\ event = [t \in Task |-> Nothing]
  /\ ring = << >>
  /\ attached = {}
  /\ reader = "load"
  /\ placed = << >>
  /\ shown = << >>

-----------------------------------------------------------------------------
(* The world: time, and the connections that threads open.                 *)

Tick ==
  /\ time < MaxTime
  /\ time' = time + 1
  /\ UNCHANGED <<probeVars, ring, readerVars, placed>>

\* The kernel function a connection passes through on the way out of which
\* its event is made.  An IPv6 socket connected to an IPv4-mapped address is
\* handed to tcp_v4_connect.
Function(c) ==
  CASE c.kind = "accept" -> "inet_csk_accept"
    [] c.kind = "connect" /\ (\/ c.family = AF_INET
                              \/ IsMapped(c.remote.ip)) -> "tcp_v4_connect"
    [] OTHER -> "tcp_v6_connect"

BothAttached == attached = {"tcp_v4_connect", "inet_csk_accept"}

Open(c) ==
  /\ Len(opened) < MaxConns
  /\ opened' = Append(opened, [conn |-> c, watched |-> BothAttached])

\* No probe on this function, or none yet.
OpenUnseen(t, c) ==
  /\ probe[t] = "idle"
  /\ Function(c) \notin attached
  /\ Open(c)
  /\ UNCHANGED <<time, probe, event, ring, readerVars, placed>>

-----------------------------------------------------------------------------
(* The probes.  An accept that returns no socket leaves no trace.          *)

\* The probe runs and fills its event, up to the call of EVENTS.output.
Fill(t, c) ==
  /\ probe[t] = "idle"
  /\ Function(c) \in attached
  /\ Open(c)
  /\ probe' = [probe EXCEPT ![t] = "filled"]
  /\ event' = [event EXCEPT ![t] = ProbeEvent(c, Len(opened) + 1, t, time)]
  /\ UNCHANGED <<time, ring, readerVars, placed>>

\* The probe returns 0, whatever happened.
Return(t) ==
  /\ probe' = [probe EXCEPT ![t] = "idle"]
  /\ event' = [event EXCEPT ![t] = Nothing]
  /\ UNCHANGED <<time, opened, readerVars>>

\* A `?` of protocol, fill_socket or current_comm.
ReadFails(t) ==
  /\ probe[t] = "filled"
  /\ Return(t)
  /\ UNCHANGED <<ring, placed>>

\* EVENTS.output finds no space for the event.
RingFull(t) ==
  /\ probe[t] = "filled"
  /\ Len(ring) >= Capacity
  /\ Return(t)
  /\ UNCHANGED <<ring, placed>>

\* Mutant of Reserve: no look at the consumer's position.
ReserveAnyway(t) ==
  /\ probe[t] = "filled"
  /\ probe' = [probe EXCEPT ![t] = "reserved"]
  /\ ring' = Append(ring, [by |-> t, event |-> Nothing])
  /\ placed' = Append(placed, event[t])
  /\ UNCHANGED <<time, opened, event, readerVars>>

\* EVENTS.output takes the next place, which is busy.
Reserve(t) ==
  /\ probe[t] = "filled"
  /\ Len(ring) < Capacity
  /\ probe' = [probe EXCEPT ![t] = "reserved"]
  /\ ring' = Append(ring, [by |-> t, event |-> Nothing])
  /\ placed' = Append(placed, event[t])
  /\ UNCHANGED <<time, opened, event, readerVars>>

\* Mutant of Commit: the place is never submitted.
CommitForgotten(t) ==
  /\ probe[t] = "reserved"
  /\ Return(t)
  /\ UNCHANGED <<ring, placed>>

Busy(i) == ring[i].event = Nothing

\* EVENTS.output has copied the event to its place, and makes it readable.
Commit(t) ==
  /\ probe[t] = "reserved"
  /\ \E i \in DOMAIN ring :
       /\ ring[i].by = t /\ Busy(i)
       /\ ring' = [ring EXCEPT ![i].event = event[t]]
  /\ Return(t)
  /\ UNCHANGED placed

ProbeStep(t) == ReadFails(t) \/ RingFull(t) \/ Reserve(t) \/ Commit(t)

-----------------------------------------------------------------------------
(* monitor_run.                                                            *)

ReaderGoto(from, to) ==
  /\ reader = from
  /\ reader' = to

Attach(from, to, function) ==
  /\ ReaderGoto(from, to)
  /\ attached' = attached \cup {function}
  /\ UNCHANGED <<time, probeVars, ring, shown, placed>>

\* prog_egress.attach() and prog_accept.attach(), each with its load.
AttachEgress == Attach("load", "attach_accept", "tcp_v4_connect")
AttachAccept == Attach("attach_accept", "open_ring", "inet_csk_accept")

\* RingBuf::try_from, the empty cache and the heading.
OpenRing ==
  /\ ReaderGoto("open_ring", "next")
  /\ UNCHANGED <<time, probeVars, ring, attached, shown, placed>>

\* A `?` before the loop: ebpf is dropped, and the probes and maps with it.
StartFails ==
  /\ reader \in {"load", "attach_accept", "open_ring"}
  /\ reader' = "ended"
  /\ attached' = {}
  /\ UNCHANGED <<time, probeVars, ring, shown, placed>>

Readable == ring # << >> /\ ~Busy(1)

\* ring.next() returns the oldest event, and print_event prints it.  All
\* records have the size of a NetEvent.
Show ==
  /\ ReaderGoto("next", "held")
  /\ Readable
  /\ LET e == Head(ring).event
     IN shown' = Append(shown, [event |-> e, line |-> print_event(e)])
  /\ UNCHANGED <<time, probeVars, ring, attached, placed>>

\* Mutant of Release: the item is never dropped.
ReleaseForgotten ==
  /\ ReaderGoto("held", "next")
  /\ UNCHANGED <<time, probeVars, ring, attached, shown, placed>>

\* The item goes out of scope, and its place is free.
Release ==
  /\ ReaderGoto("held", "next")
  /\ ring' = Tail(ring)
  /\ UNCHANGED <<time, probeVars, attached, shown, placed>>

\* ring.next() returns None: the ring is empty, or its oldest place is busy.
Sleep ==
  /\ ReaderGoto("next", "sleep")
  /\ ~Readable
  /\ UNCHANGED <<time, probeVars, ring, attached, shown, placed>>

Wake ==
  /\ ReaderGoto("sleep", "next")
  /\ UNCHANGED <<time, probeVars, ring, attached, shown, placed>>

ReaderStep ==
  \/ AttachEgress \/ AttachAccept \/ OpenRing \/ StartFails
  \/ Show \/ Release
  \/ Sleep \/ Wake

Next ==
  \/ Tick
  \/ \E t \in Task :
       \/ \E c \in Conns[t] : OpenUnseen(t, c) \/ Fill(t, c)
       \/ ProbeStep(t)
  \/ ReaderStep

Spec == Init /\ [][Next]_vars

\* A probe runs to its end, and the monitor's thread keeps running.
FairSpec ==
  /\ Spec
  /\ \A t \in Task : WF_vars(ProbeStep(t))
  /\ WF_vars(ReaderStep)

-----------------------------------------------------------------------------

\* The shape of every variable; the ring never holds more than fits.
TypeOK ==
  /\ time \in 0..MaxTime
  /\ \A t \in Task :
       /\ probe[t] \in {"idle", "filled", "reserved"}
       /\ event[t] = Nothing <=> probe[t] = "idle"
       /\ event[t] # Nothing => event[t].event \in EventType
  /\ Len(ring) <= Capacity
  /\ \A i \in DOMAIN ring : ~Busy(i) => ring[i].event.tid = ring[i].by
  /\ attached \subseteq {"tcp_v4_connect", "inet_csk_accept"}
  /\ reader \in {"load", "attach_accept", "open_ring", "next", "held", "sleep",
                 "ended"}

\* The loop of monitor.rs 72-86 prints the events that got a place in EVENTS
\* once each, whole and in the order of their places, although places are
\* taken by several threads, are committed in another order and are reused
\* while the reader still holds one.  Time stamps (fexit_tcp4_egress.rs 31)
\* are older than places, so they agree with that order only within a thread.
ShownAsPlaced ==
  /\ Len(shown) <= Len(placed)
  /\ \A i \in DOMAIN shown : shown[i].event = placed[i]
  /\ \A i, j \in DOMAIN shown :
       i < j /\ shown[i].event.tid = shown[j].event.tid =>
         /\ shown[i].event.timestamp_ns <= shown[j].event.timestamp_ns
         /\ shown[i].event.socket_id < shown[j].event.socket_id

\* Two conversions in two programs (socket.rs 10-54 and monitor.rs 89-182)
\* agree: a line has the protocol, the kind and the result of its connection,
\* and names its ends with the arrow from the one that opened it to the other.
\* This leaves out two things: the target of a connect that failed, which the
\* socket no longer holds, and an end whose IPv6 address ends in twelve zero
\* bytes, which monitor.rs 116 takes for an IPv4 address (EndpointsShown).
LineTellsConnection ==
  \A i \in DOMAIN shown :
    LET c == opened[shown[i].event.socket_id].conn
        line == shown[i].line
    IN /\ TellsKind(line, c)
       /\ ~LooksLikeIpv4(Initiator(c).ip) => TellsInitiator(line, c)
       /\ ~LooksLikeIpv4(Target(c).ip) => TellsTarget(line, c)
       /\ shown[i].event.direction = "Egress" <=> c.kind = "connect"

\* README.md 10 of the repository: "Display process name, executable, PID, TID,
\* protocol, and connection endpoints", for the two endpoints of any connection
\* that did not fail.
EndpointsShown ==
  \A i \in DOMAIN shown :
    LET c == opened[shown[i].event.socket_id].conn
    IN ~Failed(c) =>
         TellsInitiator(shown[i].line, c) /\ TellsTarget(shown[i].line, c)

HasPlace(n) == \E i \in DOMAIN placed : placed[i].socket_id = n
IsShown(n) == \E i \in DOMAIN shown : shown[i].event.socket_id = n

\* What gets a place in the ring is printed in the end, also if it came before
\* the reader, while the reader sleeps, or behind a place that is still busy;
\* unless monitor_run fails between its attach and its loop.
EveryPlacedShown ==
  \A n \in 1..MaxConns : HasPlace(n) ~> IsShown(n) \/ reader = "ended"

\* README.md 9 of the repository: "Monitor all TCP connections on the host
\* using eBPF", for those opened when both probes are attached.
EveryConnectionShown ==
  \A n \in 1..MaxConns :
    n \in DOMAIN opened /\ opened[n].watched ~>
      IsShown(n) \/ reader = "ended"

=============================================================================
