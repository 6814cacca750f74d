----------------------------- MODULE XdpFilter ------------------------------
(***************************************************************************)
(* The XDP program rustguard/try_rustguard (rustguard-ebpf/src/main.rs),   *)
(* run by several CPUs at once while the daemon rewrites the ban table.    *)
(* Each CPU handles one frame at a time.  A step of a CPU is one access to *)
(* something shared: the clock, the table's index, an element of the       *)
(* table, the statistics map.                                              *)
(***************************************************************************)
EXTENDS BanTable, XdpParse, Integers

CONSTANTS
  CPU,        \* CPUs that run the program
  Frames,     \* frames that can arrive: [len, ether_type, proto, src]
  NoFrame,    \* a CPU that is not running the program
  EndTimes,   \* the end_time values the daemon writes (u64, 0 is permanent)
  Word,       \* 2^64: packets_dropped wraps
  MaxBoot     \* bound on the monotonic clock

ASSUME FilterAssumption ==
  /\ \A f \in Frames : f.src \in IP /\ f.len \in Nat
  /\ NoFrame \notin Frames
  /\ EndTimes \subseteq Nat
  /\ Word \in Nat \ {0}
  /\ MaxBoot \in Nat

VARIABLES
  boot,      \* what bpf_ktime_get_ns() returns
  STATS,     \* packets_dropped under key 0 of the statistics map, or Absent
  pc,        \* pc[c]: where CPU c is in the program
  frame,     \* frame[c]: the frame CPU c handles
  now,       \* now[c]: the local variable now
  ban,       \* ban[c]: the local pointer ban_ptr
  end,       \* end[c]: ban.end_time as first loaded
  action,    \* action[c]: the xdp_action returned
  \* History, read by the properties only:
  seen,      \* seen[c]: entries the frame's source had since the frame came
  overlap    \* overlap[c]: table writes since the lookup, counted up to 2

cpuVars == <<pc, frame, now, ban, end, action>>
historyVars == <<seen, overlap>>
filterVars == <<boot, STATS, pc, frame, now, ban, end, action, seen, overlap>>
vars == <<tableVars, filterVars>>

XdpAction == {"XDP_PASS", "XDP_DROP", "XDP_ABORTED"}

FilterInit ==
  /\ boot = 0
  /\ STATS = Absent
  /\ pc = [c \in CPU |-> "idle"]
  /\ frame = [c \in CPU |-> NoFrame]
  /\ now = [c \in CPU |-> 0]
  /\ ban = [c \in CPU |-> NoSlot]
  /\ end = [c \in CPU |-> 0]
  /\ action = [c \in CPU |-> "XDP_PASS"]
  /\ seen = [c \in CPU |-> {}]
  /\ overlap = [c \in CPU |-> 0]

Init == TableInit /\ FilterInit

-----------------------------------------------------------------------------

Goto(c, from, to) ==
  /\ pc[c] = from
  /\ pc' = [pc EXCEPT ![c] = to]

\* A frame that leaves before the lookup.
Receive(c, f, verdict) ==
  /\ Goto(c, "idle", "done")
  /\ frame' = [frame EXCEPT ![c] = f]
  /\ action' = [action EXCEPT ![c] = verdict]
  /\ UNCHANGED <<tableVars, boot, STATS, now, ban, end, historyVars>>

Abort(c) == \E f \in Frames : Aborted(f) /\ Receive(c, f, "XDP_ABORTED")

Ignore(c) == \E f \in Frames : Ignored(f) /\ Receive(c, f, "XDP_PASS")

\* A frame whose headers all check out.
Inspect(c) ==
  /\ Goto(c, "idle", "clock")
  /\ \E f \in Frames :
       /\ Inspected(f)
       /\ frame' = [frame EXCEPT ![c] = f]
       /\ seen' = [seen EXCEPT ![c] = {Entry(f.src)}]
  /\ UNCHANGED <<tableVars, boot, STATS, now, ban, end, action, overlap>>

\* let now = bpf_ktime_get_ns()
ReadClock(c) ==
  /\ Goto(c, "clock", "lookup")
  /\ now' = [now EXCEPT ![c] = boot]
  /\ UNCHANGED <<tableVars, boot, STATS, frame, ban, end, action, historyVars>>

\* Mutant of LookupMiss: the program fails closed.
LookupMissDrops(c) ==
  /\ Goto(c, "lookup", "done")
  /\ index[frame[c].src] = NoSlot
  /\ action' = [action EXCEPT ![c] = "XDP_DROP"]
  /\ UNCHANGED <<tableVars, boot, STATS, frame, now, ban, end, historyVars>>

\* BANNED_IPS.get_ptr(&src_addr) is None.
LookupMiss(c) ==
  /\ Goto(c, "lookup", "done")
  /\ index[frame[c].src] = NoSlot
  /\ action' = [action EXCEPT ![c] = "XDP_PASS"]
  /\ UNCHANGED <<tableVars, boot, STATS, frame, now, ban, end, historyVars>>

\* BANNED_IPS.get_ptr(&src_addr) is Some(ban_ptr).
LookupHit(c) ==
  /\ Goto(c, "lookup", "load")
  /\ index[frame[c].src] # NoSlot
  /\ ban' = [ban EXCEPT ![c] = index[frame[c].src]]
  /\ UNCHANGED <<tableVars, boot, STATS, frame, now, end, action, historyVars>>

\* The load of ban.end_time for the comparison with 0.
Load(c) ==
  /\ Goto(c, "load", "judge")
  /\ end' = [end EXCEPT ![c] = cell[ban[c]]]
  /\ UNCHANGED <<tableVars, boot, STATS, frame, now, ban, action, historyVars>>

\* Mutant of BanHolds: the last nanosecond of a ban is left out.
BanHoldsBefore(c, reloaded) == end[c] = 0 \/ now[c] < reloaded

\* ban.end_time == 0 || now <= ban.end_time, where the second mention of the
\* field is either the value already loaded or, the reference being to memory
\* another CPU may write, a second load of it.
BanHolds(c, reloaded) == end[c] = 0 \/ now[c] <= reloaded

JudgeDrop(c) ==
  /\ Goto(c, "judge", "count")
  /\ \E e \in {end[c], cell[ban[c]]} : BanHolds(c, e)
  /\ action' = [action EXCEPT ![c] = "XDP_DROP"]
  /\ UNCHANGED <<tableVars, boot, STATS, frame, now, ban, end, historyVars>>

JudgePass(c) ==
  /\ Goto(c, "judge", "done")
  /\ \E e \in {end[c], cell[ban[c]]} : ~BanHolds(c, e)
  /\ action' = [action EXCEPT ![c] = "XDP_PASS"]
  /\ UNCHANGED <<tableVars, boot, STATS, frame, now, ban, end, historyVars>>

\* STATS.get_ptr_mut(&0) and, if there is such an entry, its increment.
Count(c) ==
  /\ Goto(c, "count", "done")
  /\ STATS' = IF STATS = Absent THEN Absent ELSE (STATS + 1) % Word
  /\ UNCHANGED <<tableVars, boot, frame, now, ban, end, action, historyVars>>

\* The program returns; the CPU's locals are gone.
Return(c) ==
  /\ Goto(c, "done", "idle")
  /\ frame' = [frame EXCEPT ![c] = NoFrame]
  /\ now' = [now EXCEPT ![c] = 0]
  /\ ban' = [ban EXCEPT ![c] = NoSlot]
  /\ end' = [end EXCEPT ![c] = 0]
  /\ action' = [action EXCEPT ![c] = "XDP_PASS"]
  /\ seen' = [seen EXCEPT ![c] = {}]
  /\ overlap' = [overlap EXCEPT ![c] = 0]
  /\ UNCHANGED <<tableVars, boot, STATS>>

CpuStep(c) ==
  \/ Abort(c) \/ Ignore(c) \/ Inspect(c)
  \/ ReadClock(c) \/ LookupMiss(c) \/ LookupHit(c)
  \/ Load(c) \/ JudgeDrop(c) \/ JudgePass(c) \/ Count(c)
  \/ Return(c)

-----------------------------------------------------------------------------

Looking == {"clock", "lookup", "load", "judge"}

\* The history of a write to the table, for the frames being handled.
NoteWrite ==
  /\ seen' = [c \in CPU |->
                IF pc[c] \in Looking THEN seen[c] \cup {Entry(frame[c].src)'}
                                     ELSE seen[c]]
  /\ overlap' = [c \in CPU |->
                   IF pc[c] \in {"load", "judge"} /\ overlap[c] < 2
                   THEN overlap[c] + 1
                   ELSE overlap[c]]

\* The writes of the daemon, as the filter meets them.
DaemonInsert ==
  /\ UNCHANGED <<boot, STATS, cpuVars>>
  /\ \E ip \in IP, e \in EndTimes : Insert(ip, e)
  /\ NoteWrite

DaemonRemove ==
  /\ UNCHANGED <<boot, STATS, cpuVars>>
  /\ \E ip \in Listed : Remove(ip)
  /\ NoteWrite

\* The monotonic clock advances, up to the bound of the model.
Tick ==
  /\ boot < MaxBoot
  /\ boot' = boot + 1
  /\ UNCHANGED <<tableVars, STATS, cpuVars, historyVars>>

Next ==
  \/ \E c \in CPU : CpuStep(c)
  \/ DaemonInsert
  \/ DaemonRemove
  \/ Tick

Spec == Init /\ [][Next]_vars

-----------------------------------------------------------------------------

\* The shape of every variable.
TypeOK ==
  /\ index \in [IP -> Slot \cup {NoSlot}]
  /\ cell \in [Slot -> Nat]
  /\ boot \in 0..MaxBoot
  /\ STATS \in 0..(Word - 1) \cup {Absent}
  /\ pc \in [CPU -> Looking \cup {"idle", "count", "done"}]
  /\ frame \in [CPU -> Frames \cup {NoFrame}]
  /\ now \in [CPU -> Nat]
  /\ ban \in [CPU -> Slot \cup {NoSlot}]
  /\ end \in [CPU -> Nat]
  /\ action \in [CPU -> XdpAction]
  /\ seen \in [CPU -> SUBSET (Nat \cup {Absent})]
  /\ overlap \in [CPU -> 0..2]

\* What the program answers when nothing changes under it.
Verdict(entry, time) ==
  IF entry # Absent /\ (entry = 0 \/ time <= entry)
  THEN "XDP_DROP" ELSE "XDP_PASS"

\* Where the headers end that the program reads ports and addresses from:
\* Ethernet, IPv4 without options, and TCP without options or UDP.
HeadersEnd(f) ==
  CASE f.ether_type # "Ipv4" -> 14
    [] f.ether_type = "Ipv4" /\ f.proto = "Tcp" -> 54
    [] f.ether_type = "Ipv4" /\ f.proto = "Udp" -> 42
    [] OTHER -> 34

\* ptr_at (main.rs 55-66), used at three offsets, looks at a header only if all
\* of it is in the frame, and refuses no frame that ends exactly with it: a TCP
\* or UDP frame is aborted, and goes past the filter, just when it is too short
\* for its headers, and one that is not IPv4 just when it has no EtherType.
FrameBounds ==
  \A c \in CPU :
    LET f == frame[c]
        known == f.ether_type # "Ipv4" \/ f.proto \in {"Tcp", "Udp"}
    IN pc[c] # "idle" /\ known =>
         (action[c] = "XDP_ABORTED" <=> f.len < HeadersEnd(f))

\* An IPv4 frame that is not cut off inside a header it should have.
Complete(f) ==
  /\ HasIpv4Hdr(f)
  /\ f.proto \in {"Tcp", "Udp"} => HasTransportHdr(f)

Judged(c) == pc[c] \in {"count", "done"} /\ Inspected(frame[c])

\* lib.rs 8 and main.rs 91-106: as long as at most one write of the daemon
\* falls between the lookup and the loads through the pointer, the answer for
\* a frame is the one the program gives when it runs alone on an entry the
\* source had at some moment since the frame arrived.  (Two such writes can
\* refill the element the pointer leads to with another address's ban.)
VerdictLinearizable ==
  \A c \in CPU :
    Judged(c) /\ overlap[c] <= 1 =>
      \E entry \in seen[c] : action[c] = Verdict(entry, now[c])

\* However the daemon's writes interleave, main.rs 102 drops a frame only if
\* its source was in the table at some moment since the frame arrived: an
\* address nobody banned meanwhile is never dropped in another's place.
DropOnlyListed ==
  \A c \in CPU :
    action[c] = "XDP_DROP" => \E entry \in seen[c] : entry # Absent

\* README.md 11, "Block IP addresses from userspace": what is blocked is what
\* was banned.  While nothing is, no frame with complete headers is lost.
NothingBannedNothingLost ==
  \A c \in CPU :
    /\ Listed = {}
    /\ pc[c] = "done" /\ Complete(frame[c])
    /\ seen[c] \subseteq {Absent}
    => action[c] = "XDP_PASS"

=============================================================================
