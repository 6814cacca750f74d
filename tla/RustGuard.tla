----------------------------- MODULE RustGuard ------------------------------
(***************************************************************************)
(* The whole ban path: the requests the daemon handles, one at a time (a   *)
(* step of BanService, which ControlSocket implements), and the XDP        *)
(* program (XdpFilter), on one kernel map.  The daemon sees that map as a  *)
(* function from addresses to end times, and a wall clock; the program     *)
(* sees preallocated elements and the monotonic clock.  Here the function  *)
(* is read off the elements.  The two clocks tick together, an offset      *)
(* apart that changes when the wall clock is set, to an earlier or a later *)
(* time, or the machine sleeps; the kernel never lets it become negative.  *)
(***************************************************************************)
EXTENDS BanRequest, Sequences

CONSTANTS
  Slot, NoSlot, CPU, Frames, NoFrame, MaxBoot,
  Requests,      \* the requests the daemon is sent
  MaxCommands,   \* bound on the number of requests
  MaxRestarts,   \* bound on the number of restarts of the daemon
  Offsets        \* by how much Utc::now() may be ahead of bpf_ktime_get_ns()

ASSUME GuardAssumption ==
  /\ NoSlot \notin Slot
  /\ \A f \in Frames : f.src \in IP
  /\ MaxBoot \in Nat
  /\ Requests \subseteq DaemonRequest
  /\ MaxCommands \in Nat
  /\ MaxRestarts \in Nat
  /\ Offsets \subseteq Nat

VARIABLES
  \* of BanTable and XdpFilter:
  index, cell, boot, STATS, pc, frame, now, ban, end, action,
  seen, overlap,
  \* of this module:
  offset,     \* the wall clock reads boot + offset
  commands,   \* requests handled so far
  restarts,   \* restarts of the daemon so far
  \* History, read by the properties only:
  log,        \* what this daemon has handled: the request and its response,
              \* and, at that moment, the monotonic time, the offset of the
              \* wall clock, and whether the table had room for the target
  since       \* since[c]: Len(log) when CPU c received its frame

F == INSTANCE XdpFilter WITH EndTimes <- 0..(Word - 1)

tableVars == <<index, cell>>
cpuVars == <<pc, frame, now, ban, end, action>>
filterVars == <<boot, STATS, cpuVars, seen, overlap>>
guardVars == <<offset, commands, restarts, log, since>>
vars == <<tableVars, filterVars, guardVars>>

\* The table as the daemon reads it, and Utc::now().
bans == [ip \in IP |-> F!Entry(ip)]
utc == boot + offset

Init ==
  /\ F!Init
  /\ offset \in Offsets
  /\ commands = 0
  /\ restarts = 0
  /\ log = << >>
  /\ since = [c \in CPU |-> 0]

-----------------------------------------------------------------------------

\* The program on CPU c.
Filter(c) ==
  /\ F!CpuStep(c)
  /\ since' = [since EXCEPT ![c] = IF pc[c] = "idle" THEN Len(log) ELSE @]
  /\ UNCHANGED <<offset, commands, restarts, log>>

\* Both clocks advance.
Tick == F!Tick /\ UNCHANGED guardVars

\* The wall clock is set, or has gone on through a suspend without the other.
SetClock ==
  /\ \E o \in Offsets \ {offset} : offset' = o
  /\ UNCHANGED <<tableVars, filterVars, commands, restarts, log, since>>

\* Handling r would not find the table full.
Room(r) ==
  r.op \in {"Ban", "Unban"} /\ r.target \in IP => F!HasRoom(r.target)

\* One request is handled.
Handle(r) ==
  /\ commands < MaxCommands
  /\ commands' = commands + 1
  /\ log' = Append(log, [request |-> r, response |-> Response(bans, STATS, r),
                         at |-> boot, offset |-> offset, room |-> Room(r)])
  /\ UNCHANGED <<boot, STATS, cpuVars, offset, restarts, since>>

Ban(r) ==
  /\ r.op = "Ban" /\ r.target \in IP
  /\ Handle(r)
  /\ \/ F!Insert(r.target, EndTime(get_boot_time_ns(utc), r.ttl))
     \/ F!InsertFull(r.target)
  /\ F!NoteWrite

Unban(r) ==
  /\ r.op = "Unban" /\ r.target \in IP
  /\ Handle(r)
  /\ F!Remove(r.target)
  /\ F!NoteWrite

\* A request that does not reach the ban table, or only reads it.
Ask(r) ==
  /\ r.op \in {"Ban", "Unban"} => r.target \notin IP
  /\ Handle(r)
  /\ UNCHANGED <<tableVars, seen, overlap>>

\* The process ends and another takes its place: the link is detached, runs of
\* the program finish, the maps are freed, and new ones are created.
Restart ==
  /\ restarts < MaxRestarts
  /\ \A c \in CPU : pc[c] = "idle"
  /\ index' = [ip \in IP |-> NoSlot]
  /\ cell' = [s \in Slot |-> 0]
  /\ STATS' = Absent
  /\ restarts' = restarts + 1
  /\ log' = << >>
  /\ UNCHANGED <<boot, cpuVars, seen, overlap, offset, commands, since>>

Next ==
  \/ \E c \in CPU : Filter(c)
  \/ Tick
  \/ SetClock
  \/ \E r \in Requests : Ban(r) \/ Unban(r) \/ Ask(r)
  \/ Restart

Spec == Init /\ [][Next]_vars

-----------------------------------------------------------------------------

\* The answer for the frame on CPU c is known, and no command about its source
\* has been handled since the frame arrived.
Settled(c) ==
  /\ F!Judged(c)
  /\ \A i \in (since[c] + 1)..Len(log) : ~Names(log[i].request, frame[c].src)

\* Entry i of the log is the last one about the source of that frame.
InForce(c, i) ==
  /\ i <= since[c]
  /\ Names(log[i].request, frame[c].src)
  /\ \A j \in (i + 1)..since[c] : ~Names(log[j].request, frame[c].src)

\* The ttl of the ban in entry i is over at this time: a permanent one has none.
Elapsed(i, time) ==
  /\ log[i].request.ttl # NoTtl
  /\ time > log[i].at + log[i].request.ttl * NsPerSec

\* A frame that arrives after the daemon has found room for a ban of its
\* source, and before the ttl is over, is dropped, whatever else is written to
\* the table while it is in flight, other bans that find it full included, and
\* however the wall clock was set before the ban and after it: main.rs 248-258
\* against ebpf main.rs 91-102.
BanBlocks ==
  \A c \in CPU : \A i \in DOMAIN log :
    /\ Settled(c) /\ InForce(c, i)
    /\ log[i].request.op = "Ban" /\ log[i].room /\ ~Elapsed(i, now[c])
    => action[c] = "XDP_DROP"

\* A frame whose source is under no ban, because this daemon has handled none
\* or because an unban came last, gets through: main.rs 260-266 against ebpf
\* main.rs 92 and 106.
UnbannedPasses ==
  \A c \in CPU :
    /\ Settled(c)
    /\ \A i \in DOMAIN log : InForce(c, i) => log[i].request.op = "Unban"
    => action[c] = "XDP_PASS"

\* The table as it is written element by element changes, under every request,
\* exactly as the function that BanService keeps.
TableFollowsRequests ==
  [][ commands' # commands =>
        bans' = After(bans, utc, log'[Len(log')].request) ]_vars

-----------------------------------------------------------------------------
(* What the documentation says and the code does not do.                   *)

\* main.rs 50, "Time-to-live for the ban in seconds": once the ttl of the ban
\* in force is over, frames of its address get through again.
ExpiredBanPasses ==
  \A c \in CPU : \A i \in DOMAIN log :
    /\ Settled(c) /\ InForce(c, i)
    /\ log[i].request.op = "Ban" /\ Elapsed(i, now[c])
    => action[c] = "XDP_PASS"

\* main.rs 46, "Ban a target", and 143, "Success": a permanent ban that was
\* answered Ok blocks its target.
SuccessBlocks ==
  \A c \in CPU : \A i \in DOMAIN log :
    /\ Settled(c) /\ InForce(c, i)
    /\ log[i].request.op = "Ban" /\ log[i].request.ttl = NoTtl
    /\ log[i].response = Ok
    => action[c] = "XDP_DROP"

=============================================================================
