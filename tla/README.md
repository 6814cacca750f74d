# A TLA+ model of RustGuard

RustGuard is an IP-blocking daemon with an eBPF connection monitor. An XDP
program drops frames whose source address is in a kernel hash map; a daemon
fills that map on the orders of a command line, over a Unix-domain socket; a
separate command prints TCP connections that two fexit probes report.

This directory holds TLA+ modules of the ban path, of the daemon's life cycle
and of the connection monitor, TLC configurations that check them on small
instances, and proofs, checked by TLAPS, of their safety properties and of the
refinement for every instance.
`PROJECT.json` lists components, runs, mutants, the map from definitions to
source lines, findings, hazards and theorems.

Source names are short for: `main.rs` = `rustguard/src/main.rs`, `ebpf` =
`rustguard-ebpf/src/main.rs`, `lib.rs` = `rustguard-common/src/lib.rs`,
`monitor.rs` = `rustguard/src/monitor.rs`, `event.rs` =
`rustguard-common/src/event.rs`; the probes are in `rustguard-ebpf/src/`.

## Inventory

| Part | State | Operations | Talks to |
|---|---|---|---|
| XDP filter (`ebpf` 41-107) | none of its own between frames; locals of a run | one run per frame, on every CPU at once | reads `BANNED_IPS`, increments `STATS` |
| Ban table `BANNED_IPS` (`ebpf` 41-42) | at most 1024 pairs address → `end_time` | insert, remove, keys (daemon); lookup that returns a pointer (filter) | shared by daemon and filter |
| `STATS` (`ebpf` 44-45) | one counter under key 0, never created | increment (filter), read (daemon) | shared |
| Accept loop (`main.rs` 221-303) | the stream being served | Ban, Unban, List, Stats | clients through the socket; the maps |
| Client `send_command` (`main.rs` 102-155) | its stream | one request, one response | accept loop |
| Life cycle (`main.rs` 82-100, 162-222, 305-315, `rustguard.service`) | logger, XDP link, listener, the file at `SOCKET_PATH` | start, Ctrl-C, crash, restart | other daemons through the file and the interface |
| Probes (`fexit_tcp4_*.rs`, `socket.rs`, `kernel.rs`) | none | one event per connect or accept | event ring `EVENTS` |
| Monitor (`monitor.rs`, `event.rs`) | `ProcessCache`, ring position | print, look up an executable | event ring, `/proc` |
| eBPF log forwarding, command-line parsing, build scripts, kernel bindings | – | – | – |

What is hard here, and hard to test:

* the filter runs on several CPUs while the daemon rewrites the map, and keeps
  a raw pointer into the map between the lookup and the loads;
* two clocks: `end_time` is written from the wall clock, which can be set, and
  read against the monotonic clock; u64 arithmetic on nanoseconds;
* requests and responses travel in two pieces each, and either side can vanish
  between any two; the loop serves one connection at a time;
* a panic in the detached accept task leaves a process that filters and does
  not listen;
* start-up and shutdown of daemons touch a file that is shared with every other
  daemon and outlives a crash, and each call on the way can fail: some failures
  end `run_daemon` with `?`, others are discarded;
* the map is bounded, and its errors are discarded;
* probes run in every thread that opens a connection and share one bounded ring,
  in which places are taken in one order, filled in another, and freed only
  after the reader has printed; an event that finds no place is lost silently;
* a connection is converted twice, by the probe and by the monitor, and the
  monitor tells IPv4 from IPv6 by zero bytes.

What makes each part correct:

* filter: a frame is taken apart only as far as it reaches, and gets the answer an undisturbed run would give on an entry its
  source had while the frame was in flight; only listed sources are dropped;
* accept loop and client: a command takes effect at most once, whole, in the
  order of connection; the answer printed is the one computed then; nobody
  waits for ever;
* ban path: a handled ban blocks until its ttl is over, an unban unblocks;
* life cycle: a daemon that is started serves, and comes back after a crash;
  whoever `SOCKET_PATH` leads to has its filter attached; a process leaves no
  dead socket file unless a failure explains it;
* monitor: an event that got a place in the ring is printed once, in order, in
  the end, and its line says what the connection was; an executable from the
  cache is not older than its TTL allows.

## Modules

| Module | Models |
|---|---|
| `BanTable` | the kernel hash map down to its preallocated elements ("slots") |
| `XdpParse` | the header checks of `try_rustguard`: bounds and early returns |
| `XdpFilter` | `try_rustguard` on every CPU, one step per access to shared state |
| `BanRequest` | requests, responses, `end_time` arithmetic, effect of a request |
| `BanService` | abstract specification: an at-most-once service for the clients |
| `ControlSocket` | accept loop and `send_command`; implements `BanService` |
| `RustGuard` | requests and filter composed on one table, with both clocks |
| `Lifecycle` | `main`, `run_daemon` up to the loop, Ctrl-C, crashes, restarts |
| `NetEvent` | what a probe stores of a connection, and the line made of it |
| `Monitor` | both probes, the ring `EVENTS` and `monitor_run` |
| `ProcessCache` | the monitor's cache of executables |
| `XdpFilterProofs`, `ControlSocketProofs`, `RustGuardProofs`, `LifecycleProofs`, `MonitorProofs`, `ProcessCacheProofs` | theorems about the module each is named for |
| `MC*` | instances for TLC |

### BanTable and XdpFilter

`index` links addresses to slots and `cell` holds the `end_time` in every slot,
linked or not. The map has flags 0, so the kernel preallocates elements: an
update of a key fills a spare element and hands the old one back, a delete only
unlinks, and an element handed back keeps its bytes until it is filled again.
Filling and linking are one step: an element is filled before it is reachable,
and the only reader that could look at it in between is one that holds a stale
pointer, to which the fill is what matters.

A CPU's `pc` goes `idle → clock → lookup → load → judge → count → done`.
`Abort` and `Ignore` leave before the lookup; `JudgeDrop`/`JudgePass` allow the
second mention of `ban.end_time` to be the value already loaded or a fresh
load, because both are what a compiler may emit for a reference to memory that
another CPU writes. `seen` and `overlap` are history: which entries the source
had since the frame came, and how many table writes fell after the lookup
(counted up to 2).

`Frames` are records of a length and three header fields. The lengths in
`MCFrames` sit at and one byte below the ends of the headers; `FrameBounds`
compares what `ptr_at` decides at its three offsets with where the last header
ends that the program reads.

### BanRequest, BanService and ControlSocket

A request is a record with an `op`; `Malformed` stands for bytes that serde does
not accept (`send_command` never writes them, other programs may). An address is
a value `Ipv4Addr::from_str` accepts, `NotIp` one it rejects. `Overflows` and
`EndTime` keep the width `Word` (2^64) of the arithmetic; `OverflowChecks` is the
set of builds considered, one that panics on overflow (`PanicInBan`) and one that
wraps. With both in it, behaviours of either build are among those checked. `get_boot_time_ns`
is the wall clock, 0 outside the range of i64.

`BanService` says what clients can rely on. `Apply` is the handling of one
request, in one step, with the answer recorded; `Deliver` hands over exactly that
answer; `Fail` is any client that got none, whose command may still be applied
later; `Restart` forgets all bans.

In `ControlSocket`, `task` is the place of the accept loop and `cli[c]` that of
client `c`. Both sides move piece by piece (`WriteLen`, `ReadRequestLen`, …). A
write fails once the other end is closed, and a read fails at the end of the
stream. `Interrupt` kills a client anywhere, `Stop` the daemon anywhere (its maps
go with it), `PanicInBan` only the task. A failed `accept` is retried and changes
nothing, so it has no step. The kernel's queue of the listener is bounded by
`Backlog`, and a connect beyond it is refused, as it is for a non-blocking Unix
socket.

### RustGuard

The table is the one of `XdpFilter`; `bans`, the function the daemon sees, is
read off it, and `utc == boot + offset`. `SetClock` changes the offset: the wall
clock is set forward or back, or has gone on through a suspend. The kernel refuses
to set the wall clock behind the monotonic one, so an offset is never negative.
Each request is handled in one step, as
in `BanService`, which `ControlSocket` implements; leaving the pieces of the
protocol out keeps the product small enough to check. `log` remembers what was
handled, when, and at which offset, and `since[c]` how long the log was when CPU `c` got its frame, so that
the properties can speak of the command in force for a frame. `Restart` waits
for running programs to return, because the kernel frees a map only after that.

### Lifecycle

`installed` is the set of services a machine has, chosen at the start. One
process per service, `step[p]` its place. `path` is the process the file at
`SOCKET_PATH` leads to; it survives its maker. `Die` is every end of a process
except the removal of the file.

Every call of `run_daemon` that touches what daemons share can fail:

| Call | Step | What is left |
|---|---|---|
| load, attach, bind, for a reason of their own | `StartFails` | nothing of this process |
| attach on an interface that has a program; bind on a path that exists | `AttachFails`, `BindFails` | nothing of this process |
| remove_file before the bind (211), error discarded | `UnlinkFails` | the old file; the bind will fail |
| listen or the registration with the runtime, inside bind (213) | `BindFailsLate` | a dead file |
| set_permissions (214-217): the file is gone | `SetPermissionsNoFile` | nothing of this process |
| set_permissions: any other error | `SetPermissionsFails` | a dead file |
| ctrl_c (310), error returned before remove_file | `CtrlCFails` | a file; dead once `main` has returned |
| remove_file (312), error discarded | `RemoveFileFails` | the same |
| the arithmetic at 251, where overflow is checked | `TaskPanics` | process and filter; the file is dead |

`fate[p]` is history: which of these the last process of `p` that made a file has
met since. `DeadFileHasCause` says that a dead file always has such a cause, so an
orderly exit, or one of the other failed starts, leaves none, even when another
daemon has taken the path over in between. `ReachedMeansFiltered` says that the
daemon `SOCKET_PATH` leads to filters. It is stated for daemons that have not met
a failed `ctrl_c` or `remove_file`: those detach their filter while the file still
leads to an accept task that answers "Success", until `main` has returned.

**A premise.** `main` calls `env_logger::init()` and so does `run_daemon`, and a
second call panics: taken literally, the daemon never gets past its first line
(run `logger_twice`). `ReinitPanics = FALSE` is the premise that this line
returns; `lifecycle` is checked under it, and the other modules of the daemon,
which begin after it, tacitly assume it.

### NetEvent and Monitor

A connection is a record of its kind, family, protocol, ends and result. `peer` is
the other end as the socket holds it when the probed function returns: the same as
`remote`, except that a connect that fails clears the port and may return before it
has stored the address. `SockCommon` is the kernel's socket made of it, with that
port in network order; `fill_socket` and its parts copy it into the 16-byte fields
of an event, `print_event` makes a line of the event. The reference is what a reader
takes from a line: `TellsKind` (kind, protocol, and whether it failed),
`TellsInitiator` and `TellsTarget`: the arrow leads from the end that opened the
connection to the other, each end is named by its address (an IPv4-mapped one also
by the IPv4 address) and port. The target of a failed connect is not asked for, as
the socket no longer has it. Of the ids in an event only `tid`, the thread, is kept,
as the order within a thread is what `ShownAsPlaced` speaks of.

`LineTellsConnection` leaves out an end whose IPv6 address ends in twelve zero bytes.
The code gets those wrong: `EndpointsShown`, without the exemption, is violated.

A probe run is `Fill` (time stamp and reads), then `Reserve` or `RingFull`, then
`Commit`; `ReadFails` is any `?` on the way. `bpf_ringbuf_output` is one call, but
it takes its place and makes it readable in two steps that other CPUs and the
reader can see, so it is two steps here. A place holds `Nothing` while it is busy.
`reader` goes through the two attaches and the opening of the ring, each of which
can fail (`StartFails`), then takes the oldest event if it is readable (`Show`),
frees its place when the item goes out of scope (`Release`), or sleeps. The record
size check of `monitor.rs` 76 cannot fail, as only `NetEvent`s are output, and has
no step. `Function` says which kernel function a connection passes through;
`tcp_v6_connect` has no probe.

### ProcessCache

`print_event` asks the cache first and discards the answer (`let _exe`), so the
cache has no effect on `Monitor` and is a module of its own. The link is read in
`ReadLink` and the entry dated in `Insert`, and any change of the pid's executable
may come between: that is why the bound in `AnswerIsFresh` is TTL plus the time
the lookup took. "<unknown>", for a process that is gone, is one of `Exes`.

## Runs

Passing:

| Run | Shows |
|---|---|
| `xdp_filter` | `FrameBounds`, `VerdictLinearizable`, `DropOnlyListed` with one CPU, two addresses, three elements and any daemon writes. Writes come from everywhere, so a second CPU adds no interaction: CPUs share only tables they do not write, and `STATS`, which has no entry. The proofs cover any number of CPUs. |
| `control_socket` | two clients, eight requests (one per branch), two wall-clock readings, two starts, both builds. `ImplementsBanService` is the refinement; `ConnectOrder` and `OnlyWholeRequests` are about what `BanService` leaves open; `EveryClientReturns` is checked under fairness, with a task that may panic. At time 2 a ttl of 7 wraps to exactly 0 and a ttl of 8 overflows the product; time 9 is beyond i64, reads as 0 and lets a ttl of 7 end in time. `MaxEntries = 1` makes a full table common. |
| `rust_guard` | `BanBlocks`, `UnbannedPasses`, `TableFollowsRequests` for three requests, one restart, three addresses competing for two entries, times 0 to 2, and a wall clock that is set between offsets 0 and 3 at any moment: a ttl of 1 ends within the run when the clocks agree, and never when they do not. |
| `lifecycle` | `DeadFileHasCause`, `ReachedMeansFiltered` and `Recovers` for every choice of services among three, two of them on one interface, with up to three kills, failing calls, panics and Ctrl-C: each of the failures listed above occurs, alone and with two others. `Recovers` speaks of machines with one service, as two take each other's socket away, and of every dead file an earlier process can leave. A daemon that serves undisturbed rests, so deadlock is not checked. |
| `monitor` | `ShownAsPlaced`, `LineTellsConnection`, `EveryPlacedShown` for a thread that connects and one that accepts, three connections and a ring of two places, so that the ring is full, places are committed out of order and events wait for the reader. Connections: IPv4, IPv4-mapped and IPv6 sockets, a connect that failed early, an anycast address that ends in zeros, another protocol. Two clock values are enough for time stamps that disagree with places. The monitor may fail to start and then nothing happens any more, so deadlock is not checked. |
| `process_cache` | `AnswerIsFresh` for two pids, two executables, TTL 2 and times 0 to 3: entries are just good, just too old and outdated within a lookup. |

Slots are symmetric in `xdp_filter` and `rust_guard`, and in `rust_guard` also the
two addresses that only take room; runs with liveness properties use no symmetry.
`TypeOK` of `XdpFilter` and `ControlSocket` is proved, as part of their inductive
invariants, and not run; in `monitor` it bounds the ring.

Violations, each against a sentence of the repository (see `findings`):

| Run | Shows |
|---|---|
| `logger_twice` | the daemon panics at every start |
| `ttl_never_ends` | a ban with a ttl is enforced after its end: wall clock against monotonic clock |
| `ban_when_full` | "Success" for a ban that a full map refused |
| `endpoints_wrong` | an IPv6 end such as `2001:db8::` is printed as `32.1.13.184` |
| `connections_missed` | a TCP connection that the monitor never shows: the ring was full, a read failed, or an IPv6 connect passed no probe |
| `ping_lost` | ICMP and every other protocol but TCP and UDP is dropped with nothing banned |

Two writes between lookup and loads really break the linearizability that
`VerdictLinearizable` states for at most one: a re-ban frees the element the
pointer leads to and a second write refills it for another address. The window
is a few instructions wide against two system calls, and the harm is bounded by
`DropOnlyListed`, which holds for any number of writes.

## Fairness

`ControlSocket`: weak fairness of every client's own steps (`send_command` runs
until it exits, and blocks only on the stream) and of the accept task (the
runtime polls it). No fairness of interrupts, starts, stops or the clock.
`EveryClientReturns` therefore says nothing about a client that connects and is
then suspended: one such client does stall all others, as the loop serves one
connection at a time and has no timeout.

`Lifecycle`: weak fairness of a process's own steps and of `Launch`, which is
what `Restart=always` asks of systemd (its start limit is not modelled).

`Monitor`: weak fairness of a probe that has begun (an eBPF program runs to its
end and cannot block) and of the monitor's thread, whose only waits are sleeps of
10 ms. Nobody has to open a connection, and time need not pass.

## Proofs

`XdpFilterProofs` proves, for any finite sets of addresses and elements, any
CPUs, frames and end times, from `TableAssumption` and `FilterAssumption`:

* `FramesBounded`. `BoundsInv` says that a frame's answer is `XDP_ABORTED` exactly
  if the header checks failed on it, which later steps keep; the rest is
  arithmetic on the sizes of the headers, for frames of any length.
* `VerdictIsLinearizable` and `DropsOnlyListed`, from one inductive invariant
  `IInv`. Its heart is `FlightInv(c)`: while no write has overlapped with the
  pointer's life, the element is still linked under the source; while at most one
  has, the element still holds an entry the source had, since a write fills only
  unlinked elements; and any two loads agree. It rests on `TypeCorrect`, `TypeOK`
  with `PlaceInv`: the load through `ban_ptr` is typed only because a CPU past the
  lookup holds an element. Steps of another CPU
  (`OthersKeep`), of the CPU itself (`OwnKeeps`) and of the daemon (`WriteKeeps`)
  are separate lemmas.

`LifecycleProofs` proves, for any services, interfaces and numbers of failures, from
`LifeAssumption` (used: `NoFile` is no process), `DeadFileAlwaysHasCause` and
`AlwaysReachedFiltered`. Neither property is inductive, as neither says which
process may still hold the file. `IInv` adds `HoldsInv`, what a process holds at
each step, and `PathInv`: the file leads to `p` only while `p` is between its bind
and its `remove_file`, or since a failure that `fate[p]` names. One step per action
shows that it is kept, also by the actions of the other processes.

`ProcessCacheProofs` proves `AnswerAlwaysFresh` for any pids, executables, TTL and
length of lookups, from `CacheAssumption`. The invariant dates what is known:
an entry's executable was right at the date of the entry less the time its lookup
took (`EntryInv`), and that of a lookup when it began (`LookupInv`); an exec moves
the moment until which it was right to the present, never back.

`ControlSocketProofs` proves, for any clients, requests, backlog, clock readings and
starts of the daemon, from `SocketAssumption` and `RequestAssumption`:

* `AlwaysConnectOrder` and `AlwaysWholeRequests` (and `SocketTypes`, that variables
  keep their types). None of these is inductive. `IInv` splits the connections in the order of arrival into those
  out of the queue and those still in it (`ArrivalInv`); the task serves the last
  one that left the queue, and is past its body only if all of it was written
  (`PeerInv`); what was applied came, in order, out of the queue before the one
  being served (`AppliedInv`). That also gives "at most once", since a client
  connects once.
* `SocketImplementsService`: `Spec => ImplementsBanService`, with `applied` read as
  a set and a client's status from its place (`Status`). The step that needs work
  is a client that finishes: what it then reads must be the answer recorded when
  its request was handled. `InboxInv` says which pieces of that answer a stream
  can hold, given how far the task has written and the client has read. Every
  other step of the protocol is a stutter, an `Apply`, a `Fail` or a `Restart`.

`RustGuardProofs` proves, for any addresses, elements, CPUs, frames, requests,
settings of the wall clock, and number of entries, from `RequestAssumption` and
`GuardAssumption`:

* `UnbannedAlwaysPasses` and `BanAlwaysBlocks`. `TableInv` relates the table to the
  log: an address whose last command is an unban, or that has none, is not
  linked; one whose last command is a ban that found room is linked to an element
  that holds the end time of that ban. (Of an address whose last ban found the
  table full, nothing is said.) `FlightInv(c)` carries this through a run of the
  program: as long as no command about the source comes, the pointer of the run is
  the element linked under the source, so other addresses' bans cannot refill it,
  and what was loaded is what the ban in force wrote, at the offset of that moment;
  the wall clock is not consulted again. `BanAlwaysBlocks` has one
  hypothesis, `NoOverflow`: the wall clock fits an i64 and no ttl leaves u64. It
  holds in the `rust_guard` run; without it `end_time` wraps and the statement is
  false, see below.
* `TableAlwaysFollows`, an action property: the table kept in elements changes under
  each request as `After` says of a function. It needs of the invariant only that
  elements hold u64 values (so that "linked" and "not absent" agree) and that an
  update fills an unlinked element.

`MonitorProofs` proves, for any threads, connections and capacity of the ring, from
`MonitorAssumption` (the connections are well-formed, and `Nothing` is no event):

* `MonitorTypes` and `AlwaysShownAsPlaced`. `RingInv` says that the ring holds the
  events placed last, each committed or busy with its event still in its thread's
  probe, and no thread has two busy places; `ShownInv` that what was shown is what
  was placed and is freed, and the item held. `EventInv` keeps an event that is
  filled and not placed younger than all its thread has placed: that is where the
  order within a thread comes from.
* `AlwaysLineTells`. Every event in the ring is `Genuine`: it is what `ProbeEvent`
  makes of a connection that was opened. The rest is about the two conversions
  alone: swapping the bytes of a port twice gives it back (`SwapTwice`), a padded
  IPv4 address is taken for one and shown unchanged (`ShownIpv4`), a 16-byte
  address that does not end in twelve zero bytes is shown as it is or as the IPv4
  address mapped into it (`ShownIpv6`). TLC tries six connections; the lemmas cover
  all ports and all other addresses.

The inductive invariants of these three modules were checked with TLC on small
instances before they were proved.

Only model-checked: liveness under fairness (`EveryClientReturns`, `Recovers`,
`EveryPlacedShown`), which is out of the prover's reach. No run has a safety
property that is not also a theorem, apart from those that are violated.

## Not modelled, and observations made while reading

* Generated kernel bindings (`vmlinux.rs`): 74,627 of the repository's 75,820
  implementation lines, all type layouts without behaviour, so the share of all
  lines that the map covers says little. Of the other 1,193 lines more than half are
  mapped; the rest are imports, tests, type and argument declarations, helpers
  nobody calls (`kernel.rs`), and formatting.
* Argument parsing, log forwarding, build scripts: no state that matters to the
  properties.
* A ttl of about 1.67e10 s wraps in a release build to an `end_time` below the
  uptime (`main.rs` 251), and such a ban is over at once; `EndTime` models it,
  `BanBlocks` is checked on ttls that do not wrap.
* `List` never looks at `end_time`, so it would name expired bans; targets that
  are not IPv4 addresses are refused although the help text offers CIDR, ASN and
  country; a daemon on another `--iface` removes the first one's socket file.
* `PrivateTmp=true` in `rustguard.service` puts `SOCKET_PATH` (in `/tmp`) out of
  the reach of a client outside the unit.
* Between the detach at the end of `run_daemon` and the end of the runtime the
  accept task can still answer a client that was queued before; no new client can
  reach it (`ReachedMeansFiltered`), unless the file was not removed.
* `STATS` never has an entry: the filter increments key 0 only if it finds it and
  the daemon only reads it, so `Stats` always answers "No stats" (`main.rs` 281)
  although the help text (61) offers "Show statistics". There is no run for it: it
  is plain from `Count`, the only step that writes `STATS` while a daemon runs.
* `event.rs` 17 says "IPv4 is stored as IPv4-mapped IPv6"; `fill_ipv4` stores it
  in the first four bytes instead. With the mapped form the two kinds of address
  could not be confused; as it is, an IPv6 address that ends in twelve zero bytes
  (a subnet's anycast address) is shown as an IPv4 address (`endpoints_wrong`).
* A restart forgets all bans; a client that stays silent stalls the accept loop.
  Both are modelled, and no document promises otherwise.
* The repository's README promises that the monitor displays executable and TID;
  the executable is looked up and discarded, and the TID is not printed.
* The result column of a connect is what `tcp_v4_connect` returned: 0 once the
  SYN is on its way, not once the connection stands.
* `ProcessCache` never removes an entry.

## Plan

All components with behaviour of their own are modelled, and each safety property
that holds is proved. Worth adding: that the other safety facts of the filter
(`VerdictLinearizable`, `DropOnlyListed`) carry over to `RustGuard`, whose daemon
also makes writes that change nothing (an unban of an address that is not there, a
ban that finds the table full).
