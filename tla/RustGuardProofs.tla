-------------------------- MODULE RustGuardProofs ---------------------------
(***************************************************************************)
(* The whole ban path for any addresses, elements, CPUs, frames, requests  *)
(* and any bound on the table: what the daemon answered is what the XDP    *)
(* program does.                                                           *)
(***************************************************************************)
EXTENDS RustGuard, SequenceTheorems, TLAPS

Value == 0..(Word - 1)
OrAbsent == Value \cup {Absent}

Answers ==
  {Response(b, n, r) : b \in [IP -> OrAbsent], n \in OrAbsent, r \in Requests}

Logged ==
  [request : Requests, response : Answers, at : 0..MaxBoot,
   offset : Offsets, room : BOOLEAN]

Places == {"idle", "clock", "lookup", "load", "judge", "count", "done"}

Types ==
  /\ index \in [IP -> Slot \cup {NoSlot}]
  /\ cell \in [Slot -> Value]
  /\ boot \in 0..MaxBoot
  /\ STATS \in OrAbsent
  /\ pc \in [CPU -> Places]
  /\ frame \in [CPU -> Frames \cup {NoFrame}]
  /\ now \in [CPU -> 0..MaxBoot]
  /\ ban \in [CPU -> Slot \cup {NoSlot}]
  /\ end \in [CPU -> Value]
  /\ action \in [CPU -> {"XDP_PASS", "XDP_DROP", "XDP_ABORTED"}]
  /\ offset \in Offsets
  /\ commands \in Nat
  /\ log \in Seq(Logged)
  /\ since \in [CPU -> Nat]

-----------------------------------------------------------------------------

\* Entry i is the last of the first n entries of the log lg that is about ip.
Last(lg, ip, i, n) ==
  /\ i \in 1..n
  /\ Names(lg[i].request, ip)
  /\ \A j \in (i + 1)..n : ~Names(lg[j].request, ip)

\* Of the first n entries, the last about ip, if there is one, is an unban.
Unbanned(lg, ip, n) ==
  \A i \in 1..n : Last(lg, ip, i, n) => lg[i].request.op = "Unban"

\* Entry i is the last about ip, and a ban that found room.
Banned(lg, ip, i, n) ==
  Last(lg, ip, i, n) /\ lg[i].request.op = "Ban" /\ lg[i].room

\* The end time that the ban in an entry of the log wrote, by the wall clock of
\* that moment.
EndOf(entry) ==
  EndTime(get_boot_time_ns(entry.at + entry.offset), entry.request.ttl)

\* The log tells what is in the table, except of an address whose last ban
\* found the table full.
TableInv ==
  \A ip \in IP :
    /\ Unbanned(log, ip, Len(log)) => index[ip] = NoSlot
    /\ \A i \in 1..Len(log) :
         Banned(log, ip, i, Len(log)) =>
           index[ip] # NoSlot /\ cell[index[ip]] = EndOf(log[i])

\* No command about the source of the frame on c came after the frame.
Undisturbed(c) ==
  \A i \in (since[c] + 1)..Len(log) : ~Names(log[i].request, frame[c].src)

\* An undisturbed run on an unbanned address never gets to a ban, and one on
\* a banned address holds, as long as it needs it, the element that is linked
\* under the address, and has loaded what the ban wrote there.
UnbannedInv(c) ==
  Unbanned(log, frame[c].src, since[c]) =>
    /\ pc[c] \in {"clock", "lookup", "done"}
    /\ pc[c] = "done" => action[c] = "XDP_PASS"

BannedInv(c) ==
  \A i \in 1..since[c] :
    Banned(log, frame[c].src, i, since[c]) =>
      /\ pc[c] \in {"load", "judge"} => ban[c] = index[frame[c].src]
      /\ pc[c] = "judge" => end[c] = EndOf(log[i])
      /\ pc[c] \in {"count", "done"} =>
           \/ action[c] = "XDP_DROP"
           \/ EndOf(log[i]) # 0 /\ now[c] > EndOf(log[i])

FlightInv(c) ==
  pc[c] # "idle" =>
    /\ frame[c] \in Frames
    /\ since[c] <= Len(log)
    /\ pc[c] \in {"load", "judge"} => ban[c] \in Slot
    /\ F!Inspected(frame[c]) /\ Undisturbed(c) =>
         UnbannedInv(c) /\ BannedInv(c)

IInv ==
  /\ Types
  /\ TableInv
  /\ \A c \in CPU : FlightInv(c)

-----------------------------------------------------------------------------
(* Types.                                                                  *)

\* The arithmetic on end times stays in u64.
LEMMA EndTimeType ==
  ASSUME NEW utcNow \in Nat, NEW ttl \in Nat \cup {NoTtl}
  PROVE  EndTime(get_boot_time_ns(utcNow), ttl) \in Value
<1>1. get_boot_time_ns(utcNow) \in Nat
  BY DEF get_boot_time_ns
<1>2. \A a \in Nat : a % Word \in Value
  BY RequestAssumption DEF Value
<1>3. 0 \in Value
  BY RequestAssumption DEF Value
<1>4. ASSUME ttl # NoTtl
      PROVE  EndTime(get_boot_time_ns(utcNow), ttl) \in Value
  <2>1. ttl * NsPerSec \in Nat
    BY <1>4, RequestAssumption
  <2>2. (ttl * NsPerSec) % Word \in Nat
    BY <1>2, <2>1 DEF Value
  <2>3. get_boot_time_ns(utcNow) + ((ttl * NsPerSec) % Word) \in Nat
    BY <1>1, <2>2
  <2> QED
    BY <1>2, <1>4, <2>3 DEF EndTime
<1> QED
  BY <1>3, <1>4 DEF EndTime

\* The fields of a request about an address.
LEMMA RequestFields ==
  ASSUME NEW r \in Requests
  PROVE  /\ r.op = "Ban" => r.ttl \in Nat \cup {NoTtl}
         /\ r.op \in {"Ban", "Unban", "List", "Stats", "Malformed"}
<1>1. r \in DaemonRequest
  BY GuardAssumption
<1>2. r.op = "Ban" => r.ttl \in Ttls \cup {NoTtl}
  BY <1>1 DEF DaemonRequest
<1>3. r.op \in {"Ban", "Unban", "List", "Stats", "Malformed"}
  BY <1>1 DEF DaemonRequest
<1> QED
  BY <1>2, <1>3, RequestAssumption

\* The table as the daemon reads it.
LEMMA TableTypes ==
  ASSUME Types
  PROVE  /\ bans \in [IP -> OrAbsent]
         /\ F!Listed = BannedIps(bans)
         /\ utc \in Nat
<1>1. Absent \notin Value
  BY RequestAssumption DEF Value
<1>2. \A ip \in IP : F!Entry(ip) \in OrAbsent
  BY DEF F!Entry, Types, OrAbsent
<1>3. \A ip \in IP : F!Entry(ip) # Absent <=> index[ip] # NoSlot
  BY <1>1 DEF F!Entry, Types
<1>4. utc \in Nat
  BY GuardAssumption DEF utc, Types
<1> QED
  BY <1>2, <1>3, <1>4 DEF bans, F!Listed, BannedIps

\* A handled request is logged.
LEMMA HandleLogs ==
  ASSUME Types, NEW r \in Requests, Handle(r)
  PROVE  \E e \in Logged :
           /\ log' = Append(log, e)
           /\ e.request = r /\ e.room = Room(r)
           /\ e.at = boot /\ e.offset = offset
<1> DEFINE e == [request |-> r, response |-> Response(bans, STATS, r),
                 at |-> boot, offset |-> offset, room |-> Room(r)]
<1>1. Response(bans, STATS, r) \in Answers
  <2>1. bans \in [IP -> OrAbsent] /\ STATS \in OrAbsent
    BY TableTypes DEF Types
  <2> QED
    BY <2>1 DEF Answers
<1>2. Room(r) \in BOOLEAN
  BY DEF Room
<1>3. e \in Logged
  BY <1>1, <1>2 DEF Logged, Types
<1>4. log' = Append(log, e)
  BY DEF Handle
<1> QED
  BY <1>3, <1>4

\* What a write of the daemon does to the table.
LEMMA WriteTypes ==
  ASSUME Types, NEW r \in Requests, Handle(r), Ban(r) \/ Unban(r) \/ Ask(r)
  PROVE  Types'
<1>1. /\ boot' = boot /\ STATS' = STATS /\ pc' = pc /\ frame' = frame
      /\ now' = now /\ ban' = ban /\ end' = end /\ action' = action
      /\ offset' = offset /\ since' = since /\ commands' = commands + 1
  BY DEF Handle, cpuVars
<1>2. log' \in Seq(Logged)
  <2>1. PICK e \in Logged : log' = Append(log, e)
    BY HandleLogs
  <2> QED
    BY <2>1, AppendProperties DEF Types
<1>3. /\ index' \in [IP -> Slot \cup {NoSlot}] /\ cell' \in [Slot -> Value]
  <2>1. CASE Ban(r)
    <3>1. EndTime(get_boot_time_ns(utc), r.ttl) \in Value
      BY <2>1, TableTypes, RequestFields, EndTimeType DEF Ban
    <3>2. CASE F!Insert(r.target, EndTime(get_boot_time_ns(utc), r.ttl))
      BY <2>1, <3>1, <3>2 DEF Ban, F!Insert, F!FreeSlots, F!NoteWrite, Types
    <3>3. CASE F!InsertFull(r.target)
      BY <2>1, <3>3 DEF Ban, F!InsertFull, F!tableVars, F!NoteWrite, Types
    <3> QED
      BY <2>1, <3>2, <3>3 DEF Ban
  <2>2. CASE Unban(r)
    BY <2>2 DEF Unban, F!Remove, F!NoteWrite, Types
  <2>3. CASE Ask(r)
    BY <2>3 DEF Ask, tableVars, Types
  <2> QED
    BY <2>1, <2>2, <2>3
<1> QED
  BY <1>1, <1>2, <1>3 DEF Types

\* A step of the program.
LEMMA FilterTypes ==
  ASSUME Types, NEW c \in CPU, FlightInv(c), Filter(c)
  PROVE  Types'
<1> USE DEF Types, F!Goto, F!tableVars, F!historyVars, Places
<1>1. /\ offset' = offset /\ commands' = commands /\ log' = log
      /\ since' \in [CPU -> Nat]
  BY DEF Filter
<1>2. 0 \in Value
  BY RequestAssumption DEF Value
<1>3. CASE F!Abort(c)
  BY <1>1, <1>3 DEF F!Abort, F!Receive
<1>4. CASE F!Ignore(c)
  BY <1>1, <1>4 DEF F!Ignore, F!Receive
<1>5. CASE F!Inspect(c)
  BY <1>1, <1>5 DEF F!Inspect
<1>6. CASE F!ReadClock(c)
  BY <1>1, <1>6 DEF F!ReadClock
<1>7. CASE F!LookupMiss(c)
  BY <1>1, <1>7 DEF F!LookupMiss
<1>8. CASE F!LookupHit(c)
  BY <1>1, <1>8, GuardAssumption DEF F!LookupHit, FlightInv
<1>9. CASE F!Load(c)
  BY <1>1, <1>9 DEF F!Load, FlightInv
<1>10. CASE F!JudgeDrop(c)
  BY <1>1, <1>10 DEF F!JudgeDrop
<1>11. CASE F!JudgePass(c)
  BY <1>1, <1>11 DEF F!JudgePass
<1>12. CASE F!Count(c)
  <2>1. STATS' \in OrAbsent
    BY <1>12, RequestAssumption DEF F!Count, OrAbsent, Value
  <2> QED
    BY <1>1, <1>12, <2>1 DEF F!Count
<1>13. CASE F!Return(c)
  BY <1>1, <1>2, <1>13, GuardAssumption DEF F!Return
<1> QED
  BY <1>3, <1>4, <1>5, <1>6, <1>7, <1>8, <1>9, <1>10, <1>11, <1>12, <1>13
  DEF Filter, F!CpuStep

-----------------------------------------------------------------------------
(* The log.                                                                *)

\* Entries that are not about ip leave the last one about it what it is.
LEMMA LastExtends ==
  ASSUME NEW lg, NEW ip, NEW m \in Nat, NEW n \in Nat, m <= n,
         \A j \in (m + 1)..n : ~Names(lg[j].request, ip)
  PROVE  /\ Unbanned(lg, ip, m) <=> Unbanned(lg, ip, n)
         /\ \A i : Banned(lg, ip, i, m) <=> Banned(lg, ip, i, n)
<1>1. ASSUME NEW i, Last(lg, ip, i, m)
      PROVE  Last(lg, ip, i, n)
  <2>1. i \in 1..n
    BY <1>1 DEF Last
  <2>2. \A j \in (i + 1)..n : j \in (i + 1)..m \/ j \in (m + 1)..n
    BY <2>1
  <2> QED
    BY <1>1, <2>1, <2>2 DEF Last
<1>2. ASSUME NEW i, Last(lg, ip, i, n)
      PROVE  Last(lg, ip, i, m)
  <2>1. i \in 1..n /\ Names(lg[i].request, ip)
    BY <1>2 DEF Last
  <2>2. i \in 1..m
    BY <2>1
  <2>3. \A j \in (i + 1)..m : j \in (i + 1)..n
    BY <2>1
  <2> QED
    BY <1>2, <2>1, <2>2, <2>3 DEF Last
<1>3. \A i, k : Last(lg, ip, i, k) => i \in 1..k
  BY DEF Last
<1>4. \A i : Last(lg, ip, i, m) <=> Last(lg, ip, i, n)
  BY <1>1, <1>2
<1> QED
  BY <1>3, <1>4 DEF Unbanned, Banned

\* Two logs that start with the same n entries.
LEMMA LastSame ==
  ASSUME NEW lg, NEW lh, NEW n \in Nat, \A i \in 1..n : lh[i] = lg[i]
  PROVE  /\ \A ip : Unbanned(lh, ip, n) <=> Unbanned(lg, ip, n)
         /\ \A ip, i : Banned(lh, ip, i, n) <=> Banned(lg, ip, i, n)
<1>1. ASSUME NEW ip, NEW i
      PROVE  Last(lh, ip, i, n) <=> Last(lg, ip, i, n)
  <2>1. ASSUME i \in 1..n
        PROVE  \A j \in (i + 1)..n : j \in 1..n
    BY <2>1
  <2> QED
    BY <2>1 DEF Last
<1>2. \A ip, i : Last(lg, ip, i, n) => i \in 1..n
  BY DEF Last
<1>3. \A ip : Unbanned(lh, ip, n) <=> Unbanned(lg, ip, n)
  BY <1>1 DEF Unbanned
<1>4. \A ip, i : Banned(lh, ip, i, n) <=> Banned(lg, ip, i, n)
  BY <1>1, <1>2 DEF Banned
<1> QED
  BY <1>3, <1>4

\* One more entry.
LEMMA LogGrows ==
  ASSUME Types, NEW e \in Logged, log' = Append(log, e)
  PROVE  /\ Len(log) \in Nat /\ Len(log') = Len(log) + 1
         /\ \A i \in 1..Len(log) : log'[i] = log[i]
         /\ log'[Len(log) + 1] = e
BY AppendProperties DEF Types

-----------------------------------------------------------------------------
(* Requests.                                                               *)

\* If a request changes what the table says of its own address, and only
\* that, the table still agrees with the log.
LEMMA LoggedTable ==
  ASSUME Types, TableInv, NEW e \in Logged, log' = Append(log, e),
         \A ip \in IP : ~Names(e.request, ip) =>
           /\ index'[ip] = index[ip]
           /\ index[ip] # NoSlot => cell'[index[ip]] = cell[index[ip]],
         \A ip \in IP : Names(e.request, ip) =>
           /\ e.request.op = "Unban" => index'[ip] = NoSlot
           /\ e.request.op = "Ban" /\ e.room =>
                index'[ip] # NoSlot /\ cell'[index'[ip]] = EndOf(e)
  PROVE  TableInv'
<1> DEFINE n == Len(log)
           lh == log'
<1>1. /\ n \in Nat /\ Len(lh) = n + 1 /\ lh[n + 1] = e
      /\ \A i \in 1..n : lh[i] = log[i]
  BY LogGrows
<1>2. SUFFICES
        ASSUME NEW ip \in IP
        PROVE  /\ Unbanned(lh, ip, n + 1) => index'[ip] = NoSlot
               /\ \A i \in 1..(n + 1) : Banned(lh, ip, i, n + 1) =>
                    /\ index'[ip] # NoSlot
                    /\ cell'[index'[ip]] = EndOf(lh[i])
  BY <1>1 DEF TableInv
<1>3. /\ Unbanned(log, ip, n) => index[ip] = NoSlot
      /\ \A i \in 1..n : Banned(log, ip, i, n) =>
           index[ip] # NoSlot /\ cell[index[ip]] = EndOf(log[i])
  BY DEF TableInv
<1> HIDE DEF n, lh
<1>4. CASE ~Names(e.request, ip)
  <2>1. \A j \in (n + 1)..(n + 1) : ~Names(lh[j].request, ip)
    BY <1>1, <1>4
  <2>2. /\ Unbanned(lh, ip, n) <=> Unbanned(lh, ip, n + 1)
        /\ \A i : Banned(lh, ip, i, n) <=> Banned(lh, ip, i, n + 1)
    <3>1. n + 1 \in Nat /\ n <= n + 1
      BY <1>1
    <3> QED
      BY <1>1, <2>1, <3>1, LastExtends, Zenon
  <2>3. /\ Unbanned(lh, ip, n) <=> Unbanned(log, ip, n)
        /\ \A i : Banned(lh, ip, i, n) <=> Banned(log, ip, i, n)
    BY <1>1, LastSame
  <2>4. \A i : Banned(log, ip, i, n) => i \in 1..n
    BY DEF Banned, Last
  <2> QED
    BY <1>1, <1>3, <1>4, <2>2, <2>3, <2>4
<1>5. CASE Names(e.request, ip)
  <2>1. Last(lh, ip, n + 1, n + 1)
    BY <1>1, <1>5 DEF Last
  <2>2. ASSUME NEW i \in 1..(n + 1), Last(lh, ip, i, n + 1)
        PROVE  i = n + 1
    <3>1. ~(n + 1 \in (i + 1)..(n + 1))
      BY <1>1, <1>5, <2>2 DEF Last
    <3> QED
      BY <1>1, <3>1
  <2>3. Unbanned(lh, ip, n + 1) => e.request.op = "Unban"
    BY <1>1, <2>1 DEF Unbanned
  <2>4. ASSUME NEW i \in 1..(n + 1), Banned(lh, ip, i, n + 1)
        PROVE  lh[i] = e /\ e.request.op = "Ban" /\ e.room
    BY <1>1, <2>2, <2>4 DEF Banned
  <2> QED
    BY <1>5, <2>3, <2>4
<1> QED
  BY <1>4, <1>5

\* A frame in flight is disturbed, or it still meets the element it met.
LEMMA LoggedFlight ==
  ASSUME Types, NEW e \in Logged, log' = Append(log, e),
         UNCHANGED <<offset, since, cpuVars>>,
         \A ip \in IP : ~Names(e.request, ip) => index'[ip] = index[ip],
         NEW c \in CPU, FlightInv(c)
  PROVE  FlightInv(c)'
<1>1. /\ offset' = offset /\ since' = since /\ pc' = pc /\ frame' = frame
      /\ now' = now /\ ban' = ban /\ end' = end /\ action' = action
  BY DEF cpuVars
<1>2. /\ Len(log) \in Nat /\ Len(log') = Len(log) + 1
      /\ log'[Len(log) + 1] = e
      /\ \A i \in 1..Len(log) : log'[i] = log[i]
  BY LogGrows
<1>3. SUFFICES ASSUME pc[c] # "idle"
               PROVE  FlightInv(c)'
  BY <1>1 DEF FlightInv
<1>4. /\ frame[c] \in Frames /\ frame[c].src \in IP
      /\ since[c] \in Nat /\ since[c] <= Len(log)
      /\ pc[c] \in {"load", "judge"} => ban[c] \in Slot
  BY <1>3, GuardAssumption DEF FlightInv, Types
<1>5. ASSUME F!Inspected(frame[c]), Undisturbed(c)'
      PROVE  UnbannedInv(c)' /\ BannedInv(c)'
  <2>1. /\ \A i \in (since[c] + 1)..(Len(log) + 1) :
             ~Names(log'[i].request, frame[c].src)
    BY <1>1, <1>2, <1>5 DEF Undisturbed
  <2>2. ~Names(e.request, frame[c].src)
    BY <1>2, <1>4, <2>1
  <2>3. Undisturbed(c)
    <3>1. ASSUME NEW i \in (since[c] + 1)..Len(log)
          PROVE  ~Names(log[i].request, frame[c].src)
      <4>1. /\ i \in (since[c] + 1)..(Len(log) + 1) /\ i \in 1..Len(log)
        BY <1>2, <1>4
      <4> QED
        BY <1>2, <2>1, <4>1
    <3> QED
      BY <3>1 DEF Undisturbed
  <2>4. UnbannedInv(c) /\ BannedInv(c)
    BY <1>3, <1>5, <2>3 DEF FlightInv
  <2>5. \A i \in 1..since[c] : log'[i] = log[i]
    BY <1>2, <1>4
  <2>6. /\ \A ip : Unbanned(log', ip, since[c]) <=> Unbanned(log, ip, since[c])
        /\ \A ip, i :
             Banned(log', ip, i, since[c]) <=> Banned(log, ip, i, since[c])
    BY <1>4, <2>5, LastSame
  <2>7. index'[frame[c].src] = index[frame[c].src]
    BY <1>4, <2>2
  <2>8. UnbannedInv(c)'
    BY <1>1, <2>4, <2>6 DEF UnbannedInv
  <2>9. BannedInv(c)'
    BY <1>1, <2>4, <2>5, <2>6, <2>7 DEF BannedInv
  <2> QED
    BY <2>8, <2>9
<1> QED
  BY <1>1, <1>2, <1>4, <1>5 DEF FlightInv

\* What a ban does to the table.
LEMMA BanWrites ==
  ASSUME Types, NEW r \in Requests, Ban(r)
  PROVE  /\ \A ip \in IP : ip # r.target =>
              /\ index'[ip] = index[ip]
              /\ index[ip] # NoSlot => cell'[index[ip]] = cell[index[ip]]
         /\ F!HasRoom(r.target) =>
              /\ index'[r.target] # NoSlot
              /\ cell'[index'[r.target]]
                   = EndTime(get_boot_time_ns(utc), r.ttl)
         /\ ~F!HasRoom(r.target) => index' = index /\ cell' = cell
<1> DEFINE t == EndTime(get_boot_time_ns(utc), r.ttl)
<1>1. r.target \in IP /\ (F!Insert(r.target, t) \/ F!InsertFull(r.target))
  BY DEF Ban
<1> HIDE DEF t
<1>2. CASE F!Insert(r.target, t)
  <2>1. PICK s \in F!FreeSlots : /\ index' = [index EXCEPT ![r.target] = s]
                                 /\ cell' = [cell EXCEPT ![s] = t]
    BY <1>2 DEF F!Insert
  <2>2. s \in Slot /\ s # NoSlot /\ \A ip \in IP : index[ip] # s
    BY <2>1, GuardAssumption DEF F!FreeSlots, F!Linked, F!Listed
  <2>3. F!HasRoom(r.target)
    BY <1>2 DEF F!Insert
  <2> QED
    BY <1>1, <2>1, <2>2, <2>3 DEF Types, t
<1>3. CASE F!InsertFull(r.target)
  BY <1>3 DEF F!InsertFull, F!tableVars
<1> QED
  BY <1>1, <1>2, <1>3

\* A handled request keeps the invariant.
LEMMA RequestKeeps ==
  ASSUME IInv, NEW r \in Requests, Ban(r) \/ Unban(r) \/ Ask(r)
  PROVE  IInv'
<1> USE DEF IInv
<1>1. Handle(r)
  BY DEF Ban, Unban, Ask
<1>2. Types'
  BY <1>1, WriteTypes
<1>3. PICK e \in Logged : /\ log' = Append(log, e)
                          /\ e.request = r /\ e.room = Room(r)
                          /\ e.at = boot /\ e.offset = offset
  BY <1>1, HandleLogs
<1>4. UNCHANGED <<offset, since, cpuVars>>
  BY <1>1 DEF Handle, cpuVars
<1>5. \A ip \in IP : ~Names(r, ip) =>
        /\ index'[ip] = index[ip]
        /\ index[ip] # NoSlot => cell'[index[ip]] = cell[index[ip]]
  <2>1. CASE Ban(r)
    <3>1. \A ip : ~Names(r, ip) => ip # r.target
      BY <2>1 DEF Ban, Names
    <3> QED
      BY <2>1, <3>1, BanWrites
  <2>2. CASE Unban(r)
    <3>1. /\ index' = [index EXCEPT ![r.target] = NoSlot] /\ cell' = cell
          /\ \A ip : ~Names(r, ip) => ip # r.target
      BY <2>2 DEF Unban, F!Remove, Names
    <3> QED
      BY <3>1 DEF Types
  <2>3. CASE Ask(r)
    BY <2>3 DEF Ask, tableVars
  <2> QED
    BY <2>1, <2>2, <2>3
<1>6. \A ip \in IP : Names(r, ip) =>
        /\ r.op = "Unban" => index'[ip] = NoSlot
        /\ r.op = "Ban" /\ e.room =>
             index'[ip] # NoSlot /\ cell'[index'[ip]] = EndOf(e)
  <2> SUFFICES ASSUME NEW ip \in IP, Names(r, ip)
               PROVE  /\ r.op = "Unban" => index'[ip] = NoSlot
                      /\ r.op = "Ban" /\ e.room =>
                           /\ index'[ip] # NoSlot
                           /\ cell'[index'[ip]] = EndOf(e)
    OBVIOUS
  <2>1. r.target = ip /\ ~Ask(r)
    BY DEF Names, Ask
  <2>2. CASE Ban(r)
    <3>1. r.op = "Ban"
      BY <2>2 DEF Ban
    <3>2. e.room => F!HasRoom(ip)
      BY <1>3, <2>1, <3>1 DEF Room
    <3>3. EndOf(e) = EndTime(get_boot_time_ns(utc), r.ttl)
      BY <1>3 DEF EndOf, utc
    <3> QED
      BY <2>1, <2>2, <3>1, <3>2, <3>3, BanWrites
  <2>3. CASE Unban(r)
    BY <2>1, <2>3 DEF Unban, F!Remove, Types
  <2> QED
    BY <2>1, <2>2, <2>3
<1>7. TableInv'
  BY <1>3, <1>4, <1>5, <1>6, LoggedTable
<1>8. \A c \in CPU : FlightInv(c)'
  BY <1>3, <1>4, <1>5, LoggedFlight
<1> QED
  BY <1>2, <1>7, <1>8

-----------------------------------------------------------------------------
(* The program.                                                            *)

\* What the table holds for an undisturbed frame.
LEMMA MeetsTable ==
  ASSUME IInv, NEW c \in CPU, pc[c] # "idle", Undisturbed(c)
  PROVE  /\ Unbanned(log, frame[c].src, since[c]) =>
              index[frame[c].src] = NoSlot
         /\ \A i \in 1..since[c] :
              Banned(log, frame[c].src, i, since[c]) =>
                /\ index[frame[c].src] # NoSlot
                /\ cell[index[frame[c].src]] = EndOf(log[i])
<1> DEFINE src == frame[c].src
<1>1. src \in IP /\ since[c] \in Nat /\ Len(log) \in Nat /\ since[c] <= Len(log)
  BY GuardAssumption DEF IInv, FlightInv, Types
<1>2. /\ Unbanned(log, src, since[c]) <=> Unbanned(log, src, Len(log))
      /\ \A i : Banned(log, src, i, since[c]) <=> Banned(log, src, i, Len(log))
  BY <1>1, LastExtends DEF Undisturbed
<1>3. \A i \in 1..since[c] : i \in 1..Len(log)
  BY <1>1
<1> QED
  BY <1>1, <1>2, <1>3 DEF IInv, TableInv

\* A step of CPU c leaves the table and the log alone.
LEMMA FilterFrame ==
  ASSUME NEW c \in CPU, Filter(c)
  PROVE  /\ index' = index /\ cell' = cell /\ log' = log /\ offset' = offset
BY DEF Filter, F!CpuStep, F!Abort, F!Ignore, F!Receive, F!Inspect, F!ReadClock,
       F!LookupMiss, F!LookupHit, F!Load, F!JudgeDrop, F!JudgePass, F!Count,
       F!Return, F!tableVars

\* It concerns no other CPU.
LEMMA OthersKeep ==
  ASSUME IInv, NEW c \in CPU, Filter(c), NEW d \in CPU, d # c
  PROVE  FlightInv(d)'
<1>1. /\ pc'[d] = pc[d] /\ frame'[d] = frame[d] /\ now'[d] = now[d]
      /\ ban'[d] = ban[d] /\ end'[d] = end[d] /\ action'[d] = action[d]
      /\ since'[d] = since[d]
  <2> USE DEF IInv, Types, F!Goto
  <2>1. since'[d] = since[d] /\ F!CpuStep(c)
    BY DEF Filter
  <2>2. CASE F!Abort(c)
    BY <2>1, <2>2 DEF F!Abort, F!Receive
  <2>3. CASE F!Ignore(c)
    BY <2>1, <2>3 DEF F!Ignore, F!Receive
  <2>4. CASE F!Inspect(c)
    BY <2>1, <2>4 DEF F!Inspect
  <2>5. CASE F!ReadClock(c)
    BY <2>1, <2>5 DEF F!ReadClock
  <2>6. CASE F!LookupMiss(c)
    BY <2>1, <2>6 DEF F!LookupMiss
  <2>7. CASE F!LookupHit(c)
    BY <2>1, <2>7 DEF F!LookupHit
  <2>8. CASE F!Load(c)
    BY <2>1, <2>8 DEF F!Load
  <2>9. CASE F!JudgeDrop(c)
    BY <2>1, <2>9 DEF F!JudgeDrop
  <2>10. CASE F!JudgePass(c)
    BY <2>1, <2>10 DEF F!JudgePass
  <2>11. CASE F!Count(c)
    BY <2>1, <2>11 DEF F!Count
  <2>12. CASE F!Return(c)
    BY <2>1, <2>12 DEF F!Return
  <2> QED
    BY <2>1, <2>2, <2>3, <2>4, <2>5, <2>6, <2>7, <2>8, <2>9, <2>10, <2>11,
       <2>12 DEF F!CpuStep
<1> QED
  BY <1>1, FilterFrame
  DEF IInv, FlightInv, Undisturbed, UnbannedInv, BannedInv

\* A frame that arrives has nothing behind it yet.
LEMMA ArrivalKeeps ==
  ASSUME IInv, NEW c \in CPU, Filter(c), pc[c] = "idle"
  PROVE  FlightInv(c)'
<1> USE DEF IInv, Types, F!Goto
<1>1. log' = log /\ since'[c] = Len(log) /\ Len(log) \in Nat
  BY FilterFrame DEF Filter
<1>2. CASE F!Abort(c) \/ F!Ignore(c)
  <2>1. /\ pc'[c] = "done" /\ frame'[c] \in Frames
        /\ ~F!Inspected(frame'[c])
    BY <1>2 DEF F!Abort, F!Ignore, F!Receive, F!Aborted, F!Ignored, F!Inspected
  <2> QED
    BY <1>1, <2>1 DEF FlightInv
<1>3. CASE F!Inspect(c)
  <2>1. pc'[c] = "clock" /\ frame'[c] \in Frames
    BY <1>3 DEF F!Inspect
  <2> QED
    BY <1>1, <2>1 DEF FlightInv, UnbannedInv, BannedInv
<1>4. F!Abort(c) \/ F!Ignore(c) \/ F!Inspect(c)
  BY DEF Filter, F!CpuStep, F!ReadClock, F!LookupMiss, F!LookupHit, F!Load,
         F!JudgeDrop, F!JudgePass, F!Count, F!Return
<1> QED
  BY <1>2, <1>3, <1>4

\* A frame in flight goes on.
LEMMA RunKeeps ==
  ASSUME IInv, NEW c \in CPU, Filter(c), pc[c] # "idle"
  PROVE  FlightInv(c)'
<1> DEFINE src == frame[c].src
           Step == \/ F!ReadClock(c) \/ F!LookupMiss(c) \/ F!LookupHit(c)
                   \/ F!Load(c) \/ F!JudgeDrop(c) \/ F!JudgePass(c)
                   \/ F!Count(c)
<1>1. F!Return(c) \/ Step
  BY DEF Filter, F!CpuStep, F!Abort, F!Ignore, F!Receive, F!Inspect, F!Goto
<1>2. CASE F!Return(c)
  <2>1. pc'[c] = "idle"
    BY <1>2 DEF F!Return, F!Goto, IInv, Types
  <2> QED
    BY <2>1 DEF FlightInv
<1>3. CASE Step
  <2>1. /\ index' = index /\ cell' = cell /\ log' = log /\ offset' = offset
        /\ since'[c] = since[c] /\ frame'[c] = frame[c]
    <3>1. since'[c] = since[c]
      BY DEF Filter, IInv, Types
    <3>2. frame' = frame
      BY <1>3 DEF F!ReadClock, F!LookupMiss, F!LookupHit, F!Load, F!JudgeDrop,
                  F!JudgePass, F!Count
    <3> QED
      BY <3>1, <3>2, FilterFrame
  <2>2. /\ frame[c] \in Frames /\ src \in IP
        /\ since[c] <= Len(log) /\ since[c] \in Nat
        /\ pc[c] \in {"load", "judge"} => ban[c] \in Slot
    BY GuardAssumption DEF IInv, FlightInv, Types
  <2>3. pc'[c] \in {"load", "judge"} => ban'[c] \in Slot
    <3>1. CASE F!LookupHit(c)
      BY <2>2, <3>1 DEF F!LookupHit, F!Goto, IInv, Types
    <3>2. CASE F!Load(c)
      BY <2>2, <3>2 DEF F!Load, F!Goto, IInv, Types
    <3>3. CASE ~F!LookupHit(c) /\ ~F!Load(c)
      BY <1>3, <3>3 DEF F!ReadClock, F!LookupMiss, F!JudgeDrop, F!JudgePass,
                        F!Count, F!Goto, IInv, Types
    <3> QED
      BY <3>1, <3>2, <3>3
  <2>4. ASSUME F!Inspected(frame[c]), Undisturbed(c)
        PROVE  UnbannedInv(c)' /\ BannedInv(c)'
    <3>1. UnbannedInv(c) /\ BannedInv(c)
      BY <2>4 DEF IInv, FlightInv
    <3>2. /\ Unbanned(log, src, since[c]) => index[src] = NoSlot
          /\ \A i \in 1..since[c] :
               Banned(log, src, i, since[c]) =>
                 /\ index[src] # NoSlot
                 /\ cell[index[src]] = EndOf(log[i])
      BY <2>4, MeetsTable
    <3>3. UnbannedInv(c)'
      <4> SUFFICES ASSUME Unbanned(log, src, since[c])
                   PROVE  /\ pc'[c] \in {"clock", "lookup", "done"}
                          /\ pc'[c] = "done" => action'[c] = "XDP_PASS"
        BY <2>1 DEF UnbannedInv
      <4>1. pc[c] \in {"clock", "lookup", "done"} /\ index[src] = NoSlot
        BY <3>1, <3>2 DEF UnbannedInv
      <4> QED
        BY <1>3, <4>1 DEF F!ReadClock, F!LookupMiss, F!LookupHit, F!Load,
             F!JudgeDrop, F!JudgePass, F!Count, F!Goto, IInv, Types
    <3>4. BannedInv(c)'
      <4> SUFFICES
            ASSUME NEW i \in 1..since[c], Banned(log, src, i, since[c])
            PROVE  /\ pc'[c] \in {"load", "judge"} => ban'[c] = index[src]
                   /\ pc'[c] = "judge" => end'[c] = EndOf(log[i])
                   /\ pc'[c] \in {"count", "done"} =>
                        \/ action'[c] = "XDP_DROP"
                        \/ /\ EndOf(log[i]) # 0
                           /\ now'[c] > EndOf(log[i])
        BY <2>1 DEF BannedInv
      <4> DEFINE endOf == EndOf(log[i])
      <4>1. /\ index[src] # NoSlot /\ cell[index[src]] = endOf
            /\ pc[c] \in {"load", "judge"} => ban[c] = index[src]
            /\ pc[c] = "judge" => end[c] = endOf
            /\ pc[c] \in {"count", "done"} =>
                 \/ action[c] = "XDP_DROP"
                 \/ endOf # 0 /\ now[c] > endOf
        BY <3>1, <3>2 DEF BannedInv
      <4> HIDE DEF endOf
      <4>2. now[c] \in Int /\ end[c] \in Int
        BY RequestAssumption, GuardAssumption DEF IInv, Types, Value
      <4> USE DEF F!Goto, IInv, Types
      <4>3. CASE F!ReadClock(c)
        BY <4>3 DEF F!ReadClock
      <4>4. CASE F!LookupMiss(c)
        BY <4>1, <4>4 DEF F!LookupMiss
      <4>5. CASE F!LookupHit(c)
        BY <4>1, <4>5 DEF F!LookupHit
      <4>6. CASE F!Load(c)
        BY <4>1, <4>6 DEF F!Load, endOf
      <4>7. CASE F!JudgeDrop(c)
        BY <4>7 DEF F!JudgeDrop
      <4>8. CASE F!JudgePass(c)
        <5>1. /\ pc[c] = "judge" /\ pc'[c] = "done" /\ now' = now
              /\ end[c] = endOf /\ cell[ban[c]] = endOf
          BY <4>1, <4>8 DEF F!JudgePass
        <5>2. \E e \in {end[c], cell[ban[c]]} : ~F!BanHolds(c, e)
          BY <4>8 DEF F!JudgePass
        <5>3. endOf # 0 /\ now[c] > endOf
          BY <4>2, <5>1, <5>2 DEF F!BanHolds
        <5> QED
          BY <5>1, <5>3 DEF endOf
      <4>9. CASE F!Count(c)
        BY <4>1, <4>9 DEF F!Count, endOf
      <4> QED
        BY <1>3, <4>3, <4>4, <4>5, <4>6, <4>7, <4>8, <4>9
    <3> QED
      BY <3>3, <3>4
  <2> QED
    BY <2>1, <2>2, <2>3, <2>4 DEF FlightInv, Undisturbed
<1> QED
  BY <1>1, <1>2, <1>3

\* A step of the program keeps the invariant.
LEMMA FilterKeeps ==
  ASSUME IInv, NEW c \in CPU, Filter(c)
  PROVE  IInv'
<1>1. Types'
  BY FilterTypes DEF IInv
<1>2. TableInv'
  BY FilterFrame DEF IInv, TableInv
<1>3. \A d \in CPU : FlightInv(d)'
  BY OthersKeep, ArrivalKeeps, RunKeeps
<1> QED
  BY <1>1, <1>2, <1>3 DEF IInv

-----------------------------------------------------------------------------
(* The invariant.                                                          *)

\* Nothing is banned, and no frame has come.
LEMMA InitHolds == Init => IInv
<1> SUFFICES ASSUME Init PROVE IInv
  OBVIOUS
<1> USE DEF Init, F!Init, F!TableInit, F!FilterInit
<1>1. log = << >> /\ Len(log) = 0
  OBVIOUS
<1>2. Types
  BY RequestAssumption, GuardAssumption
  DEF Types, Value, OrAbsent, Places
<1>3. TableInv
  BY <1>1 DEF TableInv
<1>4. \A c \in CPU : FlightInv(c)
  BY DEF FlightInv
<1> QED
  BY <1>2, <1>3, <1>4 DEF IInv

\* The new daemon has an empty table, an empty log and no frame in flight.
LEMMA RestartKeeps ==
  ASSUME IInv, Restart
  PROVE  IInv'
<1>1. log' = << >> /\ Len(log') = 0
  BY DEF Restart
<1>2. Types'
  BY <1>1, RequestAssumption
  DEF IInv, Types, Restart, cpuVars, OrAbsent, Value
<1>3. TableInv'
  BY <1>1 DEF Restart, TableInv
<1>4. \A c \in CPU : FlightInv(c)'
  BY DEF Restart, cpuVars, FlightInv
<1> QED
  BY <1>2, <1>3, <1>4 DEF IInv

\* No step leaves IInv.
LEMMA NextKeeps == IInv /\ [Next]_vars => IInv'
<1> SUFFICES ASSUME IInv, [Next]_vars PROVE IInv'
  OBVIOUS
<1>1. ASSUME NEW c \in CPU, Filter(c) PROVE IInv'
  BY <1>1, FilterKeeps
<1>2. CASE Tick
  BY <1>2, GuardAssumption
  DEF Tick, F!Tick, F!tableVars, F!cpuVars, F!historyVars, guardVars,
      IInv, Types, TableInv, FlightInv, Undisturbed, UnbannedInv, BannedInv
<1>3. ASSUME NEW r \in Requests, Ban(r) \/ Unban(r) \/ Ask(r) PROVE IInv'
  BY <1>3, RequestKeeps
<1>4. CASE Restart
  BY <1>4, RestartKeeps
<1>5. CASE SetClock
  BY <1>5
  DEF SetClock, tableVars, filterVars, cpuVars,
      IInv, Types, TableInv, FlightInv, Undisturbed, UnbannedInv, BannedInv
<1>6. CASE UNCHANGED vars
  BY <1>6
  DEF vars, tableVars, filterVars, cpuVars, guardVars,
      IInv, Types, TableInv, FlightInv, Undisturbed, UnbannedInv, BannedInv
<1> QED
  BY <1>1, <1>2, <1>3, <1>4, <1>5, <1>6 DEF Next

\* IInv always holds.
LEMMA Invariance == Spec => []IInv
BY InitHolds, NextKeeps, PTL DEF Spec

-----------------------------------------------------------------------------
(* What follows.                                                           *)

\* The words of the properties, in those of the invariant.
LEMMA SettledFacts ==
  ASSUME IInv, NEW c \in CPU, Settled(c)
  PROVE  /\ pc[c] \in {"count", "done"}
         /\ UnbannedInv(c) /\ BannedInv(c)
         /\ since[c] \in Nat /\ Len(log) \in Nat /\ since[c] <= Len(log)
         /\ DOMAIN log = 1..Len(log)
         /\ \A i \in DOMAIN log :
              InForce(c, i) <=> Last(log, frame[c].src, i, since[c])
<1>1. pc[c] \in {"count", "done"} /\ F!Inspected(frame[c]) /\ Undisturbed(c)
  BY DEF Settled, F!Judged, Undisturbed
<1>2. /\ since[c] \in Nat /\ Len(log) \in Nat /\ since[c] <= Len(log)
      /\ DOMAIN log = 1..Len(log)
  BY <1>1 DEF IInv, Types, FlightInv
<1>3. UnbannedInv(c) /\ BannedInv(c)
  BY <1>1 DEF IInv, FlightInv
<1>4. \A i \in 1..Len(log) : i <= since[c] <=> i \in 1..since[c]
  BY <1>2
<1> QED
  BY <1>1, <1>2, <1>3, <1>4 DEF InForce, Last

\* A frame whose source is under no ban, because this daemon has handled none
\* or because an unban came last, gets through (main.rs 260-266 against ebpf
\* main.rs 92 and 106), however many CPUs and requests there are.
THEOREM UnbannedAlwaysPasses == Spec => []UnbannedPasses
<1>1. IInv => UnbannedPasses
  <2> SUFFICES ASSUME IInv, NEW c \in CPU, Settled(c),
                      \A i \in DOMAIN log :
                        InForce(c, i) => log[i].request.op = "Unban"
               PROVE  action[c] = "XDP_PASS"
    BY DEF UnbannedPasses
  <2>1. \A i \in 1..since[c] : i \in DOMAIN log
    BY SettledFacts
  <2>2. Unbanned(log, frame[c].src, since[c])
    BY <2>1, SettledFacts DEF Unbanned
  <2> QED
    BY <2>2, SettledFacts DEF UnbannedInv
<1> QED
  BY <1>1, Invariance, PTL

\* The wall clock fits the i64 of get_boot_time_ns as long as the system runs,
\* and no ttl takes an end time past u64.
NoOverflow ==
  \A o \in Offsets :
    /\ MaxBoot + o < Word \div 2
    /\ \A t \in Ttls : MaxBoot + o + t * NsPerSec < Word

\* The end time of a ban is 0 if it is permanent, and not before its ttl is
\* over if it is not: the wall clock is ahead of the monotonic one.
LEMMA EndOfBan ==
  ASSUME NoOverflow, Types, NEW i \in 1..Len(log),
         log[i].request.op = "Ban", EndOf(log[i]) # 0
  PROVE  /\ log[i].request.ttl # NoTtl
         /\ EndOf(log[i]) >= log[i].at + log[i].request.ttl * NsPerSec
         /\ log[i].at + log[i].request.ttl * NsPerSec \in Nat
<1> DEFINE at == log[i].at
           off == log[i].offset
           ttl == log[i].request.ttl
           ns == ttl * NsPerSec
<1>1. log[i] \in Logged
  BY ElementOfSeq DEF Types
<1>2. at \in 0..MaxBoot /\ off \in Offsets
  BY <1>1 DEF Logged, Types
<1>3. ttl # NoTtl
  BY DEF EndOf, EndTime
<1>4. ttl \in Ttls
  <2>1. log[i].request \in DaemonRequest
    BY <1>1, GuardAssumption DEF Logged
  <2> QED
    BY <1>3, <2>1 DEF DaemonRequest
<1>5. ns \in Nat
  <2>1. ttl \in Nat /\ NsPerSec \in Nat
    BY <1>4, RequestAssumption
  <2> HIDE DEF ttl
  <2> QED
    BY <2>1
<1>6. at + off < Word \div 2 /\ MaxBoot + off + ns < Word
      /\ off \in Nat /\ at \in Nat
  <2>1. MaxBoot + off < Word \div 2 /\ MaxBoot + off + ns < Word
        /\ off \in Nat
    BY <1>2, <1>4, GuardAssumption DEF NoOverflow
  <2>2. Word \div 2 \in Int
    BY RequestAssumption
  <2> HIDE DEF ns, off
  <2> QED
    BY <1>2, <2>1, <2>2, GuardAssumption
<1>7. EndOf(log[i]) = (at + off + (ns % Word)) % Word
  BY <1>3, <1>6 DEF EndOf, EndTime, get_boot_time_ns
<1>8. ns % Word = ns /\ (at + off + ns) % Word = at + off + ns
  <2> HIDE DEF ns, at, off
  <2>1. ns < Word /\ at + off + ns < Word /\ at + off + ns \in Nat
    BY <1>2, <1>5, <1>6, GuardAssumption, RequestAssumption
  <2> QED
    BY <1>5, <2>1, RequestAssumption
<1>9. EndOf(log[i]) = at + off + ns
  BY <1>7, <1>8
<1> HIDE DEF ns, at, off, ttl
<1>10. /\ at + off + ns >= at + ns /\ at + ns \in Nat
  BY <1>5, <1>6
<1> QED
  BY <1>3, <1>9, <1>10 DEF ns, at, ttl

\* A frame that arrives after the daemon has found room for a ban of its
\* source, and before the ttl is over, is dropped (main.rs 248-258 against
\* ebpf main.rs 91-102), whatever is written to the table meanwhile, as long
\* as the u64 arithmetic does not wrap.
THEOREM BanAlwaysBlocks ==
  ASSUME NoOverflow
  PROVE  Spec => []BanBlocks
<1>1. IInv => BanBlocks
  <2> SUFFICES ASSUME IInv, NEW c \in CPU, NEW i \in DOMAIN log,
                      Settled(c), InForce(c, i),
                      log[i].request.op = "Ban", log[i].room,
                      ~Elapsed(i, now[c])
               PROVE  action[c] = "XDP_DROP"
    BY DEF BanBlocks
  <2>1. Banned(log, frame[c].src, i, since[c]) /\ i \in 1..since[c]
    BY SettledFacts DEF Banned, Last
  <2>2. \/ action[c] = "XDP_DROP"
        \/ EndOf(log[i]) # 0 /\ now[c] > EndOf(log[i])
    BY <2>1, SettledFacts DEF BannedInv
  <2>3. ASSUME EndOf(log[i]) # 0, now[c] > EndOf(log[i])
        PROVE  FALSE
    <3> DEFINE e == EndOf(log[i])
               t == log[i].at + log[i].request.ttl * NsPerSec
    <3>1. log[i].request.ttl # NoTtl /\ e >= t /\ t \in Nat
      <4>1. i \in 1..Len(log)
        BY SettledFacts
      <4> QED
        BY <2>3, <4>1, EndOfBan DEF IInv
    <3>2. e \in Nat /\ now[c] \in Nat
      <4>1. /\ log[i].at + log[i].offset \in Nat
            /\ log[i].request.ttl \in Nat \cup {NoTtl}
        <5>1. log[i] \in Logged /\ log[i].offset \in Nat
          <6>1. log[i] \in Logged
            BY SettledFacts, ElementOfSeq DEF IInv, Types
          <6> QED
            BY <6>1, GuardAssumption DEF Logged
        <5> QED
          BY <5>1, RequestFields, GuardAssumption DEF Logged
      <4>2. e \in Value
        BY <4>1, EndTimeType DEF EndOf
      <4> QED
        BY <4>2, RequestAssumption, GuardAssumption DEF Value, IInv, Types
    <3>3. now[c] > e
      BY <2>3
    <3> HIDE DEF e, t
    <3>4. now[c] > t
      BY <3>1, <3>2, <3>3
    <3> QED
      BY <3>1, <3>4 DEF Elapsed, t
  <2> QED
    BY <2>2, <2>3
<1> QED
  BY <1>1, Invariance, PTL

\* Under every request, also one that finds the table full, the table that the
\* kernel keeps element by element changes exactly as the function from
\* addresses to end times that BanService keeps.
THEOREM TableAlwaysFollows == Spec => TableFollowsRequests
<1> DEFINE Follows == commands' # commands =>
                        bans' = After(bans, utc, log'[Len(log')].request)
<1>1. IInv /\ [Next]_vars => [Follows]_vars
  <2> SUFFICES ASSUME IInv, Next, commands' # commands
               PROVE  bans' = After(bans, utc, log'[Len(log')].request)
    OBVIOUS
  <2>1. PICK r \in Requests : Ban(r) \/ Unban(r) \/ Ask(r)
    BY DEF Next, Filter, Tick, SetClock, Restart, guardVars
  <2>2. log'[Len(log')].request = r
    <3>1. PICK e \in Logged : log' = Append(log, e) /\ e.request = r
      BY <2>1, HandleLogs DEF Ban, Unban, Ask, IInv
    <3> QED
      BY <3>1, LogGrows DEF IInv
  <2>3. /\ bans \in [IP -> OrAbsent] /\ F!Listed = BannedIps(bans)
    BY TableTypes DEF IInv
  <2>4. \A ip \in IP : /\ bans[ip] = F!Entry(ip)
                       /\ bans'[ip] = F!Entry(ip)'
    BY DEF bans
  <2>5. bans' = [ip \in IP |-> F!Entry(ip)']
    BY DEF bans
  <2>6. ASSUME NEW f \in [IP -> OrAbsent], \A ip \in IP : F!Entry(ip)' = f[ip]
        PROVE  bans' = f
    BY <2>5, <2>6
  <2>7. CASE Ban(r)
    <3>1. r.op = "Ban" /\ r.target \in IP
      BY <2>7 DEF Ban
    <3> DEFINE t == EndTime(get_boot_time_ns(utc), r.ttl)
    <3>2. F!HasRoom(r.target)
          <=> \/ r.target \in BannedIps(bans)
              \/ Cardinality(BannedIps(bans)) < MaxEntries
      BY <2>3 DEF F!HasRoom, F!Cardinality, Cardinality
    <3>3. After(bans, utc, r) = IF F!HasRoom(r.target)
                                THEN [bans EXCEPT ![r.target] = t] ELSE bans
      BY <3>1, <3>2 DEF After
    <3>4. t \in OrAbsent
      BY <3>1, TableTypes, RequestFields, EndTimeType DEF IInv, OrAbsent
    <3> HIDE DEF t
    <3>5. CASE F!HasRoom(r.target)
      <4>1. \A ip \in IP : F!Entry(ip)' = [bans EXCEPT ![r.target] = t][ip]
        <5>1. ASSUME NEW ip \in IP, ip # r.target
              PROVE  F!Entry(ip)' = bans[ip]
          BY <2>4, <2>7, <5>1, BanWrites DEF IInv, F!Entry
        <5>2. F!Entry(r.target)' = t
          BY <2>7, <3>5, BanWrites DEF IInv, F!Entry, t
        <5> QED
          BY <2>3, <5>1, <5>2
      <4>2. [bans EXCEPT ![r.target] = t] \in [IP -> OrAbsent]
        BY <2>3, <3>4
      <4>3. bans' = [bans EXCEPT ![r.target] = t]
        BY <2>6, <4>1, <4>2
      <4> QED
        BY <2>2, <3>3, <3>5, <4>3
    <3>6. CASE ~F!HasRoom(r.target)
      <4>1. index' = index /\ cell' = cell
        BY <2>7, <3>6, BanWrites DEF IInv
      <4>2. bans' = bans
        BY <4>1 DEF bans, F!Entry
      <4> QED
        BY <2>2, <3>3, <3>6, <4>2
    <3> QED
      BY <3>5, <3>6
  <2>8. CASE Unban(r)
    <3>1. /\ r.op = "Unban" /\ r.target \in IP /\ cell' = cell
          /\ index' = [index EXCEPT ![r.target] = NoSlot]
      BY <2>8 DEF Unban, F!Remove
    <3>2. After(bans, utc, r) = [bans EXCEPT ![r.target] = Absent]
      BY <3>1 DEF After
    <3>3. \A ip \in IP :
            F!Entry(ip)' = [bans EXCEPT ![r.target] = Absent][ip]
      BY <2>3, <2>4, <3>1 DEF F!Entry, IInv, Types
    <3>4. [bans EXCEPT ![r.target] = Absent] \in [IP -> OrAbsent]
      BY <2>3 DEF OrAbsent
    <3>5. bans' = [bans EXCEPT ![r.target] = Absent]
      BY <2>6, <3>3, <3>4
    <3> QED
      BY <2>2, <3>2, <3>5
  <2>9. CASE Ask(r)
    <3>1. index' = index /\ cell' = cell
      BY <2>9 DEF Ask, tableVars
    <3>2. bans' = bans
      BY <3>1 DEF bans, F!Entry
    <3>3. After(bans, utc, r) = bans
      BY <2>9 DEF Ask, After
    <3> QED
      BY <2>2, <3>2, <3>3
  <2> QED
    BY <2>1, <2>7, <2>8, <2>9
<1> QED
  BY <1>1, Invariance, PTL DEF Spec, TableFollowsRequests

=============================================================================
