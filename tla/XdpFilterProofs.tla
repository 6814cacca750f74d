-------------------------- MODULE XdpFilterProofs ---------------------------
(***************************************************************************)
(* Proofs about XdpFilter, for any number of CPUs, addresses, elements and *)
(* any set of frames and end times.                                        *)
(***************************************************************************)
EXTENDS XdpFilter, TLAPS

\* Past the header checks a CPU has a frame, past the lookup a pointer.
PlaceInv ==
  \A c \in CPU :
    /\ pc[c] \in Looking => frame[c] \in Frames
    /\ pc[c] \in {"load", "judge"} => ban[c] \in Slot

-----------------------------------------------------------------------------

\* What a reader finds under a key is a u64 or nothing.
LEMMA EntryType ==
  ASSUME TypeOK, NEW ip \in IP
  PROVE  Entry(ip) \in Nat \cup {Absent}
BY DEF TypeOK, Entry

\* What a write of the daemon does to the history is well typed whenever the
\* table it leaves behind is.
LEMMA NoteWriteType ==
  ASSUME TypeOK, PlaceInv, NoteWrite, UNCHANGED <<boot, STATS, cpuVars>>,
         index' \in [IP -> Slot \cup {NoSlot}], cell' \in [Slot -> Nat]
  PROVE  TypeOK' /\ PlaceInv'
<1> USE TableAssumption, FilterAssumption
<1>1. UNCHANGED <<pc, frame, now, ban, end, action>>
  BY DEF cpuVars
<1>2. \A c \in CPU : pc[c] \in Looking =>
        Entry(frame[c].src)' \in Nat \cup {Absent}
  BY <1>1 DEF PlaceInv, Entry
<1>3. seen' \in [CPU -> SUBSET (Nat \cup {Absent})]
  BY <1>2 DEF NoteWrite, TypeOK
<1>4. overlap' \in [CPU -> 0..2]
  BY DEF NoteWrite, TypeOK
<1>5. PlaceInv'
  BY <1>1 DEF PlaceInv
<1>6. QED
  BY <1>1, <1>3, <1>4, <1>5 DEF TypeOK, NoteWrite

\* Types, and the places of frames and pointers, are kept by every step.
LEMMA TypeStep == TypeOK /\ PlaceInv /\ [Next]_vars => TypeOK' /\ PlaceInv'
<1> SUFFICES ASSUME TypeOK, PlaceInv, [Next]_vars PROVE TypeOK' /\ PlaceInv'
  OBVIOUS
<1> USE TableAssumption, FilterAssumption
<1>1. ASSUME NEW c \in CPU, Abort(c) PROVE TypeOK' /\ PlaceInv'
  BY <1>1 DEF Abort, Receive, TypeOK, PlaceInv, tableVars, historyVars, Goto, Looking, XdpAction
<1>2. ASSUME NEW c \in CPU, Ignore(c) PROVE TypeOK' /\ PlaceInv'
  BY <1>2 DEF Ignore, Receive, TypeOK, PlaceInv, tableVars, historyVars, Goto, Looking, XdpAction
<1>3. ASSUME NEW c \in CPU, Inspect(c) PROVE TypeOK' /\ PlaceInv'
  <2>1. PICK f \in Frames : /\ frame' = [frame EXCEPT ![c] = f]
                            /\ seen' = [seen EXCEPT ![c] = {Entry(f.src)}]
    BY <1>3 DEF Inspect
  <2>2. Entry(f.src) \in Nat \cup {Absent}
    BY EntryType
  <2>3. QED
    BY <1>3, <2>1, <2>2 DEF Inspect, TypeOK, PlaceInv, tableVars, historyVars, Goto, Looking, XdpAction
<1>4. ASSUME NEW c \in CPU, ReadClock(c) PROVE TypeOK' /\ PlaceInv'
  BY <1>4 DEF ReadClock, TypeOK, PlaceInv, tableVars, historyVars, Goto, Looking, XdpAction
<1>5. ASSUME NEW c \in CPU, LookupMiss(c) PROVE TypeOK' /\ PlaceInv'
  BY <1>5 DEF LookupMiss, TypeOK, PlaceInv, tableVars, historyVars, Goto, Looking, XdpAction
<1>6. ASSUME NEW c \in CPU, LookupHit(c) PROVE TypeOK' /\ PlaceInv'
  BY <1>6 DEF LookupHit, TypeOK, PlaceInv, tableVars, historyVars, Goto, Looking, XdpAction
<1>7. ASSUME NEW c \in CPU, Load(c) PROVE TypeOK' /\ PlaceInv'
  BY <1>7 DEF Load, TypeOK, PlaceInv, tableVars, historyVars, Goto, Looking, XdpAction
<1>8. ASSUME NEW c \in CPU, JudgeDrop(c) PROVE TypeOK' /\ PlaceInv'
  BY <1>8 DEF JudgeDrop, TypeOK, PlaceInv, tableVars, historyVars, Goto, Looking, XdpAction
<1>9. ASSUME NEW c \in CPU, JudgePass(c) PROVE TypeOK' /\ PlaceInv'
  BY <1>9 DEF JudgePass, TypeOK, PlaceInv, tableVars, historyVars, Goto, Looking, XdpAction
<1>10. ASSUME NEW c \in CPU, Count(c) PROVE TypeOK' /\ PlaceInv'
  BY <1>10 DEF Count, TypeOK, PlaceInv, tableVars, historyVars, Goto, Looking, XdpAction
<1>11. ASSUME NEW c \in CPU, Return(c) PROVE TypeOK' /\ PlaceInv'
  BY <1>11 DEF Return, TypeOK, PlaceInv, tableVars, historyVars, Goto, Looking, XdpAction
<1>12. CASE DaemonInsert
  <2>1. /\ index' \in [IP -> Slot \cup {NoSlot}]
        /\ cell' \in [Slot -> Nat]
    BY <1>12 DEF DaemonInsert, Insert, FreeSlots, TypeOK
  <2>2. QED
    BY <1>12, <2>1, NoteWriteType DEF DaemonInsert
<1>13. CASE DaemonRemove
  <2>1. /\ index' \in [IP -> Slot \cup {NoSlot}]
        /\ cell' \in [Slot -> Nat]
    BY <1>13 DEF DaemonRemove, Remove, TypeOK
  <2>2. QED
    BY <1>13, <2>1, NoteWriteType DEF DaemonRemove
<1>14. CASE Tick
  BY <1>14 DEF Tick, TypeOK, PlaceInv, tableVars, cpuVars, historyVars
<1>15. CASE UNCHANGED vars
  BY <1>15 DEF vars, tableVars, filterVars, TypeOK, PlaceInv
<1>16. QED
  BY <1>1, <1>2, <1>3, <1>4, <1>5, <1>6, <1>7, <1>8, <1>9, <1>10, <1>11,
     <1>12, <1>13, <1>14, <1>15 DEF Next, CpuStep

\* Every reachable state of the filter has the shape TypeOK describes.  It is
\* not inductive by itself: the load through ban_ptr (main.rs 93) is typed
\* only because the pointer came from a lookup that found something.
THEOREM TypeCorrect == Spec => [](TypeOK /\ PlaceInv)
<1>1. Init => TypeOK /\ PlaceInv
  BY TableAssumption, FilterAssumption
  DEF Init, TableInit, FilterInit, TypeOK, PlaceInv, Looking, XdpAction
<1>2. QED
  BY <1>1, TypeStep, PTL DEF Spec

-----------------------------------------------------------------------------

\* What the entries recorded for CPU c's frame and the pointer it holds have
\* to do with the table, from the arrival of the frame to the verdict.  While
\* no write has overlapped, the element is still linked under the source;
\* while at most one has, it still holds an entry the source had, and the
\* first load agrees with a second one.
FlightInv(c) ==
  /\ pc[c] \in {"idle", "clock", "lookup"} => overlap[c] = 0
  /\ pc[c] \notin {"count", "done"} => action[c] = "XDP_PASS"
  /\ pc[c] \in Looking => Entry(frame[c].src) \in seen[c]
  /\ pc[c] \in {"load", "judge"} =>
       /\ \E entry \in seen[c] : entry # Absent
       /\ overlap[c] = 0 => index[frame[c].src] = ban[c]
       /\ overlap[c] <= 1 => cell[ban[c]] \in seen[c]
       /\ overlap[c] <= 1 /\ pc[c] = "judge" => end[c] = cell[ban[c]]
  /\ Judged(c) /\ overlap[c] <= 1 =>
       \E entry \in seen[c] : action[c] = Verdict(entry, now[c])
  /\ action[c] = "XDP_DROP" => \E entry \in seen[c] : entry # Absent

IInv ==
  /\ TypeOK
  /\ PlaceInv
  /\ \A c \in CPU : FlightInv(c)

\* A step that leaves the table and CPU d alone.
LEMMA FlightFrame ==
  ASSUME NEW d \in CPU, FlightInv(d), UNCHANGED <<index, cell>>,
         pc'[d] = pc[d], frame'[d] = frame[d], now'[d] = now[d],
         ban'[d] = ban[d], end'[d] = end[d], action'[d] = action[d],
         seen'[d] = seen[d], overlap'[d] = overlap[d]
  PROVE  FlightInv(d)'
BY DEF FlightInv, Entry, Judged

\* A step of CPU c changes nothing that concerns another CPU.
LEMMA OthersKeep ==
  ASSUME TypeOK, NEW c \in CPU, CpuStep(c),
         NEW d \in CPU, d # c, FlightInv(d)
  PROVE  FlightInv(d)'
<1>1. /\ UNCHANGED <<index, cell>>
      /\ pc'[d] = pc[d] /\ frame'[d] = frame[d] /\ now'[d] = now[d]
      /\ ban'[d] = ban[d] /\ end'[d] = end[d] /\ action'[d] = action[d]
      /\ seen'[d] = seen[d] /\ overlap'[d] = overlap[d]
  <2> USE DEF TypeOK, Goto, tableVars, historyVars
  <2>1. CASE Abort(c)
    BY <2>1 DEF Abort, Receive
  <2>2. CASE Ignore(c)
    BY <2>2 DEF Ignore, Receive
  <2>3. CASE Inspect(c)
    BY <2>3 DEF Inspect
  <2>4. CASE ReadClock(c)
    BY <2>4 DEF ReadClock
  <2>5. CASE LookupMiss(c)
    BY <2>5 DEF LookupMiss
  <2>6. CASE LookupHit(c)
    BY <2>6 DEF LookupHit
  <2>7. CASE Load(c)
    BY <2>7 DEF Load
  <2>8. CASE JudgeDrop(c)
    BY <2>8 DEF JudgeDrop
  <2>9. CASE JudgePass(c)
    BY <2>9 DEF JudgePass
  <2>10. CASE Count(c)
    BY <2>10 DEF Count
  <2>11. CASE Return(c)
    BY <2>11 DEF Return
  <2> QED
    BY <2>1, <2>2, <2>3, <2>4, <2>5, <2>6, <2>7, <2>8, <2>9, <2>10, <2>11 DEF CpuStep
<1> QED
  BY <1>1, FlightFrame

\* A step of CPU c keeps the invariant of its own frame.
LEMMA OwnKeeps ==
  ASSUME IInv, NEW c \in CPU, CpuStep(c)
  PROVE  FlightInv(c)'
<1> USE TableAssumption, FilterAssumption
<1> USE DEF IInv, TypeOK, PlaceInv, FlightInv, Goto, tableVars, historyVars,
            Looking, Judged
<1>1. CASE Abort(c)
  BY <1>1 DEF Abort, Receive, Aborted
<1>2. CASE Ignore(c)
  BY <1>2 DEF Ignore, Receive, Ignored, Inspected
<1>3. CASE Inspect(c)
  BY <1>3 DEF Inspect, Entry
<1>4. CASE ReadClock(c)
  BY <1>4 DEF ReadClock, Entry
<1>5. CASE LookupMiss(c)
  BY <1>5 DEF LookupMiss, Entry, Verdict
<1>6. CASE LookupHit(c)
  BY <1>6 DEF LookupHit, Entry
<1>7. CASE Load(c)
  BY <1>7 DEF Load, Entry
<1>8. CASE JudgeDrop(c)
  BY <1>8 DEF JudgeDrop, Entry, Verdict, BanHolds
<1>9. CASE JudgePass(c)
  BY <1>9 DEF JudgePass, Entry, Verdict, BanHolds
<1>10. CASE Count(c)
  BY <1>10 DEF Count, Entry
<1>11. CASE Return(c)
  BY <1>11 DEF Return
<1> QED
  BY <1>1, <1>2, <1>3, <1>4, <1>5, <1>6, <1>7, <1>8, <1>9, <1>10, <1>11 DEF CpuStep

\* A write of the daemon keeps the invariant of every frame if it fills no
\* linked element and unlinks no more than it says: what an element linked
\* before the write holds is still there after it.
LEMMA WriteKeeps ==
  ASSUME IInv, NoteWrite, UNCHANGED <<boot, STATS, cpuVars>>,
         \A s \in Linked : cell'[s] = cell[s],
         NEW c \in CPU
  PROVE  FlightInv(c)'
<1> USE TableAssumption, FilterAssumption
<1>1. UNCHANGED <<pc, frame, now, ban, end, action>>
  BY DEF cpuVars
<1>2. seen'[c] = IF pc[c] \in Looking
                 THEN seen[c] \cup {Entry(frame[c].src)'} ELSE seen[c]
  BY DEF NoteWrite
<1>3. overlap'[c] = IF pc[c] \in {"load", "judge"} /\ overlap[c] < 2
                    THEN overlap[c] + 1 ELSE overlap[c]
  BY DEF NoteWrite
<1>4. overlap[c] \in 0..2
  BY DEF IInv, TypeOK
<1>5. pc[c] \in Looking => Entry(frame[c].src)' \in seen'[c]
  BY <1>2
<1>6. seen[c] \subseteq seen'[c]
  BY <1>2
<1>7. ASSUME pc[c] \in {"load", "judge"}
      PROVE  /\ \E entry \in seen'[c] : entry # Absent
             /\ overlap'[c] # 0
             /\ overlap'[c] <= 1 => /\ cell'[ban[c]] = cell[ban[c]]
                                    /\ cell'[ban[c]] \in seen'[c]
  <2>1. \E entry \in seen[c] : entry # Absent
    BY <1>7 DEF IInv, FlightInv
  <2>2. overlap'[c] # 0
    BY <1>3, <1>4, <1>7
  <2>3. ASSUME overlap'[c] <= 1
        PROVE  cell'[ban[c]] = cell[ban[c]] /\ cell[ban[c]] \in seen[c]
    <3>1. overlap[c] = 0
      BY <1>3, <1>4, <1>7, <2>3
    <3>2. index[frame[c].src] = ban[c] /\ ban[c] \in Slot /\ frame[c] \in Frames
      BY <1>7, <3>1 DEF IInv, FlightInv, PlaceInv, Looking
    <3>3. ban[c] \in Linked
      BY <3>2 DEF Linked, Listed
    <3>4. QED
      BY <1>4, <1>7, <3>1, <3>3 DEF IInv, FlightInv
  <2>4. QED
    BY <1>6, <2>1, <2>2, <2>3
<1>8. ASSUME pc[c] \in {"count", "done"}
      PROVE  seen'[c] = seen[c] /\ overlap'[c] = overlap[c]
  BY <1>2, <1>3, <1>8 DEF Looking
<1>9. FlightInv(c)
  BY DEF IInv
<1>10. QED
  <2>1. (pc[c] \in {"idle", "clock", "lookup"} => overlap[c] = 0)'
    BY <1>1, <1>3, <1>9 DEF FlightInv
  <2>2. (Judged(c) /\ overlap[c] <= 1 =>
          \E entry \in seen[c] : action[c] = Verdict(entry, now[c]))'
    BY <1>1, <1>8, <1>9 DEF FlightInv, Judged
  <2>3. (action[c] = "XDP_DROP" => \E entry \in seen[c] : entry # Absent)'
    BY <1>1, <1>6, <1>9 DEF FlightInv
  <2>4. (overlap[c] <= 1 /\ pc[c] = "judge" => end[c] = cell[ban[c]])'
    BY <1>1, <1>3, <1>4, <1>7, <1>9 DEF FlightInv
  <2>5. QED
    BY <1>1, <1>5, <1>7, <1>9, <2>1, <2>2, <2>3, <2>4 DEF FlightInv

\* The strengthened invariant is kept by every step.
LEMMA InvStep == IInv /\ [Next]_vars => IInv'
<1> SUFFICES ASSUME IInv, [Next]_vars PROVE IInv'
  OBVIOUS
<1>1. TypeOK' /\ PlaceInv'
  BY TypeStep DEF IInv
<1>2. ASSUME NEW c \in CPU, CpuStep(c), NEW d \in CPU PROVE FlightInv(d)'
  BY <1>2, OthersKeep, OwnKeeps DEF IInv
<1>3. ASSUME DaemonInsert, NEW c \in CPU PROVE FlightInv(c)'
  <2>1. \A s \in Linked : cell'[s] = cell[s]
    BY <1>3 DEF DaemonInsert, Insert, FreeSlots, IInv, TypeOK, Linked, Listed
  <2>2. QED
    BY <1>3, <2>1, WriteKeeps DEF DaemonInsert
<1>4. ASSUME DaemonRemove, NEW c \in CPU PROVE FlightInv(c)'
  <2>1. \A s \in Linked : cell'[s] = cell[s]
    BY <1>4 DEF DaemonRemove, Remove
  <2>2. QED
    BY <1>4, <2>1, WriteKeeps DEF DaemonRemove
<1>5. ASSUME Tick, NEW c \in CPU PROVE FlightInv(c)'
  BY <1>5, FlightFrame DEF Tick, tableVars, cpuVars, historyVars, IInv
<1>6. ASSUME UNCHANGED vars, NEW c \in CPU PROVE FlightInv(c)'
  BY <1>6, FlightFrame DEF vars, tableVars, filterVars, IInv
<1>7. QED
  BY <1>1, <1>2, <1>3, <1>4, <1>5, <1>6 DEF IInv, Next

\* The strengthened invariant holds in every reachable state.
LEMMA InvHolds == Spec => []IInv
<1>1. Init => IInv
  <2> SUFFICES ASSUME Init PROVE IInv
    OBVIOUS
  <2>1. TypeOK /\ PlaceInv
    BY TableAssumption, FilterAssumption
    DEF Init, TableInit, FilterInit, TypeOK, PlaceInv, Looking, XdpAction
  <2>2. \A c \in CPU : FlightInv(c)
    BY DEF Init, FilterInit, FlightInv, Judged, Looking
  <2>3. QED
    BY <2>1, <2>2 DEF IInv
<1>2. QED
  BY <1>1, InvStep, PTL DEF Spec

\* The verdict of main.rs 92-106 is that of an undisturbed run on an entry
\* the source really had, unless two writes overlap with the dereference:
\* for every number of CPUs, addresses and map elements.
THEOREM VerdictIsLinearizable == Spec => []VerdictLinearizable
<1>1. IInv => VerdictLinearizable
  BY DEF IInv, FlightInv, VerdictLinearizable
<1>2. QED
  BY <1>1, InvHolds, PTL

\* A frame that is being handled went through the header checks one way.
BoundsInv(c) ==
  pc[c] # "idle" =>
    /\ frame[c] \in Frames
    /\ action[c] = "XDP_ABORTED" <=> Aborted(frame[c])

\* BoundsInv is kept: what the checks decided at arrival, no later step revokes.
LEMMA BoundsStep ==
  IInv /\ (\A c \in CPU : BoundsInv(c)) /\ [Next]_vars
    => (\A c \in CPU : BoundsInv(c))'
<1> SUFFICES ASSUME IInv, \A c \in CPU : BoundsInv(c), [Next]_vars,
                    NEW d \in CPU
             PROVE  BoundsInv(d)'
  OBVIOUS
<1> USE DEF IInv, TypeOK, BoundsInv, Goto
<1>1. ASSUME NEW c \in CPU, CpuStep(c) PROVE BoundsInv(d)'
  <2>1. CASE Abort(c)
    BY <2>1 DEF Abort, Receive
  <2>2. CASE Ignore(c)
    BY <2>2 DEF Ignore, Receive, Aborted
  <2>3. CASE Inspect(c)
    <3>1. action[c] = "XDP_PASS"
      BY <2>3 DEF Inspect, FlightInv
    <3> QED
      BY <2>3, <3>1 DEF Inspect, Aborted
  <2>4. CASE ReadClock(c)
    BY <2>4 DEF ReadClock
  <2>5. CASE LookupMiss(c) \/ JudgePass(c)
    <3>1. action[c] = "XDP_PASS"
      BY <2>5 DEF LookupMiss, JudgePass, FlightInv
    <3> QED
      BY <2>5, <3>1 DEF LookupMiss, JudgePass
  <2>6. CASE LookupHit(c)
    BY <2>6 DEF LookupHit
  <2>7. CASE Load(c)
    BY <2>7 DEF Load
  <2>8. CASE JudgeDrop(c)
    <3>1. action[c] = "XDP_PASS"
      BY <2>8 DEF JudgeDrop, FlightInv
    <3> QED
      BY <2>8, <3>1 DEF JudgeDrop
  <2>9. CASE Count(c)
    BY <2>9 DEF Count
  <2>10. CASE Return(c)
    BY <2>10 DEF Return
  <2> QED
    BY <1>1, <2>1, <2>2, <2>3, <2>4, <2>5, <2>6, <2>7, <2>8, <2>9, <2>10
    DEF CpuStep
<1>2. CASE DaemonInsert \/ DaemonRemove
  BY <1>2 DEF DaemonInsert, DaemonRemove, cpuVars
<1>3. CASE Tick
  BY <1>3 DEF Tick, cpuVars
<1>4. CASE UNCHANGED vars
  BY <1>4 DEF vars, filterVars
<1> QED
  BY <1>1, <1>2, <1>3, <1>4 DEF Next

\* ptr_at (main.rs 55-66) at its three offsets refuses exactly the frames that
\* end inside a header the program reads, whatever lengths arrive and however
\* the runs interleave.
THEOREM FramesBounded == Spec => []FrameBounds
<1>1. Init => \A c \in CPU : BoundsInv(c)
  BY DEF Init, FilterInit, BoundsInv
<1>2. (\A c \in CPU : BoundsInv(c)) => FrameBounds
  <2> SUFFICES ASSUME NEW c \in CPU, BoundsInv(c), pc[c] # "idle",
                      \/ frame[c].ether_type # "Ipv4"
                      \/ frame[c].proto \in {"Tcp", "Udp"}
               PROVE  action[c] = "XDP_ABORTED"
                      <=> frame[c].len < HeadersEnd(frame[c])
    BY DEF FrameBounds
  <2>1. frame[c].len \in Nat
    BY FilterAssumption DEF BoundsInv
  <2>2. CASE frame[c].ether_type # "Ipv4"
    <3>1. Aborted(frame[c]) <=> frame[c].len < 14
      BY <2>1, <2>2 DEF Aborted, Ignored, Inspected, HasEthHdr, PtrAt, EthHdrLEN
    <3> QED
      BY <2>2, <3>1 DEF HeadersEnd, BoundsInv
  <2>3. CASE frame[c].ether_type = "Ipv4" /\ frame[c].proto = "Tcp"
    <3>1. Aborted(frame[c]) <=> frame[c].len < 54
      BY <2>1, <2>3 DEF Aborted, Ignored, Inspected, HasEthHdr, HasIpv4Hdr,
           HasTransportHdr, PtrAt, EthHdrLEN, Ipv4HdrLEN, TcpHdrLEN
    <3> QED
      BY <2>3, <3>1 DEF HeadersEnd, BoundsInv
  <2>4. CASE frame[c].ether_type = "Ipv4" /\ frame[c].proto = "Udp"
    <3>1. Aborted(frame[c]) <=> frame[c].len < 42
      BY <2>1, <2>4 DEF Aborted, Ignored, Inspected, HasEthHdr, HasIpv4Hdr,
           HasTransportHdr, PtrAt, EthHdrLEN, Ipv4HdrLEN, UdpHdrLEN
    <3> QED
      BY <2>4, <3>1 DEF HeadersEnd, BoundsInv
  <2> QED
    BY <2>2, <2>3, <2>4
<1> QED
  BY <1>1, <1>2, BoundsStep, InvHolds, PTL DEF Spec

\* Under any interleaving of any number of writes, main.rs 102 drops only
\* frames whose source was in the table while the frame was being handled.
THEOREM DropsOnlyListed == Spec => []DropOnlyListed
<1>1. IInv => DropOnlyListed
  BY DEF IInv, FlightInv, DropOnlyListed
<1>2. QED
  BY <1>1, InvHolds, PTL

=============================================================================
