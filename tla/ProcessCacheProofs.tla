------------------------- MODULE ProcessCacheProofs -------------------------
(***************************************************************************)
(* AnswerIsFresh for any pids, executables, TTL and length of a lookup.    *)
(***************************************************************************)
EXTENDS ProcessCache, TLAPS

Types ==
  /\ time \in Nat
  /\ exe \in [Pid -> Exes]
  /\ DOMAIN cache = Pid
  /\ left \in [Pid -> [Exes -> Nat]]
  /\ took \in [Pid -> Nat]
  /\ \A p \in Pid : cache[p] # Nothing => cache[p] \in [exe : Exes, ts : Nat]
  /\ lookup # Nothing => lookup \in [pid : Pid, exe : Exes, at : Nat]

\* Pid p stood for x at time `since` or later.
StoodFor(p, x, since) == exe[p] = x \/ left[p][x] >= since

\* An entry is dated when its lookup ended, and was right when it began.
EntryInv(p) ==
  cache[p] # Nothing =>
    /\ cache[p].ts <= time
    /\ took[p] <= cache[p].ts
    /\ StoodFor(p, cache[p].exe, cache[p].ts - took[p])

LookupInv ==
  lookup # Nothing =>
    /\ lookup.at <= time
    /\ StoodFor(lookup.pid, lookup.exe, lookup.at)

IInv ==
  /\ Types
  /\ \A p \in Pid : EntryInv(p)
  /\ LookupInv
  /\ AnswerIsFresh

\* Nothing is known to be wrong when the monitor starts.
LEMMA InitHolds == Init => IInv
BY DEF Init, IInv, Types, EntryInv, LookupInv, AnswerIsFresh

\* Time makes entries older, but no less right.
LEMMA TickKeeps == IInv /\ Tick => IInv'
BY DEF Tick, IInv, Types, EntryInv, LookupInv, StoodFor, AnswerIsFresh

\* A pid that changes its executable stood for the old one until now.
LEMMA ExecKeeps ==
  ASSUME IInv, NEW p \in Pid, Exec(p)
  PROVE  IInv'
<1>1. Types'
  BY DEF Exec, IInv, Types
<1>2. ASSUME NEW q \in Pid, NEW x \in Exes, NEW since \in Nat,
             since <= time, StoodFor(q, x, since)
      PROVE  StoodFor(q, x, since)'
  BY <1>2 DEF Exec, IInv, Types, StoodFor
<1>3. ASSUME NEW q \in Pid PROVE EntryInv(q)'
  <2> SUFFICES ASSUME cache[q] # Nothing
               PROVE  /\ cache[q].ts <= time
                      /\ took[q] <= cache[q].ts
                      /\ StoodFor(q, cache[q].exe, cache[q].ts - took[q])'
    BY DEF EntryInv, Exec
  <2>1. /\ cache[q].exe \in Exes
        /\ cache[q].ts - took[q] \in Nat
        /\ cache[q].ts - took[q] <= time
    BY DEF IInv, Types, EntryInv
  <2>2. StoodFor(q, cache[q].exe, cache[q].ts - took[q])
    BY DEF IInv, EntryInv
  <2>3. (cache[q].ts - took[q])' = cache[q].ts - took[q] /\ cache'[q].exe = cache[q].exe
    BY DEF Exec
  <2> QED
    BY <1>2, <2>1, <2>2, <2>3 DEF IInv, EntryInv, Exec, StoodFor
<1>4. LookupInv'
  BY <1>2 DEF Exec, IInv, Types, LookupInv, StoodFor
<1> QED
  BY <1>1, <1>3, <1>4 DEF Exec, IInv, AnswerIsFresh

\* A hit is younger than TTL, and its executable was right when its link was
\* read, which was no longer ago than that and the lookup together.
LEMMA HitKeeps ==
  ASSUME IInv, NEW p \in Pid, Hit(p)
  PROVE  IInv'
<1>1. AnswerIsFresh'
  <2>1. /\ cache[p] # Nothing /\ cache[p].ts \in Nat /\ cache[p].exe \in Exes
        /\ time \in Nat /\ took[p] \in Nat
        /\ time - cache[p].ts < TTL
        /\ cache[p].ts <= time /\ took[p] <= cache[p].ts
        /\ StoodFor(p, cache[p].exe, cache[p].ts - took[p])
        /\ left[p][cache[p].exe] \in Nat
    BY DEF IInv, Types, EntryInv, Hit, Good
  <2>2. Outdated(p, cache[p].exe) < TTL + took[p]
    BY <2>1, CacheAssumption DEF Outdated, StoodFor
  <2> QED
    BY <2>2 DEF Hit, AnswerIsFresh
<1> QED
  BY <1>1 DEF Hit, IInv, Types, EntryInv, LookupInv, StoodFor

\* What is read from /proc is right.
LEMMA ReadLinkKeeps ==
  ASSUME IInv, NEW p \in Pid, ReadLink(p)
  PROVE  IInv'
BY DEF ReadLink, IInv, Types, EntryInv, LookupInv, StoodFor, AnswerIsFresh

\* The entry inherits what is known of the lookup.
LEMMA InsertKeeps == IInv /\ Insert => IInv'
<1> SUFFICES ASSUME IInv, Insert PROVE IInv'
  OBVIOUS
<1> DEFINE p == lookup.pid
<1>1. /\ p \in Pid /\ lookup.exe \in Exes /\ lookup.at \in Nat /\ time \in Nat
      /\ lookup.at <= time
      /\ StoodFor(p, lookup.exe, lookup.at)
      /\ left[p][lookup.exe] \in Nat
  BY DEF IInv, Types, LookupInv, Insert
<1>2. Types'
  BY <1>1 DEF Insert, IInv, Types
<1>3. ASSUME NEW q \in Pid PROVE EntryInv(q)'
  <2>1. CASE q # p
    BY <2>1 DEF Insert, IInv, Types, EntryInv, StoodFor
  <2>2. CASE q = p
    <3>1. /\ cache'[q] = [exe |-> lookup.exe, ts |-> time]
          /\ took'[q] = time - lookup.at
      BY <1>1, <2>2 DEF Insert, IInv, Types
    <3> QED
      BY <1>1, <2>2, <3>1 DEF Insert, EntryInv, StoodFor
  <2> QED
    BY <2>1, <2>2
<1>4. Outdated(p, lookup.exe) < TTL + (time - lookup.at)
  BY <1>1, CacheAssumption DEF Outdated, StoodFor
<1> QED
  BY <1>2, <1>3, <1>4 DEF Insert, IInv, LookupInv, AnswerIsFresh

\* ProcessCache::exe (monitor.rs 134-150) never answers with an executable that
\* the pid ceased to stand for TTL and one lookup ago, or earlier.
THEOREM AnswerAlwaysFresh == Spec => []AnswerIsFresh
<1>1. IInv /\ UNCHANGED vars => IInv'
  BY DEF IInv, vars, Types, EntryInv, LookupInv, StoodFor, AnswerIsFresh
<1>2. IInv /\ [Next]_vars => IInv'
  BY <1>1, TickKeeps, ExecKeeps, HitKeeps, ReadLinkKeeps, InsertKeeps DEF Next
<1>3. IInv => AnswerIsFresh
  BY DEF IInv
<1> QED
  BY InitHolds, <1>2, <1>3, PTL DEF Spec

=============================================================================
