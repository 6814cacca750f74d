---------------------------- MODULE ProcessCache ----------------------------
(***************************************************************************)
(* ProcessCache of the connection monitor (rustguard/src/monitor.rs):      *)
(* print_event asks it for the executable of a pid.  An answer is kept for *)
(* TTL; the link in /proc is read at one moment and the entry is dated at  *)
(* a later one, and meanwhile, as at any time, the process may run another *)
(* program or be gone, and its pid be reused.                              *)
(***************************************************************************)
EXTENDS Naturals

CONSTANTS
  Pid,
  Exes,      \* what /proc/{pid}/exe may lead to; one of them is "<unknown>"
  TTL,       \* for how long an entry is good
  Nothing,   \* no entry, no lookup, no answer
  MaxTime    \* bound on the clock

ASSUME CacheAssumption ==
  /\ TTL \in Nat \ {0}
  /\ MaxTime \in Nat

VARIABLES
  time,      \* the clock of Instant
  exe,       \* exe[p]: what /proc/p/exe leads to
  cache,     \* cache[p]: the entry for p, its executable and date, or Nothing
  lookup,    \* the lookup that is under way: pid, executable read, and when
  \* History, read by the property only:
  left,      \* left[p][x]: when p last ceased to stand for x
  took,      \* took[p]: how long the lookup lasted that made the entry of p
  answer     \* the last answer: how outdated it was, and took of its entry

vars == <<time, exe, cache, lookup, left, took, answer>>

Init ==
  /\ time = 0
  /\ exe \in [Pid -> Exes]
  /\ cache = [p \in Pid |-> Nothing]
  /\ lookup = Nothing
  /\ left = [p \in Pid |-> [x \in Exes |-> 0]]
  /\ took = [p \in Pid |-> 0]
  /\ answer = Nothing

Tick ==
  /\ time < MaxTime
  /\ time' = time + 1
  /\ UNCHANGED <<exe, cache, lookup, left, took, answer>>

\* An exec, an exit, or a new process with the same pid.
Exec(p) ==
  /\ \E x \in Exes \ {exe[p]} : exe' = [exe EXCEPT ![p] = x]
  /\ left' = [left EXCEPT ![p] = [@ EXCEPT ![exe[p]] = time]]
  /\ UNCHANGED <<time, cache, lookup, took, answer>>

\* How long ago p last stood for x.
Outdated(p, x) == IF exe[p] = x THEN 0 ELSE time - left[p][x]

\* Mutant of Good: the last instant counted in.
GoodInclusive(p) == cache[p] # Nothing /\ time - cache[p].ts <= TTL

\* ts.elapsed() < TTL
Good(p) == cache[p] # Nothing /\ time - cache[p].ts < TTL

\* The entry is good enough.
Hit(p) ==
  /\ lookup = Nothing
  /\ Good(p)
  /\ answer' = [age |-> Outdated(p, cache[p].exe), took |-> took[p]]
  /\ UNCHANGED <<time, exe, cache, lookup, left, took>>

\* fs::read_link, or "<unknown>" if it fails.
ReadLink(p) ==
  /\ lookup = Nothing
  /\ ~Good(p)
  /\ lookup' = [pid |-> p, exe |-> exe[p], at |-> time]
  /\ UNCHANGED <<time, exe, cache, left, took, answer>>

\* The entry is made, with Instant::now(), and the executable returned.
Insert ==
  /\ lookup # Nothing
  /\ LET p == lookup.pid
     IN /\ cache' = [cache EXCEPT ![p] = [exe |-> lookup.exe, ts |-> time]]
        /\ took' = [took EXCEPT ![p] = time - lookup.at]
        /\ answer' = [age |-> Outdated(p, lookup.exe), took |-> time - lookup.at]
  /\ lookup' = Nothing
  /\ UNCHANGED <<time, exe, left>>

Next ==
  \/ Tick
  \/ Insert
  \/ \E p \in Pid : Exec(p) \/ Hit(p) \/ ReadLink(p)

Spec == Init /\ [][Next]_vars

-----------------------------------------------------------------------------

\* monitor.rs 134-150: an answer names what the pid stood for less than TTL
\* ago, plus the time the lookup behind it took between reading the link and
\* dating the entry; however often the cache is asked and however often the
\* pid changes hands.
AnswerIsFresh == answer # Nothing => answer.age < TTL + answer.took

=============================================================================
