----------------------------- MODULE BanService -----------------------------
(***************************************************************************)
(* What the daemon promises the command-line clients, whatever happens to  *)
(* connections and processes: a command takes effect at most once, in one  *)
(* step, after it was issued; a client that reads an answer reads the one  *)
(* computed in that step; a client that got none cannot tell whether its   *)
(* command took effect, or still will.  All bans go when the daemon does.  *)
(***************************************************************************)
EXTENDS BanRequest

CONSTANTS
  Client,      \* the users' commands, one each
  Requests     \* what they may ask for

VARIABLES
  bans,      \* bans[ip]: end_time of the ban on ip, or Absent
  utc,       \* the wall clock
  STATS,     \* packets_dropped, or Absent
  request,   \* request[c]: what client c asked for, Absent before it asks
  applied,   \* clients whose command has taken effect
  answer,    \* answer[c]: the response computed for c, Absent before that
  result,    \* result[c]: the response client c has read, Absent before that
  status     \* status[c]: "new", "waiting", "answered" or "failed"

svcVars == <<bans, utc, STATS, request, applied, answer, result, status>>

Init ==
  /\ bans = NoBans
  /\ utc \in Nat
  /\ STATS = Absent
  /\ request = [c \in Client |-> Absent]
  /\ applied = {}
  /\ answer = [c \in Client |-> Absent]
  /\ result = [c \in Client |-> Absent]
  /\ status = [c \in Client |-> "new"]

Issue(c) ==
  /\ status[c] = "new"
  /\ \E r \in Requests : request' = [request EXCEPT ![c] = r]
  /\ status' = [status EXCEPT ![c] = "waiting"]
  /\ UNCHANGED <<bans, utc, STATS, applied, answer, result>>

\* Even a client that has given up may see its command take effect.
Apply(c) ==
  /\ status[c] \in {"waiting", "failed"}
  /\ request[c] # Absent
  /\ c \notin applied
  /\ bans' = After(bans, utc, request[c])
  /\ answer' = [answer EXCEPT ![c] = Response(bans, STATS, request[c])]
  /\ applied' = applied \cup {c}
  /\ UNCHANGED <<utc, STATS, request, result, status>>

Deliver(c) ==
  /\ status[c] = "waiting"
  /\ c \in applied
  /\ status' = [status EXCEPT ![c] = "answered"]
  /\ result' = [result EXCEPT ![c] = answer[c]]
  /\ UNCHANGED <<bans, utc, STATS, request, applied, answer>>

Fail(c) ==
  /\ status[c] \in {"new", "waiting"}
  /\ status' = [status EXCEPT ![c] = "failed"]
  /\ UNCHANGED <<bans, utc, STATS, request, applied, answer, result>>

Restart ==
  /\ bans' = NoBans
  /\ UNCHANGED <<utc, STATS, request, applied, answer, result, status>>

Clock ==
  /\ utc' \in Nat
  /\ UNCHANGED <<bans, STATS, request, applied, answer, result, status>>

Next ==
  \/ \E c \in Client : Issue(c) \/ Apply(c) \/ Deliver(c) \/ Fail(c)
  \/ Restart
  \/ Clock

Spec == Init /\ [][Next]_svcVars

=============================================================================
