----------------------------- MODULE BanRequest -----------------------------
(***************************************************************************)
(* The requests and responses of the control socket (rustguard/src/main.rs,*)
(* DaemonRequest and DaemonResponse), the u64 arithmetic that turns a      *)
(* time-to-live into the end_time of a ban, and what handling a request    *)
(* does to the ban table, seen as a function of addresses.                 *)
(***************************************************************************)
EXTENDS Integers, FiniteSets

CONSTANTS
  IP,          \* target strings that Ipv4Addr::from_str accepts
  NotIp,       \* target strings that it rejects
  NoTtl,       \* ttl: None
  Ttls,        \* ttl: Some(t), in seconds
  NsPerSec,    \* 1_000_000_000
  Word,        \* 2^64, the range of u64
  Absent,      \* the entry of a key that is not in a map
  MaxEntries   \* HashMap::with_max_entries(1024, 0)

ASSUME RequestAssumption ==
  /\ IP \cap NotIp = {}
  /\ Ttls \subseteq Nat
  /\ NoTtl \notin Nat
  /\ NsPerSec \in Nat \ {0}
  /\ Word \in Nat \ {0}
  /\ Absent \notin Nat
  /\ MaxEntries \in Nat

\* enum DaemonRequest, and one request that serde_json does not parse as any.
DaemonRequest ==
       [op : {"Ban"}, target : IP \cup NotIp, ttl : Ttls \cup {NoTtl}]
  \cup [op : {"Unban"}, target : IP \cup NotIp]
  \cup [op : {"List", "Stats", "Malformed"}]

Names(r, ip) == r.op \in {"Ban", "Unban"} /\ r.target = ip

\* enum DaemonResponse.
Ok == [tag |-> "Ok"]
Error(text) == [tag |-> "Error", text |-> text]
List(ips) == [tag |-> "List", ips |-> ips]
Stats(n) == [tag |-> "Stats", packets_dropped |-> n]

-----------------------------------------------------------------------------

\* get_boot_time_ns: nanoseconds since 1970 by the wall clock, 0 when they do
\* not fit an i64, and then reinterpreted as u64.
get_boot_time_ns(utc) == IF utc < Word \div 2 THEN utc ELSE 0

\* now + t * 1_000_000_000 leaves u64: a panic where overflow is checked.
Overflows(now, ttl) ==
  ttl # NoTtl /\ (ttl * NsPerSec >= Word \/ now + ttl * NsPerSec >= Word)

\* Mutant of EndTime: unwrap_or(now).
EndTimeOrNow(now, ttl) ==
  IF ttl = NoTtl THEN now ELSE (now + ((ttl * NsPerSec) % Word)) % Word

\* ttl.map(|t| now + t * 1_000_000_000).unwrap_or(0), wrapping where not.
EndTime(now, ttl) ==
  IF ttl = NoTtl THEN 0 ELSE (now + ((ttl * NsPerSec) % Word)) % Word

-----------------------------------------------------------------------------

NoBans == [ip \in IP |-> Absent]

BannedIps(bans) == {ip \in IP : bans[ip] # Absent}

\* The table after r.  A ban that finds the table full leaves it as it is.
After(bans, utc, r) ==
  CASE r.op = "Ban" /\ r.target \in IP
         /\ \/ r.target \in BannedIps(bans)
            \/ Cardinality(BannedIps(bans)) < MaxEntries ->
         [bans EXCEPT ![r.target] = EndTime(get_boot_time_ns(utc), r.ttl)]
    [] r.op = "Unban" /\ r.target \in IP -> [bans EXCEPT ![r.target] = Absent]
    [] OTHER -> bans

\* The response to r.
Response(bans, stats, r) ==
  CASE r.op \in {"Ban", "Unban"} /\ r.target \in IP -> Ok
    [] r.op \in {"Ban", "Unban"} /\ r.target \notin IP -> Error("invalid ip")
    [] r.op = "List" -> List(BannedIps(bans))
    [] r.op = "Stats" -> Stats(stats)
    [] r.op = "Malformed" -> Error("invalid request")

=============================================================================
