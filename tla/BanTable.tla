------------------------------ MODULE BanTable ------------------------------
(***************************************************************************)
(* The kernel hash map BANNED_IPS (rustguard-ebpf/src/main.rs), shared by  *)
(* the daemon, which writes it through system calls, and the XDP program,  *)
(* which looks addresses up in it and then follows the pointer it got.     *)
(*                                                                         *)
(* The map is created with flags 0, so the kernel preallocates its         *)
(* elements: the max_entries of them plus some spare ones.  An update of a *)
(* key never overwrites the key's element: it fills a spare one, links it  *)
(* and hands the old one back; a delete only unlinks.  An element handed   *)
(* back keeps its bytes until a later update fills it, and nothing tells a *)
(* program that still holds a pointer to it.  That is why the map is       *)
(* modelled down to its elements ("slots") and not as a plain function.    *)
(***************************************************************************)
EXTENDS Naturals, FiniteSets

CONSTANTS
  IP,          \* IPv4 addresses, as the u32 keys of the map
  Slot,        \* preallocated elements of the map
  NoSlot,      \* a lookup that found nothing (Option::None, a null pointer)
  Absent,      \* the entry of a key that is not in a map
  MaxEntries   \* HashMap::with_max_entries(1024, 0)

ASSUME TableAssumption ==
  /\ IsFiniteSet(IP)
  /\ IsFiniteSet(Slot)
  /\ NoSlot \notin Slot
  /\ Absent \notin Nat
  /\ MaxEntries \in Nat
  /\ Cardinality(Slot) > MaxEntries

VARIABLES
  index,   \* index[ip]: the slot linked under ip, or NoSlot
  cell     \* cell[s]: the BanValue.end_time stored in slot s, linked or not

tableVars == <<index, cell>>

TableInit ==
  /\ index = [ip \in IP |-> NoSlot]
  /\ cell = [s \in Slot |-> 0]

Listed == {ip \in IP : index[ip] # NoSlot}

Linked == {index[ip] : ip \in Listed}

FreeSlots == Slot \ Linked

\* What a reader of the map finds under ip.
Entry(ip) == IF index[ip] = NoSlot THEN Absent ELSE cell[index[ip]]

\* An update of ip succeeds: ip is replaced, or there is room for one more.
HasRoom(ip) == ip \in Listed \/ Cardinality(Listed) < MaxEntries

-----------------------------------------------------------------------------

\* Mutant of Insert: flag BPF_NOEXIST, a second ban keeps the first end_time.
InsertNoExist(ip, end_time) ==
  /\ HasRoom(ip)
  /\ \/ ip \in Listed /\ UNCHANGED tableVars
     \/ /\ ip \notin Listed
        /\ \E s \in FreeSlots :
             /\ index' = [index EXCEPT ![ip] = s]
             /\ cell' = [cell EXCEPT ![s] = end_time]

\* banned_ips.insert(ip, BanValue { end_time }, 0).
Insert(ip, end_time) ==
  /\ HasRoom(ip)
  /\ \E s \in FreeSlots :
       /\ index' = [index EXCEPT ![ip] = s]
       /\ cell' = [cell EXCEPT ![s] = end_time]

\* The same call when the map is full: the kernel answers E2BIG, and the
\* daemon discards the answer.
InsertFull(ip) ==
  /\ ~HasRoom(ip)
  /\ UNCHANGED tableVars

\* Mutant of Remove: a key in the wrong byte order, which is never found.
RemoveSwapped(ip) == ip \in IP /\ UNCHANGED tableVars

\* banned_ips.remove(&ip); removing what is not there fails and is ignored.
Remove(ip) ==
  /\ index' = [index EXCEPT ![ip] = NoSlot]
  /\ UNCHANGED cell

=============================================================================
