------------------------ MODULE ControlSocketProofs -------------------------
(***************************************************************************)
(* The safety properties of ControlSocket, and that it implements          *)
(* BanService, for any number of clients and starts of the daemon, any     *)
(* requests, any backlog and any readings of the clock.                    *)
(***************************************************************************)
EXTENDS ControlSocket, SequenceTheorems, TLAPS

Serving == {"len", "body", "handle", "respond_len", "respond_body"}

\* The task has not yet handled the request of its peer.
Before == {"len", "body", "handle"}

\* Connections that are out of the queue: accepted, or dropped with it.
Past == Len(arrived) - Len(queue)

\* Clients connect once, and the queue holds the last ones that did.
ArrivalInv ==
  /\ \A m, n \in 1..Len(arrived) : arrived[m] = arrived[n] => m = n
  /\ \A m \in 1..Len(arrived) : cli[arrived[m]] # "start"
  /\ Past >= 0
  /\ \A j \in 1..Len(queue) : queue[j] = arrived[Past + j]

\* The task serves the last connection it accepted, and reads a request to its
\* end before it handles it.
PeerInv ==
  task \in Serving =>
    /\ Past >= 1
    /\ peer = arrived[Past]
    /\ task \notin {"len", "body"} => sent[peer] = 2
    /\ task \notin Before =>
         /\ peer \in AppliedSet
         /\ resp = answer[peer]

\* Requests are handled once, in the order of arrival.
AppliedInv ==
  \A i \in 1..Len(applied) : \E m \in 1..Len(arrived) :
    /\ applied[i] = arrived[m]
    /\ m <= Past
    /\ task \in Before => m < Past
    /\ \A j \in 1..Len(applied) : \A n \in 1..Len(arrived) :
         i < j /\ applied[j] = arrived[n] => m < n

\* Where a client is says how much of its request it has written.
ClientInv(c) ==
  /\ cli[c] \in {"start", "write_len"} => sent[c] = 0
  /\ cli[c] = "write_body" => sent[c] = 1
  /\ \A m \in 1..Len(arrived) : arrived[m] = c => request[c] \in Requests
  /\ cli[c] \in {"read_body", "done"} => c \in AppliedSet
  /\ c \in AppliedSet => sent[c] = 2 /\ answer[c] \in Responses

\* What a client may still read: nothing before its request was handled, then
\* the pieces of its answer that the task has written and it has not read.
InboxInv(c) ==
  cli[c] \notin {"done", "failed"} =>
    /\ c \notin AppliedSet => inbox[c] = << >>
    /\ cli[c] = "read_body" => inbox[c] \in {<< >>, <<answer[c]>>}
    /\ cli[c] # "read_body" =>
         inbox[c] \in {<< >>, <<LenPiece>>, <<LenPiece, answer[c]>>}
    /\ task = "respond_len" /\ peer = c =>
         inbox[c] = << >> /\ cli[c] # "read_body"
    /\ task = "respond_body" /\ peer = c =>
         inbox[c] = IF cli[c] = "read_body" THEN << >> ELSE <<LenPiece>>

IInv ==
  /\ TypeOK
  /\ ArrivalInv
  /\ PeerInv
  /\ AppliedInv
  /\ \A c \in Client : ClientInv(c) /\ InboxInv(c)

-----------------------------------------------------------------------------

\* The end_time that main.rs 254 stores fits the u64 of the map.
LEMMA EndTimeIsU64 ==
  ASSUME NEW t \in Nat, NEW ttl \in Ttls \cup {NoTtl}
  PROVE  EndTime(get_boot_time_ns(t), ttl) \in 0..(Word - 1)
<1> DEFINE now == get_boot_time_ns(t)
<1>1. now \in Nat
  BY DEF get_boot_time_ns
<1>2. CASE ttl = NoTtl
  BY <1>2, RequestAssumption DEF EndTime
<1>3. CASE ttl # NoTtl
  <2>1. ttl * NsPerSec \in Nat
    BY <1>3, RequestAssumption
  <2>2. \A n \in Nat : n % Word \in 0..(Word - 1)
    BY RequestAssumption
  <2>3. now + ((ttl * NsPerSec) % Word) \in Nat
    <3> DEFINE n == ttl * NsPerSec
    <3>1. n % Word \in 0..(Word - 1)
      BY <2>1, <2>2
    <3> HIDE DEF n, now
    <3> QED  BY <3>1, <1>1, RequestAssumption DEF n
  <2> QED
    BY <1>3, <2>2, <2>3 DEF EndTime
<1> QED
  BY <1>2, <1>3

\* What serde_json makes of a request for a ban.
LEMMA BanHasTtl ==
  ASSUME NEW r \in Requests, r.op = "Ban"
  PROVE  r.ttl \in Ttls \cup {NoTtl}
BY SocketAssumption DEF DaemonRequest

\* Every answer that the handler computes is a DaemonResponse.
LEMMA AnswersAreResponses ==
  /\ Ok \in Responses
  /\ Error("invalid ip") \in Responses
  /\ Error("invalid request") \in Responses
  /\ \A b : List(BannedIps(b)) \in Responses
  /\ \A n \in 0..(Word - 1) \cup {Absent} : Stats(n) \in Responses
BY DEF Responses, BannedIps

\* What is left of a response when its length has been read.
LEMMA TailOfPieces ==
  ASSUME NEW p, NEW q
  PROVE  /\ Tail(<<p>>) = << >>
         /\ Tail(<<p, q>>) = <<q>>
<1>1. Tail(<<p>>) = << >>
  OBVIOUS
<1>2. <<p, q>> \in Seq({p, q}) /\ <<p, q>> # << >> /\ Len(<<p, q>>) = 2
  OBVIOUS
<1>3. /\ Tail(<<p, q>>) \in Seq({p, q})
      /\ Len(Tail(<<p, q>>)) = 1
      /\ Tail(<<p, q>>)[1] = q
  BY <1>2, HeadTailProperties
<1>4. <<q>> \in Seq({p, q}) /\ Len(<<q>>) = 1 /\ <<q>>[1] = q
  OBVIOUS
<1>5. Tail(<<p, q>>) = <<q>>
  BY <1>3, <1>4, SeqEqual
<1> QED
  BY <1>1, <1>5

\* A length and the answer behind it.
LEMMA BothPieces ==
  ASSUME NEW p, NEW q
  PROVE  Append(<<p>>, q) = <<p, q>>
<1>1. <<p>> \in Seq({p, q}) /\ Len(<<p>>) = 1 /\ <<p>>[1] = p
  OBVIOUS
<1>2. /\ Append(<<p>>, q) \in Seq({p, q})
      /\ Len(Append(<<p>>, q)) = 2
      /\ Append(<<p>>, q)[1] = p
      /\ Append(<<p>>, q)[2] = q
  BY <1>1, AppendProperties
<1>3. /\ <<p, q>> \in Seq({p, q}) /\ Len(<<p, q>>) = 2
      /\ <<p, q>>[1] = p /\ <<p, q>>[2] = q
  OBVIOUS
<1>4. \A i \in 1..2 : Append(<<p>>, q)[i] = <<p, q>>[i]
  BY <1>2, <1>3
<1> DEFINE s == Append(<<p>>, q)  t == <<p, q>>
<1>5. /\ s \in Seq({p, q}) /\ t \in Seq({p, q}) /\ Len(s) = Len(t)
      /\ \A i \in 1..Len(s) : s[i] = t[i]
  BY <1>2, <1>3, <1>4
<1> HIDE DEF s, t
<1>6. s = t
  BY <1>5, SeqEqual
<1> QED
  BY <1>6 DEF s, t

\* Nobody has connected and nothing is banned.
LEMMA InitHolds == Init => IInv
<1> SUFFICES ASSUME Init PROVE IInv
  OBVIOUS
<1> USE DEF Init, SocketInit, NoBans
<1>1. TypeOK
  BY RequestAssumption, SocketAssumption DEF TypeOK
<1>2. ArrivalInv /\ PeerInv /\ AppliedInv
  BY DEF ArrivalInv, PeerInv, AppliedInv, Past, Serving
<1>3. AppliedSet = {}
  BY DEF AppliedSet
<1>4. \A c \in Client : ClientInv(c) /\ InboxInv(c)
  BY <1>3 DEF ClientInv, InboxInv, Open, Connected
<1> QED
  BY <1>1, <1>2, <1>4 DEF IInv

\* A step of a client that is connected, or is refused: it moves on, writes a
\* piece or reads one, and the task and the order of arrivals are untouched.
LEMMA ClientKeeps ==
  ASSUME IInv, NEW c \in Client,
         Refused(c) \/ WriteLen(c) \/ WriteBody(c) \/ ReadLen(c)
           \/ ReadBody(c) \/ CliError(c) \/ Interrupt(c)
  PROVE  IInv'
<1> USE DEF IInv
<1>1. /\ UNCHANGED <<bans, utc, STATS, daemonVars, historyVars, request, closed>>
      /\ \E to \in {"write_body", "read_len", "read_body", "done", "failed"} :
           cli' = [cli EXCEPT ![c] = to]
  BY DEF Refused, WriteLen, WriteBody, ReadLen, ReadBody, CliError, Interrupt,
         CliWrite, CliGoto, streamVars
<1>2. /\ task' = task /\ peer' = peer /\ resp' = resp /\ request' = request
      /\ answer' = answer /\ arrived' = arrived /\ applied' = applied
      /\ queue' = queue /\ AppliedSet' = AppliedSet /\ Past' = Past
  BY <1>1 DEF daemonVars, historyVars, AppliedSet, Past
<1>3. ArrivalInv' /\ AppliedInv'
  <2>1. ArrivalInv'
    BY <1>1, <1>2 DEF ArrivalInv, TypeOK
  <2>2. AppliedInv'
    BY <1>2 DEF AppliedInv
  <2> QED
    BY <2>1, <2>2
<1>4. CASE Refused(c) \/ CliError(c) \/ Interrupt(c)
  <2>1. /\ cli' = [cli EXCEPT ![c] = "failed"]
        /\ UNCHANGED <<sent, result, inbox>>
    BY <1>4 DEF Refused, CliError, Interrupt, CliGoto, streamVars
  <2>2. TypeOK'
    BY <1>1, <2>1 DEF TypeOK, daemonVars, historyVars
  <2>3. PeerInv'
    BY <1>2, <2>1 DEF PeerInv
  <2>4. ASSUME NEW d \in Client
        PROVE  ClientInv(d)' /\ InboxInv(d)'
    BY <1>2, <2>1 DEF ClientInv, InboxInv, Open, Connected, TypeOK
  <2> QED
    BY <1>3, <2>2, <2>3, <2>4
<1>5. CASE WriteLen(c) \/ WriteBody(c)
  <2>1. /\ \/ cli[c] = "write_len" /\ cli' = [cli EXCEPT ![c] = "write_body"]
           \/ cli[c] = "write_body" /\ cli' = [cli EXCEPT ![c] = "read_len"]
        /\ sent' = [sent EXCEPT ![c] = @ + 1]
        /\ UNCHANGED <<result, inbox>>
    BY <1>5 DEF WriteLen, WriteBody, CliWrite, CliGoto, streamVars
  <2>2. sent[c] \in {0, 1}
    BY <2>1 DEF ClientInv
  <2>3. TypeOK'
    BY <1>1, <2>1, <2>2 DEF TypeOK, Connected, daemonVars, historyVars
  <2>4. PeerInv'
    BY <1>2, <2>1, <2>2 DEF PeerInv, ArrivalInv, TypeOK, Past
  <2>5. ASSUME NEW d \in Client
        PROVE  ClientInv(d)' /\ InboxInv(d)'
    BY <1>2, <2>1, <2>2 DEF ClientInv, InboxInv, Open, Connected, TypeOK
  <2> QED
    BY <1>3, <2>3, <2>4, <2>5
<1>6. CASE ReadLen(c)
  <2> USE <1>6 DEF ReadLen, CliGoto
  <2>1. inbox[c] \in {<<LenPiece>>, <<LenPiece, answer[c]>>}
    BY DEF InboxInv, Open, Connected
  <2>2. c \in AppliedSet
    BY <2>1 DEF InboxInv, Open, Connected
  <2>3. Tail(inbox[c]) \in {<< >>, <<answer[c]>>}
    BY <2>1, TailOfPieces
  <2>4. TypeOK'
    BY <1>1, <2>2, <2>3 DEF TypeOK, Connected, ClientInv, daemonVars, historyVars
  <2>5. PeerInv'
    BY <1>2 DEF PeerInv
  <2>6. ASSUME NEW d \in Client
        PROVE  ClientInv(d)' /\ InboxInv(d)'
    BY <1>2, <2>1, <2>2, <2>3 DEF ClientInv, InboxInv, Open, Connected, TypeOK
  <2> QED
    BY <1>3, <2>4, <2>5, <2>6
<1>7. CASE ReadBody(c)
  <2> USE <1>7 DEF ReadBody, CliGoto
  <2>1. inbox[c] = <<answer[c]>>
    BY DEF InboxInv, Open, Connected
  <2>2. c \in AppliedSet
    BY <2>1 DEF InboxInv, Open, Connected
  <2>3. Tail(inbox[c]) = << >> /\ Head(inbox[c]) \in Responses
    BY <2>1, <2>2 DEF ClientInv
  <2>4. TypeOK'
    BY <1>1, <2>3 DEF TypeOK, Connected, daemonVars, historyVars
  <2>5. PeerInv'
    BY <1>2 DEF PeerInv
  <2>6. ASSUME NEW d \in Client
        PROVE  ClientInv(d)' /\ InboxInv(d)'
    BY <1>2, <2>2 DEF ClientInv, InboxInv, Open, Connected, TypeOK
  <2> QED
    BY <1>3, <2>4, <2>5, <2>6
<1> QED
  BY <1>4, <1>5, <1>6, <1>7

\* The elements of a sequence, by position.
LEMMA Elements ==
  ASSUME NEW S, NEW s \in Seq(S)
  PROVE  \A e : e \in {s[i] : i \in DOMAIN s} <=> \E i \in 1..Len(s) : s[i] = e
<1>1. DOMAIN s = 1..Len(s)
  BY LenProperties
<1> QED
  BY <1>1

\* The clients in applied have arrived.
LEMMA AppliedHaveArrived ==
  ASSUME IInv
  PROVE  \A c \in AppliedSet : \E m \in 1..Len(arrived) : arrived[m] = c
<1>1. applied \in Seq(Client)
  BY DEF IInv, TypeOK
<1>2. \A c \in AppliedSet : \E i \in 1..Len(applied) : applied[i] = c
  BY <1>1, Elements DEF AppliedSet
<1> QED
  BY <1>2 DEF IInv, AppliedInv

\* A new client is the last one of arrived and of the queue.
LEMMA ConnectKeeps ==
  ASSUME IInv, NEW c \in Client, Connect(c)
  PROVE  IInv'
<1> USE DEF IInv, Connect, CliGoto
<1>1. \A m \in 1..Len(arrived) : arrived[m] # c
  BY DEF ArrivalInv
<1>2. c \notin AppliedSet
  BY <1>1, AppliedHaveArrived
<1>3. /\ Len(arrived') = Len(arrived) + 1 /\ arrived'[Len(arrived) + 1] = c
      /\ \A m \in 1..Len(arrived) : arrived'[m] = arrived[m]
      /\ Len(queue') = Len(queue) + 1 /\ queue'[Len(queue) + 1] = c
      /\ \A j \in 1..Len(queue) : queue'[j] = queue[j]
      /\ Len(arrived) \in Nat /\ Len(queue) \in Nat
  BY DEF TypeOK
<1>4. Past' = Past /\ Past <= Len(arrived) /\ Past \in Nat
  BY <1>3 DEF Past, ArrivalInv
<1>5. AppliedSet' = AppliedSet
  BY DEF AppliedSet
<1>6. TypeOK'
  BY DEF TypeOK, Connected, streamVars
<1>7. ArrivalInv'
  <2>1. \A m, n \in 1..Len(arrived') : arrived'[m] = arrived'[n] => m = n
    BY <1>1, <1>3 DEF ArrivalInv
  <2>2. \A m \in 1..Len(arrived') : cli'[arrived'[m]] # "start"
    BY <1>3 DEF ArrivalInv, TypeOK
  <2>3. \A j \in 1..Len(queue') : queue'[j] = arrived'[Past' + j]
    <3>1. \A j \in 1..Len(queue) : Past + j \in 1..Len(arrived)
      BY <1>3, <1>4 DEF Past
    <3>2. Past + Len(queue) + 1 = Len(arrived) + 1
      BY <1>3 DEF Past
    <3>3. ASSUME NEW j \in 1..Len(queue')
          PROVE  queue'[j] = arrived'[Past + j]
      <4>1. CASE j = Len(queue) + 1
        <5>1. Past + j = Len(arrived) + 1
          BY <1>3, <1>4, <3>2, <4>1
        <5> QED
          BY <1>3, <4>1, <5>1
      <4>2. CASE j \in 1..Len(queue)
        BY <1>3, <3>1, <4>2 DEF ArrivalInv
      <4>3. j = Len(queue) + 1 \/ j \in 1..Len(queue)
        <5> HIDE DEF Connect
        <5> QED
          BY <1>3
      <4> QED
        BY <4>1, <4>2, <4>3
    <3> QED
      BY <1>4, <3>3
  <2> QED
    BY <1>4, <2>1, <2>2, <2>3 DEF ArrivalInv
<1>8. PeerInv'
  BY <1>3, <1>4, <1>5 DEF PeerInv
<1>9. AppliedInv'
  BY <1>3, <1>4 DEF AppliedInv
<1>10. ASSUME NEW d \in Client
       PROVE  ClientInv(d)' /\ InboxInv(d)'
  <2>1. ClientInv(d)'
    <3>1. CASE d = c
      BY <1>2, <1>5, <3>1 DEF ClientInv, TypeOK
    <3>2. CASE d # c
      <4>1. /\ cli'[d] = cli[d] /\ sent'[d] = sent[d]
            /\ request'[d] = request[d] /\ answer'[d] = answer[d]
        BY <3>2 DEF TypeOK
      <4>2. \A m \in 1..Len(arrived') : arrived'[m] = d =>
              m \in 1..Len(arrived) /\ arrived[m] = d
        BY <1>3, <3>2
      <4> QED
        BY <1>5, <4>1, <4>2 DEF ClientInv
    <3> QED
      BY <3>1, <3>2
  <2>2. InboxInv(d)'
    BY <1>2, <1>5 DEF InboxInv, TypeOK, streamVars
  <2> QED
    BY <2>1, <2>2
<1> QED
  BY <1>6, <1>7, <1>8, <1>9, <1>10

\* While it serves, the task has a client.
LEMMA PeerIsClient ==
  ASSUME IInv, task \in Serving
  PROVE  /\ peer \in Client
         /\ Past \in 1..Len(arrived)
         /\ peer = arrived[Past]
BY DEF IInv, PeerInv, ArrivalInv, Past, TypeOK

\* A request is handled for the first time.
LEMMA RespondApplies ==
  ASSUME IInv, task = "handle", NEW r, Respond(r)
  PROVE  AppliedSet' = AppliedSet \cup {peer} /\ peer \notin AppliedSet
<1> USE DEF IInv
<1>1. /\ Past \in 1..Len(arrived) /\ peer = arrived[Past] /\ peer \in Client
  BY PeerIsClient DEF Serving
<1>2. \A i \in 1..Len(applied) : applied[i] # peer
  BY <1>1 DEF AppliedInv, ArrivalInv, Before
<1>3. /\ Len(applied') = Len(applied) + 1 /\ applied'[Len(applied) + 1] = peer
      /\ \A i \in 1..Len(applied) : applied'[i] = applied[i]
      /\ Len(applied) \in Nat /\ applied' \in Seq(Client)
  BY <1>1 DEF TypeOK, Respond
<1>4. AppliedSet' = AppliedSet \cup {peer} /\ peer \notin AppliedSet
  <2>1. /\ \A e : e \in AppliedSet <=> \E i \in 1..Len(applied) : applied[i] = e
        /\ \A e : e \in AppliedSet' <=> \E i \in 1..Len(applied') : applied'[i] = e
    <3>1. applied \in Seq(Client) /\ applied' \in Seq(Client)
      BY <1>3 DEF TypeOK
    <3>2. \A e : e \in AppliedSet <=> \E i \in 1..Len(applied) : applied[i] = e
      BY <3>1, Elements DEF AppliedSet
    <3>3. \A e : e \in AppliedSet' <=> \E i \in 1..Len(applied') : applied'[i] = e
      BY <3>1, Elements DEF AppliedSet
    <3> QED
      BY <3>2, <3>3
  <2>2. \A e : e \in AppliedSet' <=> e \in AppliedSet \cup {peer}
    <3>1. 1..Len(applied') = 1..Len(applied) \cup {Len(applied) + 1}
      BY <1>3
    <3> QED
      BY <1>3, <2>1, <3>1
  <2> QED
    BY <1>2, <2>1, <2>2
<1> QED
  BY <1>4

\* A request is handled: the peer comes last in applied, and has its answer.
LEMMA RespondKeeps ==
  ASSUME IInv, task = "handle", NEW r \in Responses, Respond(r),
         bans' \in [IP -> 0..(Word - 1) \cup {Absent}]
  PROVE  IInv'
<1> USE DEF IInv, Respond
<1>1. /\ Past \in 1..Len(arrived) /\ peer = arrived[Past] /\ sent[peer] = 2
      /\ peer \in Client
  BY DEF PeerInv, ArrivalInv, Serving, Past, TypeOK
<1>2. /\ Len(applied') = Len(applied) + 1 /\ applied'[Len(applied) + 1] = peer
      /\ \A i \in 1..Len(applied) : applied'[i] = applied[i]
      /\ Len(applied) \in Nat /\ applied' \in Seq(Client)
  BY <1>1 DEF TypeOK
<1>3. AppliedSet' = AppliedSet \cup {peer} /\ peer \notin AppliedSet
  BY RespondApplies
<1>4. TypeOK'
  BY <1>1, <1>2 DEF TypeOK, clientVars, streamVars
<1>5. ArrivalInv'
  BY DEF ArrivalInv, Past, clientVars
<1>6. PeerInv'
  BY <1>1, <1>3 DEF PeerInv, Past, TypeOK, clientVars
<1>7. AppliedInv'
  <2> SUFFICES ASSUME NEW i \in 1..Len(applied')
               PROVE  \E m \in 1..Len(arrived) :
                        /\ applied'[i] = arrived[m]
                        /\ m <= Past
                        /\ \A j \in 1..Len(applied') : \A n \in 1..Len(arrived) :
                             i < j /\ applied'[j] = arrived[n] => m < n
    <3>1. /\ arrived' = arrived /\ Past' = Past
          /\ task' \notin Before
      BY DEF Past, Before
    <3> HIDE DEF Respond
    <3> QED
      BY <3>1 DEF AppliedInv
  <2>1. CASE i = Len(applied) + 1
    BY <1>1, <1>2, <2>1
  <2>2. CASE i \in 1..Len(applied)
    <3>1. PICK m \in 1..Len(arrived) :
            /\ applied[i] = arrived[m]
            /\ m <= Past
            /\ m < Past
            /\ \A j \in 1..Len(applied) : \A n \in 1..Len(arrived) :
                 i < j /\ applied[j] = arrived[n] => m < n
      BY <2>2 DEF AppliedInv, Before
    <3>2. \A n \in 1..Len(arrived) : arrived[n] = peer => n = Past
      BY <1>1 DEF ArrivalInv
    <3> QED
      BY <1>2, <2>2, <3>1, <3>2
  <2> QED
    BY <1>2, <2>1, <2>2
<1>8. ASSUME NEW d \in Client
      PROVE  ClientInv(d)' /\ InboxInv(d)'
  <2>1. ClientInv(d)'
    BY <1>1, <1>3 DEF ClientInv, TypeOK, clientVars
  <2>2. InboxInv(d)'
    BY <1>1, <1>3 DEF InboxInv, ClientInv, TypeOK, clientVars, streamVars
  <2> QED
    BY <2>1, <2>2
<1> QED
  BY <1>4, <1>5, <1>6, <1>7, <1>8

\* The task or the process ends: nobody is queued and nobody is served.
LEMMA DropKeeps ==
  ASSUME IInv, DropAllStreams, task' \in {"down", "panicked"},
         bans' \in [IP -> 0..(Word - 1) \cup {Absent}],
         UNCHANGED <<utc, STATS, starts, clientVars, historyVars>>
  PROVE  IInv'
<1> USE DEF IInv
<1>1. /\ queue' = << >> /\ peer' = Absent /\ resp' = Absent /\ inbox' = inbox
      /\ cli' = cli /\ request' = request /\ sent' = sent
      /\ arrived' = arrived /\ applied' = applied /\ answer' = answer
  BY DEF DropAllStreams, clientVars, historyVars
<1>2. /\ AppliedSet' = AppliedSet
      /\ Len(queue') = 0 /\ Len(arrived) \in Nat /\ Past' = Len(arrived)
      /\ Past <= Len(arrived)
      /\ task' \notin Serving /\ task' \notin Before
  BY <1>1 DEF AppliedSet, Past, ArrivalInv, TypeOK, Serving, Before
<1>3. TypeOK'
  <2>1. {queue[i] : i \in DOMAIN queue} \subseteq Client
    BY DEF TypeOK
  <2>2. closed' \subseteq Client
    BY <2>1 DEF TypeOK, DropAllStreams
  <2> QED
    BY <1>1, <2>2 DEF TypeOK, clientVars
<1>4. ArrivalInv' /\ PeerInv'
  BY <1>1, <1>2 DEF ArrivalInv, PeerInv
<1>5. AppliedInv'
  BY <1>1, <1>2 DEF AppliedInv
<1>6. ASSUME NEW d \in Client
      PROVE  ClientInv(d)' /\ InboxInv(d)'
  BY <1>1, <1>2 DEF ClientInv, InboxInv
<1> QED
  BY <1>3, <1>4, <1>5, <1>6

\* The task takes the oldest connection of the queue.
LEMMA AcceptKeeps ==
  ASSUME IInv, Accept
  PROVE  IInv'
<1> USE DEF IInv
<1>1. /\ task = "accept" /\ task' = "len" /\ resp' = resp
      /\ queue # << >> /\ peer' = Head(queue) /\ queue' = Tail(queue)
      /\ cli' = cli /\ request' = request /\ sent' = sent /\ inbox' = inbox
      /\ arrived' = arrived /\ applied' = applied /\ answer' = answer
      /\ UNCHANGED <<bans, utc, STATS, starts, result, closed>>
  BY DEF Accept, TaskGoto, clientVars, streamVars, historyVars
<1>2. /\ AppliedSet' = AppliedSet
      /\ Len(queue') = Len(queue) - 1 /\ Len(queue) \in Nat \ {0}
      /\ queue' \in Seq(Client)
      /\ \A j \in 1..Len(queue') : queue'[j] = queue[j + 1]
      /\ Len(arrived) \in Nat
      /\ peer' = queue[1] /\ peer' \in Client
  BY <1>1, HeadTailProperties DEF AppliedSet, TypeOK
<1>3. Past' = Past + 1 /\ Past \in Nat
  BY <1>1, <1>2 DEF Past, ArrivalInv
<1>4. TypeOK'
  BY <1>1, <1>2 DEF TypeOK
<1>5. ArrivalInv'
  <2>1. \A j \in 1..Len(queue') : queue'[j] = arrived[Past' + j]
    BY <1>2, <1>3 DEF ArrivalInv
  <2> QED
    BY <1>1, <1>3, <2>1 DEF ArrivalInv
<1>6. PeerInv'
  <2>1. peer' = arrived[Past']
    BY <1>2, <1>3 DEF ArrivalInv
  <2> QED
    BY <1>1, <1>3, <2>1 DEF PeerInv, Before
<1>7. AppliedInv'
  <2>1. ASSUME NEW i \in 1..Len(applied), NEW m \in 1..Len(arrived), m <= Past
        PROVE  m <= Past' /\ m < Past'
    BY <1>3, <2>1
  <2> QED
    BY <1>1, <2>1 DEF AppliedInv
<1>8. ASSUME NEW d \in Client
      PROVE  ClientInv(d)' /\ InboxInv(d)'
  BY <1>1, <1>2 DEF ClientInv, InboxInv
<1> QED
  BY <1>4, <1>5, <1>6, <1>7, <1>8

\* A piece of the request has come.
LEMMA ReadRequestKeeps ==
  ASSUME IInv, ReadRequestLen \/ ReadRequestBody
  PROVE  IInv'
<1> USE DEF IInv
<1>1. /\ task \in {"len", "body"} /\ task' \in {"body", "handle"}
      /\ task' = "handle" => sent[peer] >= 2
      /\ peer' = peer /\ resp' = resp /\ queue' = queue
      /\ cli' = cli /\ request' = request /\ sent' = sent /\ inbox' = inbox
      /\ arrived' = arrived /\ applied' = applied /\ answer' = answer
      /\ UNCHANGED <<bans, utc, STATS, starts, result, closed>>
  BY DEF ReadRequestLen, ReadRequestBody, ReadRequest, TaskGoto, clientVars,
         streamVars, historyVars
<1>2. AppliedSet' = AppliedSet /\ Past' = Past
  BY <1>1 DEF AppliedSet, Past
<1>3. TypeOK'
  BY <1>1 DEF TypeOK
<1>4. ArrivalInv'
  BY <1>1, <1>2 DEF ArrivalInv
<1>5. PeerInv'
  <2>1. Past \in 1..Len(arrived) /\ peer = arrived[Past]
    BY <1>1 DEF PeerInv, Serving, Past, ArrivalInv, TypeOK
  <2>2. sent[peer] \in 0..2
    BY <2>1 DEF TypeOK
  <2>3. sent[peer] >= 2 => sent[peer] = 2
    BY <2>2
  <2> QED
    BY <1>1, <1>2, <2>1, <2>3 DEF PeerInv, Before
<1>6. AppliedInv'
  BY <1>1, <1>2 DEF AppliedInv, Before
<1>7. ASSUME NEW d \in Client
      PROVE  ClientInv(d)' /\ InboxInv(d)'
  BY <1>1, <1>2 DEF ClientInv, InboxInv
<1> QED
  BY <1>3, <1>4, <1>5, <1>6, <1>7

\* The stream is dropped, with the answer written to its end or without.
LEMMA NextIterationKeeps ==
  ASSUME IInv, ReadRequestFailed \/ WriteResponseFailed \/ WriteResponseBody
  PROVE  IInv'
<1> USE DEF IInv
<1>1. /\ task \in Serving
      /\ task' = "accept" /\ peer' = Absent /\ resp' = Absent /\ queue' = queue
      /\ closed' = closed \cup {peer}
      /\ cli' = cli /\ request' = request /\ sent' = sent
      /\ arrived' = arrived /\ applied' = applied /\ answer' = answer
      /\ UNCHANGED <<bans, utc, STATS, starts, result>>
  BY DEF ReadRequestFailed, WriteResponseFailed, WriteResponseBody,
         NextIteration, Serving, clientVars, historyVars
<1>2. /\ AppliedSet' = AppliedSet /\ Past' = Past
      /\ task' \notin Serving /\ task' \notin Before
  BY <1>1 DEF AppliedSet, Past, Serving, Before
<1>3. /\ peer \in Client
      /\ \/ inbox' = inbox
         \/ /\ task = "respond_body" /\ resp = answer[peer] /\ peer \in AppliedSet
            /\ Open(peer)
            /\ inbox' = [inbox EXCEPT ![peer] = Append(@, resp)]
  BY <1>1, PeerIsClient
     DEF ReadRequestFailed, WriteResponseFailed, WriteResponseBody, PeerInv, Before
<1>4. inbox' = inbox \/
      \E pieces \in {<<answer[peer]>>, <<LenPiece, answer[peer]>>} :
        /\ inbox' = [inbox EXCEPT ![peer] = pieces]
        /\ cli[peer] \in Connected /\ peer \in AppliedSet
        /\ pieces = IF cli[peer] = "read_body" THEN <<answer[peer]>>
                     ELSE <<LenPiece, answer[peer]>>
  <2>1. Append(<< >>, answer[peer]) = <<answer[peer]>>
    OBVIOUS
  <2>2. Append(<<LenPiece>>, answer[peer]) = <<LenPiece, answer[peer]>>
    BY BothPieces
  <2>3. task = "respond_body" /\ Open(peer) =>
          inbox[peer] = IF cli[peer] = "read_body" THEN << >> ELSE <<LenPiece>>
    BY <1>3 DEF InboxInv, Open, Connected
  <2> QED
    BY <1>3, <2>1, <2>2, <2>3 DEF Open
<1>5. TypeOK'
  <2>1. inbox' \in [Client -> Seq(Responses \cup {LenPiece})]
    <3>1. peer \in AppliedSet => answer[peer] \in Responses
      BY <1>3 DEF ClientInv
    <3>2. peer \in AppliedSet =>
            /\ <<answer[peer]>> \in Seq(Responses \cup {LenPiece})
            /\ <<LenPiece, answer[peer]>> \in Seq(Responses \cup {LenPiece})
      BY <3>1
    <3>3. inbox \in [Client -> Seq(Responses \cup {LenPiece})]
      BY DEF TypeOK
    <3> QED
      BY <1>3, <1>4, <3>2, <3>3
  <2> QED
    BY <1>1, <1>3, <2>1 DEF TypeOK
<1>6. ArrivalInv' /\ PeerInv' /\ AppliedInv'
  <2>1. ArrivalInv'
    BY <1>1, <1>2 DEF ArrivalInv
  <2>2. PeerInv'
    BY <1>2 DEF PeerInv
  <2>3. AppliedInv'
    BY <1>1, <1>2 DEF AppliedInv
  <2> QED
    BY <2>1, <2>2, <2>3
<1>7. ASSUME NEW d \in Client
      PROVE  ClientInv(d)' /\ InboxInv(d)'
  <2>1. ClientInv(d)'
    BY <1>1, <1>2 DEF ClientInv
  <2>2. InboxInv(d)'
    BY <1>1, <1>2, <1>3, <1>4 DEF InboxInv, TypeOK
  <2> QED
    BY <2>1, <2>2
<1> QED
  BY <1>5, <1>6, <1>7

\* The length of the answer is written to a stream that has nothing in it.
LEMMA WriteLenKeeps ==
  ASSUME IInv, WriteResponseLen
  PROVE  IInv'
<1> USE DEF IInv
<1>1. /\ task = "respond_len" /\ task' = "respond_body"
      /\ inbox' = [inbox EXCEPT ![peer] = Append(@, LenPiece)]
      /\ Open(peer)
      /\ peer' = peer /\ resp' = resp /\ queue' = queue
      /\ cli' = cli /\ request' = request /\ sent' = sent
      /\ arrived' = arrived /\ applied' = applied /\ answer' = answer
      /\ UNCHANGED <<bans, utc, STATS, starts, result, closed>>
  BY DEF WriteResponseLen, TaskGoto, clientVars, historyVars
<1>2. /\ AppliedSet' = AppliedSet /\ Past' = Past
      /\ peer \in Client /\ peer \in AppliedSet
  BY <1>1, PeerIsClient DEF AppliedSet, Past, PeerInv, Serving, Before
<1>3. inbox[peer] = << >> /\ cli[peer] # "read_body"
  BY <1>1, <1>2 DEF InboxInv, Open, Connected
<1>4. inbox' = [inbox EXCEPT ![peer] = <<LenPiece>>]
  BY <1>1, <1>2, <1>3
<1>5. TypeOK'
  BY <1>1, <1>2, <1>4 DEF TypeOK
<1>6. ArrivalInv' /\ PeerInv' /\ AppliedInv'
  <2>1. ArrivalInv'
    BY <1>1, <1>2 DEF ArrivalInv
  <2>2. PeerInv'
    BY <1>1, <1>2 DEF PeerInv, Before, Serving
  <2>3. AppliedInv'
    BY <1>1, <1>2 DEF AppliedInv, Before
  <2> QED
    BY <2>1, <2>2, <2>3
<1>7. ASSUME NEW d \in Client
      PROVE  ClientInv(d)' /\ InboxInv(d)'
  <2>1. ClientInv(d)'
    BY <1>1, <1>2 DEF ClientInv
  <2>2. InboxInv(d)'
    BY <1>1, <1>2, <1>3, <1>4 DEF InboxInv, TypeOK
  <2> QED
    BY <2>1, <2>2
<1> QED
  BY <1>5, <1>6, <1>7

\* Every branch of the handler.
LEMMA HandleKeeps ==
  ASSUME IInv,
         HandleBan \/ HandleUnban \/ HandleBadTarget
           \/ HandleList \/ HandleStats \/ HandleMalformed
  PROVE  IInv'
<1>1. /\ bans \in [IP -> 0..(Word - 1) \cup {Absent}] /\ utc \in Nat
      /\ STATS \in 0..(Word - 1) \cup {Absent}
  BY SocketAssumption DEF IInv, TypeOK
<1>2. task = "handle"
  BY DEF HandleBan, HandleUnban, HandleBadTarget, HandleList, HandleStats,
         HandleMalformed, Handling
<1>3. request[peer] \in Requests
  BY <1>2, PeerIsClient DEF IInv, ClientInv, Serving
<1>4. CASE HandleBan
  <2>1. request[peer].ttl \in Ttls \cup {NoTtl}
    BY <1>3, <1>4, BanHasTtl DEF HandleBan, Handling
  <2>2. EndTime(get_boot_time_ns(utc), request[peer].ttl) \in 0..(Word - 1)
    BY <1>1, <2>1, EndTimeIsU64
  <2>3. bans' \in [IP -> 0..(Word - 1) \cup {Absent}]
    BY <1>1, <1>4, <2>2 DEF HandleBan
  <2>4. Respond(Ok)
    BY <1>4 DEF HandleBan
  <2> QED
    BY <1>2, <2>3, <2>4, AnswersAreResponses, RespondKeeps
<1>5. CASE HandleUnban
  <2>1. bans' \in [IP -> 0..(Word - 1) \cup {Absent}]
    BY <1>1, <1>5 DEF HandleUnban
  <2> QED
    BY <1>2, <1>5, <2>1, AnswersAreResponses, RespondKeeps DEF HandleUnban
<1>6. CASE HandleBadTarget \/ HandleList \/ HandleStats \/ HandleMalformed
  <2>1. bans' \in [IP -> 0..(Word - 1) \cup {Absent}]
    BY <1>1, <1>6
       DEF HandleBadTarget, HandleList, HandleStats, HandleMalformed
  <2>2. \E r \in Responses : Respond(r)
    BY <1>1, <1>6, AnswersAreResponses
       DEF HandleBadTarget, HandleList, HandleStats, HandleMalformed
  <2> QED
    BY <1>2, <2>1, <2>2, RespondKeeps
<1> QED
  BY <1>4, <1>5, <1>6

\* No step leaves IInv.
LEMMA NextKeeps == IInv /\ [Next]_vars => IInv'
<1> SUFFICES ASSUME IInv, [Next]_vars PROVE IInv'
  OBVIOUS
<1>1. CASE \E c \in Client : ClientStep(c) \/ Interrupt(c)
  BY <1>1, ClientKeeps, ConnectKeeps DEF ClientStep
<1>2. CASE TaskStep
  <2>1. CASE PanicInBan
    BY <2>1, DropKeeps DEF PanicInBan, IInv, TypeOK
  <2> QED
    BY <1>2, <2>1, AcceptKeeps, ReadRequestKeeps, NextIterationKeeps,
       HandleKeeps, WriteLenKeeps DEF TaskStep
<1>3. CASE Start
  <2> USE <1>3 DEF Start, TaskGoto
  <2>1. TypeOK'
    BY SocketAssumption
       DEF IInv, TypeOK, clientVars, streamVars, historyVars
  <2>2. /\ AppliedSet' = AppliedSet /\ Past' = Past
        /\ task' \notin Serving /\ task' \notin Before
    BY DEF AppliedSet, Past, historyVars, Serving, Before
  <2>3. ArrivalInv' /\ PeerInv' /\ AppliedInv'
    <3>1. ArrivalInv'
      BY <2>2 DEF IInv, ArrivalInv, clientVars, historyVars
    <3>2. PeerInv'
      BY <2>2 DEF PeerInv
    <3>3. AppliedInv'
      BY <2>2 DEF IInv, AppliedInv, historyVars
    <3> QED
      BY <3>1, <3>2, <3>3
  <2>4. ASSUME NEW d \in Client
        PROVE  ClientInv(d)' /\ InboxInv(d)'
    BY <2>2 DEF IInv, ClientInv, InboxInv, clientVars, streamVars, historyVars
  <2> QED
    BY <2>1, <2>3, <2>4 DEF IInv
<1>4. CASE Stop
  <2>1. bans' \in [IP -> 0..(Word - 1) \cup {Absent}]
    BY <1>4 DEF Stop, NoBans
  <2> QED
    BY <1>4, <2>1, DropKeeps DEF Stop
<1>5. CASE SetClock \/ UNCHANGED vars
  <2>1. /\ UNCHANGED <<bans, STATS, task, queue, peer, resp, starts, cli, request,
                       sent, inbox, closed, result, arrived, applied, answer>>
        /\ utc' \in UtcTimes
    BY <1>5 DEF SetClock, vars, socketVars, daemonVars, clientVars, streamVars,
                historyVars, IInv, TypeOK
  <2>2. AppliedSet' = AppliedSet /\ Past' = Past
    BY <2>1 DEF AppliedSet, Past
  <2>3. TypeOK'
    BY <2>1 DEF IInv, TypeOK
  <2>4. ArrivalInv' /\ PeerInv' /\ AppliedInv'
    <3>1. ArrivalInv'
      BY <2>1, <2>2 DEF IInv, ArrivalInv
    <3>2. PeerInv'
      BY <2>1, <2>2 DEF IInv, PeerInv
    <3>3. AppliedInv'
      BY <2>1, <2>2 DEF IInv, AppliedInv
    <3> QED
      BY <3>1, <3>2, <3>3
  <2>5. ASSUME NEW d \in Client
        PROVE  ClientInv(d)' /\ InboxInv(d)'
    BY <2>1, <2>2 DEF IInv, ClientInv, InboxInv
  <2> QED
    BY <2>3, <2>4, <2>5 DEF IInv
<1> QED
  BY <1>1, <1>2, <1>3, <1>4, <1>5 DEF Next

-----------------------------------------------------------------------------

\* IInv holds in every reachable state.
LEMMA Invariance == Spec => []IInv
BY InitHolds, NextKeeps, PTL DEF Spec

\* What a client has printed is always a DaemonResponse, the end_time of every
\* ban is a u64, and a response is written only while there is one.
THEOREM SocketTypes == Spec => []TypeOK
<1>1. IInv => TypeOK
  BY DEF IInv
<1> QED
  BY <1>1, Invariance, PTL

\* The accept loop of main.rs 223-302 makes requests take effect in the order
\* in which their clients connected.
THEOREM AlwaysConnectOrder == Spec => []ConnectOrder
<1>1. IInv => ConnectOrder
  <2> SUFFICES ASSUME IInv,
                      NEW i \in DOMAIN applied, NEW j \in DOMAIN applied,
                      NEW m \in DOMAIN arrived, NEW n \in DOMAIN arrived,
                      applied[i] = arrived[m], applied[j] = arrived[n], i < j
               PROVE  m < n
    BY DEF ConnectOrder
  <2>1. /\ i \in 1..Len(applied) /\ j \in 1..Len(applied)
        /\ m \in 1..Len(arrived) /\ n \in 1..Len(arrived)
    <3>1. applied \in Seq(Client) /\ arrived \in Seq(Client)
      BY DEF IInv, TypeOK
    <3>2. DOMAIN applied = 1..Len(applied) /\ DOMAIN arrived = 1..Len(arrived)
      BY <3>1, LenProperties
    <3> QED
      BY <3>2
  <2>2. PICK k \in 1..Len(arrived) :
          /\ applied[i] = arrived[k]
          /\ \A h \in 1..Len(applied) : \A l \in 1..Len(arrived) :
               i < h /\ applied[h] = arrived[l] => k < l
    BY <2>1 DEF IInv, AppliedInv
  <2>3. k = m
    BY <2>1, <2>2 DEF IInv, ArrivalInv
  <2> QED
    BY <2>1, <2>2, <2>3
<1> QED
  BY <1>1, Invariance, PTL

\* A request takes effect only when the whole of it was written: a client that
\* left earlier (main.rs 232 and 241) has changed nothing.
THEOREM AlwaysWholeRequests == Spec => []OnlyWholeRequests
<1>1. IInv => AppliedSet \subseteq Client
  <2>1. IInv => \A m \in 1..Len(arrived) : arrived[m] \in Client
    BY DEF IInv, TypeOK
  <2> QED
    BY <2>1, AppliedHaveArrived
<1>2. IInv => OnlyWholeRequests
  BY <1>1 DEF OnlyWholeRequests, IInv, ClientInv
<1> QED
  BY <1>2, Invariance, PTL

-----------------------------------------------------------------------------
(* The refinement.                                                         *)

\* BanService has definitions of its own for the table and the responses.
LEMMA SameService ==
  ASSUME NEW b, NEW t, NEW n, NEW r
  PROVE  /\ Service!After(b, t, r) = After(b, t, r)
         /\ Service!Response(b, n, r) = Response(b, n, r)
<1>1. Service!BannedIps(b) = BannedIps(b)
  BY DEF Service!BannedIps, BannedIps
<1>2. \A ttl : Service!EndTime(Service!get_boot_time_ns(t), ttl)
                = EndTime(get_boot_time_ns(t), ttl)
  BY DEF Service!EndTime, EndTime, Service!get_boot_time_ns, get_boot_time_ns
<1>3. Service!After(b, t, r) = After(b, t, r)
  <2>1. Service!Cardinality(BannedIps(b)) = Cardinality(BannedIps(b))
    BY DEF Service!Cardinality, Cardinality
  <2> QED
    BY <1>1, <1>2, <2>1 DEF Service!After, After
<1>4. Service!Response(b, n, r) = Response(b, n, r)
  BY <1>1 DEF Service!Response, Response, Service!Ok, Ok, Service!Error, Error,
              Service!List, List, Service!Stats, Stats
<1> QED
  BY <1>3, <1>4

\* The branches of the handler, taken together, are After and Response.
LEMMA HandleComputes ==
  ASSUME IInv,
         HandleBan \/ HandleUnban \/ HandleBadTarget
           \/ HandleList \/ HandleStats \/ HandleMalformed
  PROVE  /\ bans' = After(bans, utc, request[peer])
         /\ Respond(Response(bans, STATS, request[peer]))
<1> USE DEF Handling
<1>1. CASE HandleBan
  BY <1>1 DEF HandleBan, HasRoom, After, Response
<1>2. CASE HandleUnban
  BY <1>2 DEF HandleUnban, After, Response
<1>3. CASE HandleBadTarget
  BY <1>3 DEF HandleBadTarget, After, Response
<1>4. CASE HandleList
  BY <1>4 DEF HandleList, After, Response
<1>5. CASE HandleStats
  BY <1>5 DEF HandleStats, After, Response
<1>6. CASE HandleMalformed
  BY <1>6 DEF HandleMalformed, After, Response
<1> QED
  BY <1>1, <1>2, <1>3, <1>4, <1>5, <1>6

\* Handling a request is one step of BanService.
LEMMA HandleIsApply ==
  ASSUME IInv,
         HandleBan \/ HandleUnban \/ HandleBadTarget
           \/ HandleList \/ HandleStats \/ HandleMalformed
  PROVE  peer \in Client /\ Service!Apply(peer)
<1> DEFINE r == Response(bans, STATS, request[peer])
<1>1. bans' = After(bans, utc, request[peer]) /\ Respond(r)
  BY HandleComputes
<1> HIDE DEF r
<1>2. task = "handle"
  BY DEF HandleBan, HandleUnban, HandleBadTarget, HandleList, HandleStats,
         HandleMalformed, Handling
<1>3. /\ peer \in Client
      /\ Past \in 1..Len(arrived) /\ peer = arrived[Past]
  BY <1>2, PeerIsClient DEF Serving
<1>4. AppliedSet' = AppliedSet \cup {peer} /\ peer \notin AppliedSet
  BY <1>1, <1>2, RespondApplies
<1>5. request[peer] \in Requests /\ request[peer] # Absent
  BY <1>3, SocketAssumption DEF IInv, ClientInv
<1>6. Status[peer] \in {"waiting", "failed"}
  <2>1. cli[peer] \in Connected \cup {"failed"}
    BY <1>3, <1>4 DEF IInv, ArrivalInv, ClientInv, TypeOK
  <2> QED
    BY <1>3, <2>1 DEF Status, Connected
<1>7. UNCHANGED <<utc, STATS, request, result, Status>>
  BY <1>1 DEF Respond, clientVars, Status
<1>8. answer' = [answer EXCEPT ![peer] = r]
  BY <1>1 DEF Respond
<1> QED
  BY <1>1, <1>3, <1>4, <1>5, <1>6, <1>7, <1>8, SameService DEF Service!Apply, r

\* A step of a client is a step of BanService for it, or none.
LEMMA ClientStepIsService ==
  ASSUME IInv, NEW c \in Client, ClientStep(c) \/ Interrupt(c)
  PROVE  \/ Service!Issue(c) \/ Service!Deliver(c) \/ Service!Fail(c)
         \/ UNCHANGED Service!svcVars
<1>1. AppliedSet' = AppliedSet /\ UNCHANGED <<bans, utc, STATS, answer>>
  BY DEF ClientStep, Connect, Refused, WriteLen, WriteBody, ReadLen, ReadBody,
         CliError, Interrupt, CliWrite, historyVars, AppliedSet
<1>2. cli \in [Client -> Connected \cup {"start", "done", "failed"}]
  BY DEF IInv, TypeOK
<1>3. CASE Connect(c)
  <2>1. Status[c] = "new" /\ Status' = [Status EXCEPT ![c] = "waiting"]
    BY <1>2, <1>3 DEF Connect, CliGoto, Status, Connected
  <2> QED
    BY <1>1, <1>3, <2>1 DEF Service!Issue, Connect
<1>4. CASE Refused(c) \/ CliError(c) \/ Interrupt(c)
  <2>1. /\ cli[c] \in Connected \cup {"start"}
        /\ cli' = [cli EXCEPT ![c] = "failed"]
        /\ UNCHANGED <<request, result>>
    BY <1>4 DEF Refused, CliError, Interrupt, CliGoto, Open, Connected
  <2>2. /\ Status[c] \in {"new", "waiting"}
        /\ Status' = [Status EXCEPT ![c] = "failed"]
    BY <1>2, <2>1 DEF Status, Connected
  <2> QED
    BY <1>1, <2>1, <2>2 DEF Service!Fail
<1>5. CASE WriteLen(c) \/ WriteBody(c) \/ ReadLen(c)
  <2>1. /\ cli[c] \in Connected
        /\ \E to \in Connected : cli' = [cli EXCEPT ![c] = to]
        /\ UNCHANGED <<request, result>>
    BY <1>5 DEF WriteLen, WriteBody, ReadLen, CliWrite, CliGoto, Connected
  <2>2. Status' = Status
    BY <1>2, <2>1 DEF Status, Connected
  <2> QED
    BY <1>1, <2>1, <2>2 DEF Service!svcVars
<1>6. CASE ReadBody(c)
  <2>1. Status[c] = "waiting" /\ Status' = [Status EXCEPT ![c] = "answered"]
    BY <1>2, <1>6 DEF ReadBody, CliGoto, Status, Connected
  <2>2. c \in AppliedSet /\ inbox[c] = <<answer[c]>>
    BY <1>6 DEF ReadBody, CliGoto, IInv, ClientInv, InboxInv
  <2>3. result' = [result EXCEPT ![c] = answer[c]]
    BY <1>6, <2>2 DEF ReadBody
  <2>4. request' = request
    BY <1>6 DEF ReadBody
  <2> QED
    BY <1>1, <2>1, <2>2, <2>3, <2>4 DEF Service!Deliver
<1> QED
  BY <1>3, <1>4, <1>5, <1>6 DEF ClientStep

\* The other steps are steps of BanService too.
LEMMA NextIsService == IInv /\ [Next]_vars => [Service!Next]_Service!svcVars
<1> SUFFICES ASSUME IInv, [Next]_vars
             PROVE  [Service!Next]_Service!svcVars
  OBVIOUS
<1>1. CASE \E c \in Client : ClientStep(c) \/ Interrupt(c)
  BY <1>1, ClientStepIsService DEF Service!Next
<1>2. CASE HandleBan \/ HandleUnban \/ HandleBadTarget
             \/ HandleList \/ HandleStats \/ HandleMalformed
  BY <1>2, HandleIsApply DEF Service!Next
<1>3. CASE \/ Accept \/ ReadRequestLen \/ ReadRequestBody \/ ReadRequestFailed
           \/ PanicInBan \/ Start
           \/ WriteResponseLen \/ WriteResponseBody \/ WriteResponseFailed
  <2>1. UNCHANGED <<bans, utc, STATS, clientVars, historyVars>>
    BY <1>3 DEF Accept, ReadRequestLen, ReadRequestBody, ReadRequest,
                ReadRequestFailed, NextIteration, PanicInBan, Start,
                WriteResponseLen, WriteResponseBody, WriteResponseFailed
  <2> QED
    BY <2>1 DEF Service!svcVars, clientVars, historyVars, AppliedSet, Status
<1>4. CASE Stop
  BY <1>4 DEF Stop, Service!Next, Service!Restart, Service!NoBans, NoBans,
              clientVars, historyVars, AppliedSet, Status
<1>5. CASE SetClock
  BY <1>5, SocketAssumption
     DEF SetClock, Service!Next, Service!Clock, socketVars, clientVars,
         historyVars, AppliedSet, Status
<1>6. CASE UNCHANGED vars
  BY <1>6 DEF vars, socketVars, clientVars, historyVars, AppliedSet, Status,
              Service!svcVars
<1> QED
  BY <1>1, <1>2, <1>3, <1>4, <1>5, <1>6 DEF Next, TaskStep

\* The accept loop and send_command together do what BanService says: each
\* command takes effect at most once and in one step, and a client prints the
\* answer of that step, whoever goes away in between.
THEOREM SocketImplementsService == Spec => ImplementsBanService
<1>1. Init => Service!Init
  <2> SUFFICES ASSUME Init PROVE Service!Init
    OBVIOUS
  <2>1. AppliedSet = {}
    BY DEF Init, SocketInit, AppliedSet
  <2>2. Status = [c \in Client |-> "new"]
    BY DEF Init, SocketInit, Status, Connected
  <2> QED
    BY <2>1, <2>2, SocketAssumption
       DEF Init, SocketInit, Service!Init, Service!NoBans, NoBans
<1> QED
  BY <1>1, Invariance, NextIsService, PTL
     DEF Spec, ImplementsBanService, Service!Spec

=============================================================================
