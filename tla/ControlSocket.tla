--------------------------- MODULE ControlSocket ----------------------------
(***************************************************************************)
(* The Unix-domain control socket: the daemon's accept loop (the task that *)
(* run_daemon spawns) and the command-line clients (send_command), both in *)
(* rustguard/src/main.rs.  The loop serves one connection at a time.  A    *)
(* request and a response each travel as two pieces, a u32 length and a    *)
(* JSON body, and every read or write of a piece is a point where the      *)
(* other side, or the whole process on either side, may go away.           *)
(***************************************************************************)
EXTENDS BanRequest, Sequences

CONSTANTS
  Client,          \* runs of the command-line program, one command each
  Requests,        \* the requests they may make
  Backlog,         \* connections the kernel queues for the listener
  OverflowChecks,  \* builds: TRUE panics on u64 overflow (debug), FALSE wraps
  UtcTimes,        \* the readings of the wall clock
  MaxStarts        \* bound on the number of times the daemon is started

ASSUME SocketAssumption ==
  /\ Requests \subseteq DaemonRequest
  /\ Absent \notin DaemonRequest
  /\ Backlog \in Nat \ {0}
  /\ OverflowChecks \subseteq BOOLEAN
  /\ UtcTimes \subseteq Nat
  /\ MaxStarts \in Nat

VARIABLES
  bans,      \* BANNED_IPS as the daemon sees it: ip to end_time, or Absent
  utc,       \* what Utc::now() returns
  STATS,     \* packets_dropped under key 0 of STATS, or Absent
  \* The daemon:
  task,      \* where the accept loop is; "down" before and after the process
  queue,     \* connections waiting in accept order
  peer,      \* the client of `stream`, Absent outside an iteration
  resp,      \* the local variable resp
  starts,    \* starts of the daemon so far
  \* The clients:
  cli,       \* cli[c]: where send_command is in client c
  request,   \* request[c]: the client's command
  sent,      \* sent[c]: pieces of the request written to the stream
  inbox,     \* inbox[c]: pieces of the response written to the stream
  closed,    \* clients whose stream the daemon's side has dropped
  result,    \* result[c]: the response the client printed
  \* History, read by the properties only:
  arrived,   \* clients in the order they connected
  applied,   \* clients in the order their requests were handled
  answer     \* answer[c]: the response computed for c

daemonVars == <<task, queue, peer, resp, starts>>
clientVars == <<cli, request, sent, result>>
streamVars == <<inbox, closed>>
historyVars == <<arrived, applied, answer>>
socketVars == <<daemonVars, clientVars, streamVars, historyVars>>
vars == <<bans, utc, STATS, socketVars>>

SocketInit ==
  /\ task = "down"
  /\ queue = << >>
  /\ peer = Absent
  /\ resp = Absent
  /\ starts = 0
  /\ cli = [c \in Client |-> "start"]
  /\ request = [c \in Client |-> Absent]
  /\ sent = [c \in Client |-> 0]
  /\ inbox = [c \in Client |-> << >>]
  /\ closed = {}
  /\ result = [c \in Client |-> Absent]
  /\ arrived = << >>
  /\ applied = << >>
  /\ answer = [c \in Client |-> Absent]

Init ==
  /\ bans = NoBans
  /\ utc \in UtcTimes
  /\ STATS = Absent
  /\ SocketInit

Connected == {"write_len", "write_body", "read_len", "read_body"}

\* The client's end of its stream is open.
Open(c) == cli[c] \in Connected

Listening == task \notin {"down", "panicked"}

-----------------------------------------------------------------------------
(* The client: send_command.                                               *)

CliGoto(c, from, to) ==
  /\ cli[c] = from
  /\ cli' = [cli EXCEPT ![c] = to]

\* UnixStream::connect succeeds.
Connect(c) ==
  /\ CliGoto(c, "start", "write_len")
  /\ Listening /\ Len(queue) < Backlog
  /\ \E r \in Requests : request' = [request EXCEPT ![c] = r]
  /\ queue' = Append(queue, c)
  /\ arrived' = Append(arrived, c)
  /\ UNCHANGED <<bans, utc, STATS, task, peer, resp, starts, sent, result,
                 streamVars, applied, answer>>

\* "Failed to connect to rustguard daemon. Is it running?"
Refused(c) ==
  /\ CliGoto(c, "start", "failed")
  /\ ~Listening \/ Len(queue) >= Backlog
  /\ UNCHANGED <<bans, utc, STATS, daemonVars, request, sent, result,
                 streamVars, historyVars>>

\* A write of one piece of the request, while the daemon holds the stream.
CliWrite(c, from, to) ==
  /\ CliGoto(c, from, to)
  /\ c \notin closed
  /\ sent' = [sent EXCEPT ![c] = @ + 1]
  /\ UNCHANGED <<bans, utc, STATS, daemonVars, request, result, streamVars,
                 historyVars>>

WriteLen(c) == CliWrite(c, "write_len", "write_body")

WriteBody(c) == CliWrite(c, "write_body", "read_len")

\* stream.read_u32(): the length of a response, which is never 0.
ReadLen(c) ==
  /\ CliGoto(c, "read_len", "read_body")
  /\ inbox[c] # << >>
  /\ inbox' = [inbox EXCEPT ![c] = Tail(@)]
  /\ UNCHANGED <<bans, utc, STATS, daemonVars, request, sent, result, closed,
                 historyVars>>

\* stream.read_exact(&mut resp_buf), from_slice and println!.
ReadBody(c) ==
  /\ CliGoto(c, "read_body", "done")
  /\ inbox[c] # << >>
  /\ result' = [result EXCEPT ![c] = Head(inbox[c])]
  /\ inbox' = [inbox EXCEPT ![c] = Tail(@)]
  /\ UNCHANGED <<bans, utc, STATS, daemonVars, request, sent, closed,
                 historyVars>>

\* A write to, or a read past the end of, a stream the daemon has dropped.
CliError(c) ==
  /\ \/ CliGoto(c, "write_len", "failed")
     \/ CliGoto(c, "write_body", "failed")
     \/ CliGoto(c, "read_len", "failed") /\ inbox[c] = << >>
     \/ CliGoto(c, "read_body", "failed") /\ inbox[c] = << >>
  /\ c \in closed
  /\ UNCHANGED <<bans, utc, STATS, daemonVars, request, sent, result,
                 streamVars, historyVars>>

\* The user interrupts the client; the kernel closes its end.
Interrupt(c) ==
  /\ Open(c)
  /\ cli' = [cli EXCEPT ![c] = "failed"]
  /\ UNCHANGED <<bans, utc, STATS, daemonVars, request, sent, result,
                 streamVars, historyVars>>

ClientStep(c) ==
  \/ Connect(c) \/ Refused(c)
  \/ WriteLen(c) \/ WriteBody(c) \/ ReadLen(c) \/ ReadBody(c)
  \/ CliError(c)

-----------------------------------------------------------------------------
(* The daemon: the task spawned by run_daemon.                             *)

TaskGoto(from, to) ==
  /\ task = from
  /\ task' = to

\* run_daemon gets as far as spawning the task, with maps just created.
Start ==
  /\ starts < MaxStarts
  /\ starts' = starts + 1
  /\ TaskGoto("down", "accept")
  /\ UNCHANGED <<bans, utc, STATS, queue, peer, resp, clientVars, streamVars,
                 historyVars>>

\* What the end of the task, or of the process, does to its streams.
DropAllStreams ==
  /\ queue' = << >>
  /\ closed' = closed \cup {queue[i] : i \in DOMAIN queue} \cup ({peer} \ {Absent})
  /\ peer' = Absent
  /\ resp' = Absent
  /\ UNCHANGED inbox

\* Ctrl-C, a signal or a crash ends the process: the maps go with it.
Stop ==
  /\ task # "down"
  /\ task' = "down"
  /\ DropAllStreams
  /\ bans' = NoBans
  /\ UNCHANGED <<utc, STATS, starts, clientVars, historyVars>>

\* Mutant of Accept: the newest connection first.
AcceptNewest ==
  /\ TaskGoto("accept", "len")
  /\ queue # << >>
  /\ peer' = queue[Len(queue)]
  /\ queue' = SubSeq(queue, 1, Len(queue) - 1)
  /\ UNCHANGED <<bans, utc, STATS, resp, starts, clientVars, streamVars,
                 historyVars>>

\* listener.accept().await.  An accept that fails is tried again, and changes
\* nothing.
Accept ==
  /\ TaskGoto("accept", "len")
  /\ queue # << >>
  /\ peer' = Head(queue)
  /\ queue' = Tail(queue)
  /\ UNCHANGED <<bans, utc, STATS, resp, starts, clientVars, streamVars,
                 historyVars>>

\* The end of an iteration, or a continue: the loop drops stream.
NextIteration ==
  /\ task' = "accept"
  /\ closed' = closed \cup {peer}
  /\ peer' = Absent
  /\ resp' = Absent
  /\ UNCHANGED <<bans, utc, STATS, queue, starts, clientVars, historyVars>>

\* stream.read_u32().await and stream.read_exact(&mut buf).await.
ReadRequest(from, to, pieces) ==
  /\ TaskGoto(from, to)
  /\ sent[peer] >= pieces
  /\ UNCHANGED <<bans, utc, STATS, queue, peer, resp, starts, clientVars,
                 streamVars, historyVars>>

ReadRequestLen == ReadRequest("len", "body", 1)

\* Mutant of ReadRequestBody: read instead of read_exact.
ReadRequestBodyPartial == ReadRequest("body", "handle", 1)

ReadRequestBody == ReadRequest("body", "handle", 2)

\* Mutant of ReadRequestFailed: the end of the stream inside a body is not
\* noticed.
ReadRequestFailedLen ==
  /\ task = "len" /\ sent[peer] < 1
  /\ ~Open(peer)
  /\ NextIteration
  /\ UNCHANGED inbox

\* "read len failed" and "read body failed": the client left before it had
\* written what is being read.
ReadRequestFailed ==
  /\ \/ task = "len" /\ sent[peer] < 1
     \/ task = "body" /\ sent[peer] < 2
  /\ ~Open(peer)
  /\ NextIteration
  /\ UNCHANGED inbox

-----------------------------------------------------------------------------
(* One request, from serde_json::from_slice to resp: no await in between.  *)

\* banned_ips.insert succeeds.
HasRoom(ip) ==
  ip \in BannedIps(bans) \/ Cardinality(BannedIps(bans)) < MaxEntries

Handling(op) == task = "handle" /\ request[peer].op = op

Respond(r) ==
  /\ task' = "respond_len"
  /\ resp' = r
  /\ answer' = [answer EXCEPT ![peer] = r]
  /\ applied' = Append(applied, peer)
  /\ UNCHANGED <<utc, STATS, queue, peer, starts, clientVars, streamVars, arrived>>

\* Ban: the result of banned_ips.insert is thrown away.
HandleBan ==
  /\ Handling("Ban")
  /\ LET ip == request[peer].target
         ttl == request[peer].ttl
         now == get_boot_time_ns(utc)
     IN /\ ip \in IP
        /\ (Overflows(now, ttl) => FALSE \in OverflowChecks)
        /\ bans' = IF HasRoom(ip) THEN [bans EXCEPT ![ip] = EndTime(now, ttl)]
                                  ELSE bans
  /\ Respond(Ok)

\* `now + t * 1_000_000_000` panics: the task unwinds, its listener and its
\* stream with it; nothing awaits its JoinHandle, so the process stays.
PanicInBan ==
  /\ Handling("Ban")
  /\ request[peer].target \in IP
  /\ TRUE \in OverflowChecks /\ Overflows(get_boot_time_ns(utc), request[peer].ttl)
  /\ task' = "panicked"
  /\ DropAllStreams
  /\ UNCHANGED <<bans, utc, STATS, starts, clientVars, historyVars>>

\* Unban: so is the result of banned_ips.remove.
HandleUnban ==
  /\ Handling("Unban")
  /\ request[peer].target \in IP
  /\ bans' = [bans EXCEPT ![request[peer].target] = Absent]
  /\ Respond(Ok)

\* Ban or Unban of what Ipv4Addr::from_str rejects.
HandleBadTarget ==
  /\ Handling("Ban") \/ Handling("Unban")
  /\ request[peer].target \notin IP
  /\ UNCHANGED bans
  /\ Respond(Error("invalid ip"))

\* List: every key of the map, whatever its end_time.
HandleList ==
  /\ Handling("List")
  /\ UNCHANGED bans
  /\ Respond(List(BannedIps(bans)))

HandleStats ==
  /\ Handling("Stats")
  /\ UNCHANGED bans
  /\ Respond(Stats(STATS))

HandleMalformed ==
  /\ Handling("Malformed")
  /\ UNCHANGED bans
  /\ Respond(Error("invalid request"))

-----------------------------------------------------------------------------

\* The piece of a response that carries its length.
LenPiece == [tag |-> "len"]

\* stream.write_u32(len).await
WriteResponseLen ==
  /\ TaskGoto("respond_len", "respond_body")
  /\ Open(peer)
  /\ inbox' = [inbox EXCEPT ![peer] = Append(@, LenPiece)]
  /\ UNCHANGED <<bans, utc, STATS, queue, peer, resp, starts, clientVars, closed,
                 historyVars>>

\* stream.write_all(&resp_bytes).await, flush, and the end of the iteration.
WriteResponseBody ==
  /\ task = "respond_body"
  /\ Open(peer)
  /\ inbox' = [inbox EXCEPT ![peer] = Append(@, resp)]
  /\ NextIteration

\* Mutant of WriteResponseFailed: the request is handled once more.
WriteResponseRetry ==
  /\ task \in {"respond_len", "respond_body"}
  /\ ~Open(peer)
  /\ task' = "handle"
  /\ UNCHANGED <<bans, utc, STATS, queue, peer, resp, starts, clientVars,
                 streamVars, historyVars>>

\* The client is gone: continue.
WriteResponseFailed ==
  /\ task \in {"respond_len", "respond_body"}
  /\ ~Open(peer)
  /\ NextIteration
  /\ UNCHANGED inbox

TaskStep ==
  \/ Accept \/ ReadRequestLen \/ ReadRequestBody \/ ReadRequestFailed
  \/ HandleBan \/ PanicInBan \/ HandleUnban \/ HandleBadTarget
  \/ HandleList \/ HandleStats \/ HandleMalformed
  \/ WriteResponseLen \/ WriteResponseBody \/ WriteResponseFailed

\* The wall clock moves on; it may also be set back.
SetClock ==
  /\ utc' \in UtcTimes
  /\ utc' # utc
  /\ UNCHANGED <<bans, STATS, socketVars>>

Next ==
  \/ \E c \in Client : ClientStep(c) \/ Interrupt(c)
  \/ TaskStep
  \/ Start
  \/ Stop
  \/ SetClock

\* A client keeps running until it exits, and the runtime keeps polling the
\* task; nobody has to start, stop or interrupt anything.
Fairness ==
  /\ \A c \in Client : WF_vars(ClientStep(c))
  /\ WF_vars(TaskStep)

Spec == Init /\ [][Next]_vars

FairSpec == Spec /\ Fairness

-----------------------------------------------------------------------------

Responses ==
       {Ok, Error("invalid ip"), Error("invalid request")}
  \cup {List(ips) : ips \in SUBSET IP}
  \cup {Stats(n) : n \in 0..(Word - 1) \cup {Absent}}

\* The shape of every variable.
TypeOK ==
  /\ bans \in [IP -> 0..(Word - 1) \cup {Absent}]
  /\ utc \in UtcTimes
  /\ STATS \in 0..(Word - 1) \cup {Absent}
  /\ task \in {"down", "panicked", "accept", "len", "body", "handle",
               "respond_len", "respond_body"}
  /\ queue \in Seq(Client)
  /\ peer \in Client \cup {Absent}
  /\ resp \in Responses \cup {Absent}
  /\ starts \in 0..MaxStarts
  /\ cli \in [Client -> Connected \cup {"start", "done", "failed"}]
  /\ request \in [Client -> Requests \cup {Absent}]
  /\ sent \in [Client -> 0..2]
  /\ inbox \in [Client -> Seq(Responses \cup {LenPiece})]
  /\ closed \in SUBSET Client
  /\ result \in [Client -> Responses \cup {Absent}]
  /\ arrived \in Seq(Client)
  /\ applied \in Seq(Client)
  /\ answer \in [Client -> Responses \cup {Absent}]

AppliedSet == {applied[i] : i \in DOMAIN applied}

\* What a client's user sees of its command.
Status ==
  [c \in Client |-> CASE cli[c] = "start" -> "new"
                      [] cli[c] \in Connected -> "waiting"
                      [] cli[c] = "done" -> "answered"
                      [] cli[c] = "failed" -> "failed"]

Service == INSTANCE BanService WITH applied <- AppliedSet, status <- Status

\* The accept loop and the clients implement BanService: every command takes
\* effect at most once and in one step, and what send_command prints is the
\* answer computed then (main.rs 120-155 against 246-301), with clients
\* interrupted, streams dropped and the daemon restarted at any point.
ImplementsBanService == Service!Spec

\* main.rs 223-302 serves connections one after the other, so commands take
\* effect in the order their clients connected, even if a client that
\* connected later wrote its request earlier.
ConnectOrder ==
  \A i, j \in DOMAIN applied : \A m, n \in DOMAIN arrived :
    applied[i] = arrived[m] /\ applied[j] = arrived[n] /\ i < j => m < n

\* main.rs 241: a client that went away before it had written its whole
\* request never has an effect.
OnlyWholeRequests == \A c \in AppliedSet : sent[c] = 2

\* No client of the socket hangs: with the loop stuck to one connection at a
\* time, with peers that disappear, and with the daemon stopped or its task
\* panicked, every send_command that has connected ends in a response or an
\* error.
EveryClientReturns == \A c \in Client : Open(c) ~> ~Open(c)

=============================================================================
