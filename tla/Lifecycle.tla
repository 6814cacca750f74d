----------------------------- MODULE Lifecycle ------------------------------
(***************************************************************************)
(* Starting and stopping daemons: main and run_daemon up to the accept     *)
(* loop, and what follows Ctrl-C (rustguard/src/main.rs), with the service *)
(* manager that starts a daemon again whenever it is gone                  *)
(* (rustguard.service).  What outlives a process is the file at            *)
(* SOCKET_PATH; what processes share is that file and the interfaces.      *)
(***************************************************************************)
EXTENDS Naturals

CONSTANTS
  Proc,          \* daemon services that may be installed, each with an --iface
  Iface,         \* Iface[p]: the interface of service p
  NoFile,        \* nothing at SOCKET_PATH
  ReinitPanics,  \* env_logger::init panics on a logger that is already set
  MaxStops       \* bound on crashes, failed calls and Ctrl-C together

ASSUME LifeAssumption ==
  /\ NoFile \notin Proc
  /\ ReinitPanics \in BOOLEAN
  /\ MaxStops \in Nat

VARIABLES
  installed,  \* the services this machine has
  step,       \* step[p]: where the process of service p is
  logger,     \* processes whose global logger is set
  attached,   \* processes whose XDP program is attached to their interface
  listener,   \* processes whose listener is open
  path,       \* the process whose socket SOCKET_PATH leads to, or NoFile
  stops,      \* crashes, failed calls and Ctrl-C so far
  fate        \* History: fate[p] is the failure that the last process of p to
              \* have made a socket file has met since, or "none"

vars == <<installed, step, logger, attached, listener, path, stops, fate>>

Init ==
  /\ installed \in (SUBSET Proc) \ {{}}
  /\ step = [p \in Proc |-> "off"]
  /\ logger = {}
  /\ attached = {}
  /\ listener = {}
  /\ path = NoFile
  /\ stops = 0
  /\ fate = [p \in Proc |-> "none"]

Goto(p, from, to) ==
  /\ step[p] = from
  /\ step' = [step EXCEPT ![p] = to]
  /\ UNCHANGED installed

\* The process is gone and the kernel closes what it held; the file stays.
Die(p) ==
  /\ step' = [step EXCEPT ![p] = "off"]
  /\ logger' = logger \ {p}
  /\ attached' = attached \ {p}
  /\ listener' = listener \ {p}
  /\ UNCHANGED installed

Meets(p, failure) == fate' = [fate EXCEPT ![p] = failure]

\* One more event from outside, within the bound of the model.
Outside ==
  /\ stops < MaxStops
  /\ stops' = stops + 1

-----------------------------------------------------------------------------

\* Restart=always: the service manager starts a daemon that is not running.
Launch(p) ==
  /\ p \in installed
  /\ Goto(p, "off", "main")
  /\ UNCHANGED <<logger, attached, listener, path, stops, fate>>

\* env_logger::init() in main.
InitLogger(p) ==
  /\ Goto(p, "main", "run_daemon")
  /\ logger' = logger \cup {p}
  /\ UNCHANGED <<attached, listener, path, stops, fate>>

\* env_logger::init() in run_daemon.
InitLoggerAgain(p) ==
  /\ step[p] = "run_daemon"
  /\ IF ReinitPanics /\ p \in logger
     THEN Die(p)
     ELSE /\ Goto(p, "run_daemon", "load")
          /\ logger' = logger \cup {p}
          /\ UNCHANGED <<attached, listener>>
  /\ UNCHANGED <<path, stops, fate>>

\* Ebpf::load, the eBPF logger and program.load().
Load(p) ==
  /\ Goto(p, "load", "attach")
  /\ UNCHANGED <<logger, attached, listener, path, stops, fate>>

Busy(p) == \E q \in attached : Iface[q] = Iface[p]

\* program.attach(&iface), and the maps taken.
Attach(p) ==
  /\ Goto(p, "attach", "unlink")
  /\ ~Busy(p)
  /\ attached' = attached \cup {p}
  /\ UNCHANGED <<logger, listener, path, stops, fate>>

\* "failed to attach the XDP program"
AttachFails(p) ==
  /\ step[p] = "attach"
  /\ Busy(p)
  /\ Die(p)
  /\ UNCHANGED <<path, stops, fate>>

\* A `?` between Ebpf::load and the bind, for a reason of its own: no memory, no
\* right, no such interface.
StartFails(p) ==
  /\ step[p] \in {"load", "attach", "bind"}
  /\ Outside
  /\ Die(p)
  /\ UNCHANGED <<path, fate>>

\* Mutant of Unlink: no remove_file before the bind.
UnlinkSkipped(p) ==
  /\ Goto(p, "unlink", "bind")
  /\ UNCHANGED <<logger, attached, listener, path, stops, fate>>

\* remove_file(SOCKET_PATH), whoever made the file.
Unlink(p) ==
  /\ Goto(p, "unlink", "bind")
  /\ path' = NoFile
  /\ UNCHANGED <<logger, attached, listener, stops, fate>>

\* The error of remove_file is discarded, and bind will fail.
UnlinkFails(p) ==
  /\ Goto(p, "unlink", "bind")
  /\ path # NoFile
  /\ Outside
  /\ UNCHANGED <<logger, attached, listener, path, fate>>

\* UnixListener::bind(SOCKET_PATH)?
Bind(p) ==
  /\ Goto(p, "bind", "chmod")
  /\ path = NoFile
  /\ path' = p
  /\ listener' = listener \cup {p}
  /\ Meets(p, "none")
  /\ UNCHANGED <<logger, attached, stops>>

\* The file is made, and what follows inside bind (listen, the registration
\* with the runtime) fails.
BindFailsLate(p) ==
  /\ step[p] = "bind"
  /\ path = NoFile
  /\ Outside
  /\ path' = p
  /\ Meets(p, "bind")
  /\ Die(p)

\* "Address already in use": another daemon has made the file meanwhile.
BindFails(p) ==
  /\ step[p] = "bind"
  /\ path # NoFile
  /\ Die(p)
  /\ UNCHANGED <<path, stops, fate>>

\* set_permissions(SOCKET_PATH, ..)?, and the accept task is spawned.
SetPermissions(p) ==
  /\ Goto(p, "chmod", "serving")
  /\ path # NoFile
  /\ UNCHANGED <<logger, attached, listener, path, stops, fate>>

\* Another daemon has removed the file meanwhile.
SetPermissionsNoFile(p) ==
  /\ step[p] = "chmod"
  /\ path = NoFile
  /\ Meets(p, "chmod")
  /\ Die(p)
  /\ UNCHANGED <<path, stops>>

\* Any other error of set_permissions: `?` leaves the file that was just made.
SetPermissionsFails(p) ==
  /\ step[p] = "chmod"
  /\ path # NoFile
  /\ Outside
  /\ Meets(p, "chmod")
  /\ Die(p)
  /\ UNCHANGED path

-----------------------------------------------------------------------------

\* Mutant of CtrlC: the filter is taken off before the socket.
CtrlCDetaches(p) ==
  /\ Goto(p, "serving", "exiting")
  /\ Outside
  /\ attached' = attached \ {p}
  /\ UNCHANGED <<logger, listener, path, fate>>

\* tokio::signal::ctrl_c().await returns.
CtrlC(p) ==
  /\ Goto(p, "serving", "exiting")
  /\ Outside
  /\ UNCHANGED <<logger, attached, listener, path, fate>>

\* ctrl_c().await cannot install its handler, and `?` returns from run_daemon
\* before remove_file; the accept task runs on until main has returned.
CtrlCFails(p) ==
  /\ Goto(p, "serving", "return")
  /\ Outside
  /\ Meets(p, "ctrl_c")
  /\ UNCHANGED <<logger, attached, listener, path>>

\* The accept task panics (now + t * 1_000_000_000 in a build with overflow
\* checks) and drops its listener; nobody awaits the task, so the process stays.
TaskPanics(p) ==
  /\ p \in listener
  /\ step[p] # "chmod"
  /\ Outside
  /\ listener' = listener \ {p}
  /\ Meets(p, "panic")
  /\ UNCHANGED <<installed, step, logger, attached, path>>

\* Mutant of RemoveFile: nothing is removed on the way out.
RemoveFileSkipped(p) ==
  /\ Goto(p, "exiting", "return")
  /\ UNCHANGED <<logger, attached, listener, path, stops, fate>>

\* remove_file(SOCKET_PATH) after Ctrl-C, again whoever made the file.
RemoveFile(p) ==
  /\ Goto(p, "exiting", "return")
  /\ path' = NoFile
  /\ UNCHANGED <<logger, attached, listener, stops, fate>>

\* Here too an error is discarded.
RemoveFileFails(p) ==
  /\ Goto(p, "exiting", "return")
  /\ path # NoFile
  /\ Outside
  /\ Meets(p, "remove_file")
  /\ UNCHANGED <<logger, attached, listener, path>>

\* run_daemon returns and drops ebpf, and with it the link; the accept task
\* still runs.
Detach(p) ==
  /\ Goto(p, "return", "detached")
  /\ attached' = attached \ {p}
  /\ UNCHANGED <<logger, listener, path, stops, fate>>

\* main returns: the runtime drops the task and its listener.
Exit(p) ==
  /\ step[p] = "detached"
  /\ Die(p)
  /\ UNCHANGED <<path, stops, fate>>

\* A signal other than Ctrl-C, or the machine's memory running out.
Kill(p) ==
  /\ step[p] # "off"
  /\ Outside
  /\ Die(p)
  /\ Meets(p, "killed")
  /\ UNCHANGED path

Progress(p) ==
  \/ Launch(p) \/ InitLogger(p) \/ InitLoggerAgain(p)
  \/ Load(p) \/ Attach(p) \/ AttachFails(p)
  \/ Unlink(p) \/ Bind(p) \/ BindFails(p)
  \/ SetPermissions(p) \/ SetPermissionsNoFile(p)
  \/ RemoveFile(p) \/ Detach(p) \/ Exit(p)

Next ==
  \E p \in Proc :
    \/ Progress(p)
    \/ StartFails(p) \/ UnlinkFails(p) \/ BindFailsLate(p)
    \/ SetPermissionsFails(p) \/ TaskPanics(p)
    \/ CtrlC(p) \/ CtrlCFails(p) \/ RemoveFileFails(p) \/ Kill(p)

Spec == Init /\ [][Next]_vars

\* A process keeps running, calls do not fail for ever (Outside), and systemd
\* keeps starting one that is gone.
FairSpec == Spec /\ \A p \in Proc : WF_vars(Progress(p))

-----------------------------------------------------------------------------

\* A file at SOCKET_PATH that leads nowhere was left by a process that made it
\* and then was killed, lost its accept task (251), left run_daemon by the `?`
\* of bind (213), set_permissions (217) or ctrl_c (310), or could not remove it
\* (312).  A process that ends in any other way leaves none behind, whatever
\* other daemons have done to the file meanwhile.
DeadFileHasCause ==
  path # NoFile /\ path \notin listener => fate[path] # "none"

\* A client that finds a daemon at SOCKET_PATH finds one whose filter is
\* attached, so that a ban it is told of blocks something: main.rs attaches
\* (198) before it binds (213), removes the file (312) before it detaches
\* (314), and the accept task that outlives run_daemon is out of reach, with
\* the starts, exits, panics and kills of other daemons in any order.  It does
\* not hold for an exit that leaves the file: after a failed ctrl_c (310) or
\* remove_file (312) the filter is off before the listener is closed.
ReachedMeansFiltered ==
  path \in listener /\ fate[path] \notin {"ctrl_c", "remove_file"} =>
    path \in attached

\* rustguard.service 8, "Restart=always", and main.rs 41, "Start the rustguard
\* daemon": where one service is installed, a daemon that is down comes back,
\* with its filter attached and SOCKET_PATH leading to it, whatever file an
\* earlier one left there.
Recovers ==
  \A p \in Proc :
    installed = {p} /\ step[p] = "off" ~>
      step[p] = "serving" /\ p \in attached /\ path = p /\ p \in listener

=============================================================================
