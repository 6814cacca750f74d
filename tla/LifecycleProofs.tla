-------------------------- MODULE LifecycleProofs ---------------------------
(***************************************************************************)
(* DeadFileHasCause and ReachedMeansFiltered for any number of services,   *)
(* any interfaces and any number of kills, failed calls and panics.        *)
(***************************************************************************)
EXTENDS Lifecycle, TLAPS

Steps ==
  {"off", "main", "run_daemon", "load", "attach", "unlink", "bind", "chmod",
   "serving", "exiting", "return", "detached"}

Fates ==
  {"none", "bind", "chmod", "panic", "ctrl_c", "remove_file", "killed"}

Types ==
  /\ step \in [Proc -> Steps]
  /\ attached \subseteq Proc
  /\ listener \subseteq Proc
  /\ path \in Proc \cup {NoFile}
  /\ fate \in [Proc -> Fates]

\* A process has its filter on from attach until it returns, and its listener
\* open from bind until it is gone, unless the accept task has panicked.
HoldsInv(p) ==
  /\ p \in attached <=>
       step[p] \in {"unlink", "bind", "chmod", "serving", "exiting", "return"}
  /\ p \in listener =>
       step[p] \in {"chmod", "serving", "exiting", "return", "detached"}
  /\ step[p] \in {"chmod", "serving", "exiting"} =>
       p \in listener \/ fate[p] # "none"

\* The file leads to p only while p serves, or because a failure kept p from
\* removing it; past its own remove_file p is out of reach.
PathInv(p) ==
  path = p =>
    /\ fate[p] = "none" => step[p] \in {"chmod", "serving", "exiting"}
    /\ p \in listener /\ fate[p] \notin {"ctrl_c", "remove_file"} =>
         step[p] \in {"chmod", "serving", "exiting"}

IInv == Types /\ \A p \in Proc : HoldsInv(p) /\ PathInv(p)

\* No process runs and there is no file.
LEMMA InitHolds == Init => IInv
BY LifeAssumption DEF Init, IInv, Types, Steps, Fates, HoldsInv, PathInv

\* Every step of a process, and everything that happens to it, keeps IInv.
LEMMA StepKeeps ==
  ASSUME IInv, NEW p \in Proc,
         \/ Progress(p)
         \/ StartFails(p) \/ UnlinkFails(p) \/ BindFailsLate(p)
         \/ SetPermissionsFails(p) \/ TaskPanics(p)
         \/ CtrlC(p) \/ CtrlCFails(p) \/ RemoveFileFails(p) \/ Kill(p)
  PROVE  IInv'
<1> USE LifeAssumption DEF IInv, Types, Steps, Fates, HoldsInv, PathInv
<1>1. CASE Launch(p)
  BY <1>1 DEF Launch, Goto
<1>2. CASE InitLogger(p)
  BY <1>2 DEF InitLogger, Goto
<1>3. CASE InitLoggerAgain(p)
  BY <1>3 DEF InitLoggerAgain, Goto, Die
<1>4. CASE Load(p)
  BY <1>4 DEF Load, Goto
<1>5. CASE StartFails(p)
  BY <1>5 DEF StartFails, Die, Outside
<1>6. CASE Attach(p)
  BY <1>6 DEF Attach, Goto
<1>7. CASE AttachFails(p)
  BY <1>7 DEF AttachFails, Die
<1>8. CASE Unlink(p)
  BY <1>8 DEF Unlink, Goto
<1>9. CASE UnlinkFails(p)
  BY <1>9 DEF UnlinkFails, Goto, Outside
<1>10. CASE Bind(p)
  BY <1>10 DEF Bind, Goto, Meets
<1>11. CASE BindFails(p)
  BY <1>11 DEF BindFails, Die
<1>12. CASE BindFailsLate(p)
  BY <1>12 DEF BindFailsLate, Die, Outside, Meets
<1>13. CASE SetPermissions(p)
  BY <1>13 DEF SetPermissions, Goto
<1>14. CASE SetPermissionsNoFile(p)
  BY <1>14 DEF SetPermissionsNoFile, Die, Meets
<1>15. CASE SetPermissionsFails(p)
  BY <1>15 DEF SetPermissionsFails, Die, Outside, Meets
<1>16. CASE CtrlC(p)
  BY <1>16 DEF CtrlC, Goto, Outside
<1>17. CASE CtrlCFails(p)
  BY <1>17 DEF CtrlCFails, Goto, Outside, Meets
<1>18. CASE TaskPanics(p)
  BY <1>18 DEF TaskPanics, Outside, Meets
<1>19. CASE RemoveFile(p)
  BY <1>19 DEF RemoveFile, Goto
<1>20. CASE RemoveFileFails(p)
  BY <1>20 DEF RemoveFileFails, Goto, Outside, Meets
<1>21. CASE Detach(p)
  BY <1>21 DEF Detach, Goto
<1>22. CASE Exit(p)
  BY <1>22 DEF Exit, Die
<1>23. CASE Kill(p)
  BY <1>23 DEF Kill, Die, Outside, Meets
<1> QED
  BY <1>1, <1>2, <1>3, <1>4, <1>5, <1>6, <1>7, <1>8, <1>9, <1>10,
     <1>11, <1>12, <1>13, <1>14, <1>15, <1>16, <1>17, <1>18, <1>19, <1>20,
     <1>21, <1>22, <1>23 DEF Progress

\* IInv is an invariant of the daemons.
LEMMA Invariance == Spec => []IInv
<1>1. IInv /\ UNCHANGED vars => IInv'
  BY DEF IInv, Types, HoldsInv, PathInv, vars
<1>2. IInv /\ [Next]_vars => IInv'
  BY <1>1, StepKeeps DEF Next
<1> QED
  BY InitHolds, <1>2, PTL DEF Spec

\* No interleaving of starts, failed starts and exits leaves a file at
\* SOCKET_PATH that leads nowhere, other than through a kill, a panic of the
\* accept task or an error of bind, set_permissions, ctrl_c or remove_file in
\* the process that made it (main.rs 211-217, 251, 310-312).
THEOREM DeadFileAlwaysHasCause == Spec => []DeadFileHasCause
<1>1. IInv => DeadFileHasCause
  BY DEF IInv, Types, HoldsInv, PathInv, DeadFileHasCause
<1> QED
  BY Invariance, <1>1, PTL

\* Whoever is reached through SOCKET_PATH has its filter attached: attach comes
\* before bind, and remove_file before the end of run_daemon (main.rs 198-213,
\* 312-314), unless ctrl_c or remove_file failed.
THEOREM AlwaysReachedFiltered == Spec => []ReachedMeansFiltered
<1>1. IInv => ReachedMeansFiltered
  BY LifeAssumption DEF IInv, Types, HoldsInv, PathInv, ReachedMeansFiltered
<1> QED
  BY Invariance, <1>1, PTL

=============================================================================
