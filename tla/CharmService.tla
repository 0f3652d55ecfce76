---------------------------- MODULE CharmService ----------------------------
(* A long running service managed from hooks (charmbits/service).            *)
(*                                                                           *)
(* A hook process holds a Service: it installs a unit with the operating     *)
(* system's service manager, starts, stops and removes it, and calls the     *)
(* RPC server of the running process.  What it knows of the service is the   *)
(* record svc.state, loaded when the hook starts and saved when it ends (the *)
(* deferred save of hook/main.go, atomic here: HookMain has its detail).     *)
(* The service process runs the executable in the charm directory, which a   *)
(* charm upgrade replaces, with the arguments written in the unit.           *)
(*                                                                           *)
(* The service manager (github.com/mever/service) is not part of the         *)
(* repository and is modelled from the use made of it: starting what runs    *)
(* and stopping what does not are no errors (the fake of hooktest does the   *)
(* same), a process that dies may be started again, and an installed unit    *)
(* may be started when the machine boots.                                    *)
EXTENDS Naturals

CONSTANTS
  Args,         \* the argument lists that the charm passes to Start
  NoArgs,       \* the empty one, in the record until a Start succeeded
  MaxFaults,    \* bound on crashes, failing calls and dying processes
  MaxUpgrades,  \* bound on charm upgrades
  MaxOps        \* bound on the operations of one hook

NoUnit == "no unit"

ASSUME ServiceAssumption ==
  /\ MaxFaults \in Nat /\ MaxUpgrades \in Nat /\ MaxOps \in Nat
  /\ NoUnit \notin Args \cup {NoArgs}

AllArgs  == Args \cup {NoArgs}
Versions == 0 .. MaxUpgrades

VARIABLES
  unit,     \* the arguments in the installed unit, or NoUnit
  status,   \* of the service process
  running,  \* its arguments and the version it runs, when there is one
  exe,      \* the version of bin/runhook in the charm directory
  stored,   \* svc.state as saved on disk
  rec,      \* svc.state in the hook process
  pc,       \* where the hook process is; "idle" when there is none
  op,       \* the operation it is in
  want,     \* the arguments of the Start in progress
  ops,      \* operations done by this hook
  crashes,  \* crashes so far
  errors,   \* failing calls and dying processes so far
  \* History, read by the properties and by no action:
  asking,   \* the arguments that the last Start or Restart stands for
  first,    \* those of the first that installed the unit, or NoUnit
  half,     \* the last Start installed or found the unit but did not start it
  fresh     \* a Restart has succeeded since the last upgrade

os   == <<unit, status, running, exe>>
hook == <<rec, pc, op, want, ops>>
hist == <<asking, first, half, fresh>>
vars == <<os, stored, hook, crashes, errors, hist>>

Records  == [installed : BOOLEAN, args : AllArgs]
OpNames  == {"start", "restart", "stop", "remove", "call"}
Statuses == {"stopped", "starting", "listening", "died"}
Phases   == {"idle", "ready", "install", "osstart", "stop", "uninstall", "dial",
             "rpc", "lost"}

TypeOK ==
  /\ unit \in AllArgs \cup {NoUnit}
  /\ status \in Statuses
  /\ running \in [args : AllArgs, version : Versions]
  /\ exe \in Versions
  /\ stored \in Records /\ rec \in Records
  /\ pc \in Phases /\ op \in OpNames /\ want \in AllArgs
  /\ ops \in 0 .. MaxOps
  /\ crashes \in 0 .. MaxFaults /\ errors \in 0 .. MaxFaults
  /\ asking \in AllArgs /\ first \in AllArgs \cup {NoUnit}
  /\ half \in BOOLEAN /\ fresh \in BOOLEAN

Idle  == pc = "idle"
Alive == status \in {"starting", "listening"}

Init ==
  /\ unit = NoUnit /\ status = "stopped" /\ exe = 0
  /\ running = [args |-> NoArgs, version |-> 0]
  /\ stored = [installed |-> FALSE, args |-> NoArgs] /\ rec = stored
  /\ pc = "idle" /\ op = "stop" /\ want = NoArgs
  /\ ops = 0
  /\ crashes = 0 /\ errors = 0
  /\ asking = NoArgs /\ first = NoUnit /\ half = FALSE /\ fresh = FALSE

CanFail == crashes + errors < MaxFaults
Error   == CanFail /\ errors' = errors + 1 /\ UNCHANGED crashes
Fault   == CanFail /\ crashes' = crashes + 1 /\ UNCHANGED errors
NoFault == UNCHANGED <<crashes, errors>>

-----------------------------------------------------------------------------
(* The hook process: it starts with the stored record, does some operations  *)
(* on the service and stores the record, whether they succeeded or not.      *)
BeginHook ==
  /\ Idle
  /\ pc' = "ready" /\ rec' = stored /\ ops' = 0
  /\ UNCHANGED <<os, stored, op, want, hist>> /\ NoFault

EndHook ==
  /\ pc = "ready"
  /\ pc' = "idle" /\ stored' = rec
  /\ UNCHANGED <<os, rec, op, want, ops, hist>> /\ NoFault

Begin(name, phase) ==
  /\ pc = "ready" /\ ops < MaxOps
  /\ pc' = phase /\ op' = name /\ ops' = ops + 1

(* An operation goes on or, with an error or not, returns to a function of   *)
(* the hook ("ready"), which does what it likes next.                        *)
Goto(phase) ==
  /\ pc' = phase
  /\ UNCHANGED <<op, ops>>

(* Service.Start(args): its MkdirAll can fail like the Install after it.     *)
Start(a) ==
  /\ Begin("start", "install")
  /\ want' = a /\ asking' = a
  /\ UNCHANGED <<os, stored, rec, first, half, fresh>> /\ NoFault

(* Service.Restart: Stop, and then Start with the recorded arguments.        *)
RestartForgetsArgs ==                                    \* a mutant
  /\ Begin("restart", "stop")
  /\ want' = NoArgs /\ asking' = rec.args
  /\ UNCHANGED <<os, stored, rec, first, half, fresh>> /\ NoFault

RestartNoStop ==                                         \* a mutant
  /\ Begin("restart", "install")
  /\ want' = rec.args /\ asking' = rec.args
  /\ UNCHANGED <<os, stored, rec, first, half, fresh>> /\ NoFault

Restart ==
  /\ Begin("restart", "stop")
  /\ want' = rec.args /\ asking' = rec.args
  /\ UNCHANGED <<os, stored, rec, first, half, fresh>> /\ NoFault

Stop ==
  /\ Begin("stop", "stop")
  /\ UNCHANGED <<os, stored, rec, want, hist>> /\ NoFault

(* Service.StopAndRemove does nothing for a service it has no record of.     *)
StopAndRemove ==
  /\ \/ Begin("remove", "stop") /\ rec.installed
     \/ Begin("remove", "ready") /\ ~rec.installed
  /\ UNCHANGED <<os, stored, rec, want, hist>> /\ NoFault

(* Service.Call fails at once for a service it has no record of.             *)
Call ==
  /\ \/ Begin("call", "dial") /\ rec.installed
     \/ Begin("call", "ready") /\ ~rec.installed
  /\ UNCHANGED <<os, stored, rec, want, hist>> /\ NoFault

-----------------------------------------------------------------------------
(* srv.Install: a unit that exists is left as it is, whatever its arguments. *)
OSInstall ==
  /\ pc = "install"
  /\ unit' = IF unit = NoUnit THEN want ELSE unit
  /\ first' = IF first = NoUnit THEN asking ELSE first
  /\ Goto("osstart")
  /\ UNCHANGED <<status, running, exe, stored, rec, want, asking, half, fresh>>
  /\ NoFault

(* The process that the service manager starts.                              *)
Launch ==
  /\ status' = "starting"
  /\ running' = [args |-> unit, version |-> exe]
  /\ UNCHANGED <<unit, exe>>

(* The record is written after the service manager's start succeeded.        *)
OSStartRecordsNothing ==                                 \* a mutant
  /\ pc = "osstart"
  /\ IF Alive THEN UNCHANGED os ELSE Launch
  /\ rec' = [rec EXCEPT !.args = want]
  /\ Goto("ready")
  /\ half' = FALSE /\ fresh' = (fresh \/ op = "restart")
  /\ UNCHANGED <<stored, want, asking, first>> /\ NoFault

OSStart ==
  /\ pc = "osstart"
  /\ IF Alive THEN UNCHANGED os ELSE Launch
  /\ rec' = [installed |-> TRUE, args |-> want]
  /\ Goto("ready")
  /\ half' = FALSE /\ fresh' = (fresh \/ op = "restart")
  /\ UNCHANGED <<stored, want, asking, first>> /\ NoFault

(* srv.Stop, the first step of three operations.                             *)
AfterStop == CASE op = "restart" -> "install"
               [] op = "remove"  -> "uninstall"
               [] OTHER          -> "ready"

OSStop ==
  /\ pc = "stop"
  /\ status' = "stopped"
  /\ Goto(AfterStop)
  /\ UNCHANGED <<unit, running, exe, stored, rec, want, hist>> /\ NoFault

OSUninstallKeepsRecord ==                                \* a mutant
  /\ pc = "uninstall"
  /\ unit' = NoUnit /\ first' = NoUnit /\ half' = FALSE
  /\ Goto("ready")
  /\ UNCHANGED <<status, running, exe, stored, rec, want, asking, fresh>>
  /\ NoFault

OSUninstall ==
  /\ pc = "uninstall"
  /\ unit' = NoUnit /\ first' = NoUnit /\ half' = FALSE
  /\ rec' = [rec EXCEPT !.installed = FALSE]
  /\ Goto("ready")
  /\ UNCHANGED <<status, running, exe, stored, want, asking, fresh>> /\ NoFault

(* A call of the service manager fails and changes nothing; the operation    *)
(* returns its error at once.                                                *)
OSErrorGoesOn ==                                         \* a mutant
  /\ pc \in {"install", "osstart", "stop", "uninstall"}
  /\ Error
  /\ IF pc = "stop" /\ op = "remove"
     THEN Goto("uninstall")
     ELSE Goto("ready")
  /\ half' = (half \/ pc = "osstart")
  /\ UNCHANGED <<os, stored, rec, want, asking, first, fresh>>

OSError ==
  /\ pc \in {"install", "osstart", "stop", "uninstall"}
  /\ Error
  /\ Goto("ready")
  /\ half' = (half \/ pc = "osstart")
  /\ UNCHANGED <<os, stored, rec, want, asking, first, fresh>>

(* The dial is retried for two seconds.                                      *)
InCall == UNCHANGED <<os, stored, rec, want, hist>> /\ NoFault

DialOK ==
  /\ pc = "dial" /\ status = "listening"
  /\ Goto("rpc") /\ InCall

DialTimeoutNever ==                                      \* a mutant
  /\ pc = "dial" /\ status # "listening"
  /\ UNCHANGED vars

DialTimeout ==
  /\ pc = "dial" /\ status # "listening"
  /\ Goto("ready") /\ InCall

(* rpcClient.Call has no timeout.  It returns with the reply or the error of *)
(* the method called, whenever that returns, ...                             *)
CallAnswered ==
  /\ pc = "rpc"
  /\ Goto("ready") /\ InCall

(* ... or because the connection is gone with the process.                   *)
CallBroken ==
  /\ pc = "lost"
  /\ Goto("ready") /\ InCall

-----------------------------------------------------------------------------
(* The service process: runServer decodes its arguments, calls the start     *)
(* function, which serves RPC on the socket (ServeLocalRPC).                 *)
Serve ==
  /\ status = "starting"
  /\ status' = "listening"
  /\ UNCHANGED <<unit, running, exe, stored, hook, hist>> /\ NoFault

(* The start function fails, or the process dies or ends by itself.          *)
Die ==
  /\ Alive /\ Error
  /\ status' = "died"
  /\ pc' = IF pc = "rpc" THEN "lost" ELSE pc
  /\ UNCHANGED <<unit, running, exe, stored, rec, op, want, ops, hist>>

Respawn ==
  /\ status = "died" /\ unit # NoUnit
  /\ Launch
  /\ UNCHANGED <<stored, hook, hist>> /\ NoFault

(* The machine stops: the hook's record is lost with it, and the service is  *)
(* down until the boot starts it, if it does.                                *)
Reboot ==
  /\ Fault
  /\ pc' = "idle"
  /\ status' \in {"stopped"} \cup {s \in {"died"} : unit # NoUnit}
  /\ UNCHANGED <<unit, running, exe, stored, rec, op, want, ops, hist>>

(* The hook process alone is killed.                                         *)
KillHook ==
  /\ ~Idle /\ Fault
  /\ pc' = "idle"
  /\ UNCHANGED <<os, stored, rec, op, want, ops, hist>>

(* Juju unpacks a new version of the charm and runs its upgrade-charm hook.  *)
(* The package registers nothing for it (Register's call is commented out),  *)
(* so that the hook does to the service what the charm itself does.          *)
Upgrade ==
  /\ Idle /\ exe < MaxUpgrades
  /\ exe' = exe + 1 /\ fresh' = FALSE
  /\ pc' = "ready" /\ rec' = stored /\ ops' = 0
  /\ UNCHANGED <<unit, status, running, stored, op, want, asking, first, half>>
  /\ NoFault

-----------------------------------------------------------------------------
Operation ==
  \/ (\E a \in Args : Start(a)) \/ Restart \/ Stop \/ StopAndRemove \/ Call

Step ==
  \/ OSInstall \/ OSStart \/ OSStop \/ OSUninstall \/ OSError
  \/ DialOK \/ DialTimeout \/ CallBroken

Next ==
  \/ BeginHook \/ EndHook \/ Operation \/ Step \/ CallAnswered
  \/ Serve \/ Die \/ Respawn \/ Reboot \/ KillHook \/ Upgrade

(* An operation that was begun goes on.  Nothing obliges a hook to start,    *)
(* the service manager to respawn a process or a process to serve or answer. *)
Spec == Init /\ [][Next]_vars /\ WF_vars(Step)

-----------------------------------------------------------------------------
(* A service process that runs was started from the unit that is installed:  *)
(* removing the unit never leaves a process behind, whichever calls of the   *)
(* service manager failed and wherever the hook was killed.                  *)
NoOrphan == Alive => unit # NoUnit /\ running.args = unit

(* Without crashes, a service that is recorded as installed is installed, in *)
(* the hook at every step and on disk between hooks, whatever failed.        *)
RecordedIsInstalled ==
  crashes = 0 =>
    /\ ~Idle /\ rec.installed => unit # NoUnit
    /\ Idle /\ stored.installed => unit # NoUnit

(* Without crashes the record accounts for every installed unit between any  *)
(* two operations, whatever failed: a unit is there just if one is on record *)
(* or if the start that followed its install failed, when svc.state was not  *)
(* written (service.go:112).  StopAndRemove then does nothing.               *)
UnitAccounted ==
  crashes = 0 =>
    /\ pc = "ready" => (unit # NoUnit <=> rec.installed \/ half)
    /\ Idle => (unit # NoUnit <=> stored.installed \/ half)

(* The service runs with the arguments of the first Start or Restart that    *)
(* found no unit, over failures, respawns, restarts and upgrades: contrary   *)
(* to service.go:93-95 a later Start with others does not change them.       *)
FirstArgsKept == Alive => running.args = first

(* After a Restart succeeded the service never runs, respawned or not, the   *)
(* executable of an earlier version of the charm.                            *)
RestartPicksUpUpgrade == fresh /\ Alive => running.version = exe

(* Every operation returns: a Call to a service that does not listen gives   *)
(* up, and so does one whose service dies.  But a Call waits for ever on a   *)
(* process that lives and does not answer (service.go:176 has no timeout).   *)
Busy == pc \notin {"idle", "ready"}

OperationsReturn == Busy ~> (~Busy \/ [](pc = "rpc" /\ Alive))
=============================================================================
