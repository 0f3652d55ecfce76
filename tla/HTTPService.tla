----------------------------- MODULE HTTPService -----------------------------
(* The hook side of httpservice (charmbits/httpservice/service.go) composed  *)
(* with its server process (module HTTPServer).                              *)
(*                                                                           *)
(* Every hook of the charm ends with two wildcard functions: one collects    *)
(* the values of the relations, the other, changed, compares what the charm  *)
(* asked for with the state of the OS service, stops or starts the process   *)
(* and sends it the whole state with the RPC Set.  The charm's own functions *)
(* run before and may call Start, Stop and Restart.  Between any two steps   *)
(* of a hook the server process goes on, may die and be started again, and   *)
(* the hook itself may be killed, leaving a Set it has sent in progress.     *)
(*                                                                           *)
(* The ports that httprelation's provider records follow the configuration   *)
(* in one step here (module HTTPProvider has its detail), installing and     *)
(* starting the OS service are one step (CharmService), and so is the save   *)
(* of the states at the end of a hook (HookMain).  Juju runs a failed or     *)
(* killed hook again before any other.                                       *)
(*                                                                           *)
(* The variables and steps of the server are HTTPServer's own.               *)
EXTENDS HTTPServer

CONSTANTS
  Confs,               \* configurations: [http, https, cert], where NoPort
                       \* stands for a port that is not valid
  MaxChanges,          \* bound on changes of configuration and relation
  MaxOps,              \* bound on the hooks in which the charm itself acts
  MaxFaults            \* bound on deaths, reboots, killed hooks and errors

VARIABLES
  \* Juju and the operating system:
  conf,      \* the configuration
  data,      \* what the relations of the fields say
  due,       \* hooks to run
  must,      \* the hook to run again before any other
  mgr,       \* the OS service: "none", "stopped" or "started"
  \* The hook process:
  at,        \* its next step; "idle" when there is none
  hook,      \* which hook it is
  snap,      \* configuration and relations as they were when it started
  mem,       \* the states of httpservice, of its provider and its service
  vals,      \* svc.relationValues
  back,      \* where changed returns to
  caller,    \* the connection of the last Set that a hook sent
  failed,    \* has a function returned an error?
  stored,    \* mem as saved on disk
  changes, ops, errors,
  \* History, read by the properties and by no action:
  booted,    \* no hook has run since the machine booted
  overtaken  \* the last Set that ran was older than the last one sent

juju    == <<conf, data, due, must, changes, ops>>
process == <<hook, snap, mem, vals, back, caller, failed>>
hist    == <<booted, overtaken>>
serviceVars == <<vars, juju, mgr, at, process, stored, errors, hist>>

Kinds    == {"config", "relation"}
Acts     == [kind : {"start"}, arg : Args]
              \cup [kind : {"stop", "restart"}, arg : {Nil}]
NoHook   == [kind |-> "none", arg |-> Nil]
HookSet  == Acts \cup [kind : Kinds, arg : {Nil}] \cup {NoHook}
RelData  == [Fields -> Urls \cup {Nil}]
PortSet  == Ports \cup {NoPort}
Memory   == [started : BOOLEAN, arg : Args \cup {Nil}, inst : BOOLEAN,
             http : PortSet, https : PortSet]

ServiceTypeOK ==
  /\ TypeOK
  /\ conf \in Confs /\ data \in RelData
  /\ due \in SUBSET Kinds /\ must \in HookSet /\ hook \in HookSet
  /\ mgr \in {"none", "stopped", "started"}
  /\ mgr = "none" => life = "down"
  /\ at \in {"idle", "own", "collect", "changed", "stop", "start", "call",
             "wait", "answered", "lost", "end"}
  /\ at \in {"call", "wait"} => mem.started
  /\ snap \in [conf : Confs, data : RelData]
  /\ mem \in Memory /\ stored \in Memory
  /\ mem.started <=> mem.arg # Nil
  /\ vals \in RelData
  /\ back \in {"collect", "end"}
  /\ caller \in Callers /\ failed \in BOOLEAN
  /\ at = "wait" => by = caller \/ pending[caller] # Nil
  /\ changes \in 0 .. MaxChanges /\ ops \in 0 .. MaxOps
  /\ errors \in 0 .. MaxFaults
  /\ booted \in BOOLEAN /\ overtaken \in BOOLEAN

NoMemory == [started |-> FALSE, arg |-> Nil, inst |-> FALSE,
             http |-> NoPort, https |-> NoPort]

(* The install hook configures the ports too, so that one is due.            *)
ServiceInit ==
  /\ Init
  /\ conf \in Confs /\ data = NoSessions
  /\ due = {"config"} /\ must = NoHook /\ mgr = "none"
  /\ at = "idle" /\ hook = NoHook /\ snap = [conf |-> conf, data |-> data]
  /\ mem = NoMemory /\ stored = NoMemory
  /\ vals = NoSessions /\ back = "end"
  /\ caller \in Callers /\ failed = FALSE
  /\ changes = 0 /\ ops = 0 /\ errors = 0
  /\ booted = FALSE /\ overtaken = FALSE

Fault == errors < MaxFaults /\ errors' = errors + 1
Alive == life # "down"

-----------------------------------------------------------------------------
(* Juju.                                                                     *)

ChangeConfig ==
  /\ changes < MaxChanges /\ changes' = changes + 1
  /\ conf' \in Confs \ {conf} /\ due' = due \cup {"config"}
  /\ UNCHANGED <<vars, data, must, ops, mgr, at, process, stored, errors, hist>>

ChangeRelation ==
  /\ changes < MaxChanges /\ changes' = changes + 1
  /\ \E v \in Urls \cup {Nil}, f \in Fields :
       v # data[f] /\ data' = [data EXCEPT ![f] = v]
  /\ due' = due \cup {"relation"}
  /\ UNCHANGED <<vars, conf, must, ops, mgr, at, process, stored, errors, hist>>

(* A hook process starts, with its states loaded and no relation values.     *)
StartHook(h) ==
  /\ at = "idle" /\ must \in {NoHook, h}
  /\ at' = "own" /\ hook' = h /\ must' = h
  /\ snap' = [conf |-> conf, data |-> data]
  /\ mem' = stored /\ vals' = NoSessions /\ failed' = FALSE
  /\ booted' = FALSE
  /\ UNCHANGED <<vars, conf, data, changes, mgr, back, caller, stored, errors,
                 overtaken>>

RunDue(kind) ==
  /\ kind \in due \/ must.kind = kind
  /\ StartHook([kind |-> kind, arg |-> Nil])
  /\ due' = due \ {kind} /\ UNCHANGED ops

(* A hook in which a function of the charm acts on the service; it restarts  *)
(* only a service that it has started before.                                *)
RunAct(act) ==
  /\ StartHook(act)
  /\ act.kind = "restart" => stored.inst
  /\ \/ must = act /\ UNCHANGED ops
     \/ must # act /\ ops < MaxOps /\ ops' = ops + 1
  /\ UNCHANGED due

-----------------------------------------------------------------------------
(* The hook process.                                                         *)

InHook == UNCHANGED <<juju, stored, hook, snap, caller, hist>>
Alone  == UNCHANGED <<vars, mgr>>

(* configurePort ignores an invalid port, NoPort here, and keeps the one on  *)
(* record.                                                                   *)
Follow(port, recorded) == IF port = NoPort THEN recorded ELSE port

FollowConf(m, c) ==
  [m EXCEPT !.http = Follow(c.http, m.http), !.https = Follow(c.https, m.https)]

(* The functions registered for the hook.  Start and Stop set the state and  *)
(* call changed, which then goes without the values of the relations.        *)
ConfigChanged ==
  /\ at = "own" /\ hook.kind = "config"
  /\ mem' = FollowConf(mem, snap.conf)
  /\ at' = "collect"
  /\ InHook /\ Alone /\ UNCHANGED <<vals, back, failed, errors>>

RelationChanged ==
  /\ at = "own" /\ hook.kind = "relation"
  /\ at' = "collect"
  /\ InHook /\ Alone /\ UNCHANGED <<mem, vals, back, failed, errors>>

StartService ==
  /\ at = "own" /\ hook.kind = "start"
  /\ mem' = [mem EXCEPT !.started = TRUE, !.arg = hook.arg]
  /\ at' = "changed" /\ back' = "collect"
  /\ InHook /\ Alone /\ UNCHANGED <<vals, failed, errors>>

StopKeepsArg ==                                          \* a mutant
  /\ at = "own" /\ hook.kind = "stop"
  /\ mem' = [mem EXCEPT !.started = FALSE]
  /\ at' = "changed" /\ back' = "collect"
  /\ InHook /\ Alone /\ UNCHANGED <<vals, failed, errors>>

StopService ==
  /\ at = "own" /\ hook.kind = "stop"
  /\ mem' = [mem EXCEPT !.started = FALSE, !.arg = Nil]
  /\ at' = "changed" /\ back' = "collect"
  /\ InHook /\ Alone /\ UNCHANGED <<vals, failed, errors>>

RestartService ==
  /\ at = "own" /\ hook.kind = "restart"
  /\ at' = "stop" /\ back' = "collect"
  /\ InHook /\ Alone /\ UNCHANGED <<mem, vals, failed, errors>>

(* The first wildcard function.                                              *)
CollectNothing ==                                        \* a mutant
  /\ at = "collect"
  /\ at' = "changed" /\ back' = "end"
  /\ InHook /\ Alone /\ UNCHANGED <<mem, vals, failed, errors>>

Collect ==
  /\ at = "collect"
  /\ vals' = snap.data
  /\ at' = "changed" /\ back' = "end"
  /\ InHook /\ Alone /\ UNCHANGED <<mem, failed, errors>>

(* Is there something to serve, with these states and this configuration?    *)
Wants(m, c) ==
  m.started /\ ~(m.http = NoPort /\ (m.https = NoPort \/ c.cert = Nil))

State(m, c, values) ==
  [http |-> m.http, https |-> m.https, cert |-> c.cert, arg |-> m.arg,
   rels |-> values]

(* What a hook may ask for is among the requests that the server is ready    *)
(* for.                                                                      *)
ASSUME ServiceAssumption ==
  /\ Confs \subseteq [http : PortSet, https : PortSet, cert : Certs \cup {Nil}]
  /\ \A m \in Memory, c \in Confs, v \in RelData : State(m, c, v) \in Requests
  /\ MaxChanges \in Nat /\ MaxOps \in Nat /\ MaxFaults \in Nat

(* changed: read the certificate and see whether the service runs.           *)
ChangedNeverStops ==                                     \* a mutant
  /\ at = "changed"
  /\ at' = CASE ~Wants(mem, snap.conf) -> back
             [] Wants(mem, snap.conf) /\ Alive -> "call"
             [] OTHER -> "start"
  /\ InHook /\ Alone /\ UNCHANGED <<mem, vals, back, failed, errors>>

Changed ==
  /\ at = "changed"
  /\ at' = CASE ~Wants(mem, snap.conf) -> "stop"
             [] Wants(mem, snap.conf) /\ Alive -> "call"
             [] OTHER -> "start"
  /\ InHook /\ Alone /\ UNCHANGED <<mem, vals, back, failed, errors>>

(* The service manager stops the process; a service that is not running is   *)
(* no error.  Restart goes on to start it.                                   *)
Restarting == hook.kind = "restart" /\ back = "collect"

OSStop ==
  /\ at = "stop"
  /\ IF Alive THEN Terminate ELSE UNCHANGED vars
  /\ mgr' = IF mgr = "none" THEN "none" ELSE "stopped"
  /\ at' = IF Restarting THEN "start" ELSE back
  /\ InHook /\ UNCHANGED <<mem, vals, back, failed, errors>>

(* The service manager installs the service if need be and starts it: the    *)
(* process loads its file, and exits if it cannot.                           *)
OSStart ==
  /\ at = "start"
  /\ IF Alive THEN UNCHANGED vars ELSE Start \/ StartUnreadable
  /\ mgr' = "started" /\ mem' = [mem EXCEPT !.inst = TRUE]
  /\ at' = IF Restarting THEN back ELSE "call"
  /\ InHook /\ UNCHANGED <<vals, back, failed, errors>>

(* A function returns an error: no further function is called.               *)
Fail ==
  /\ at' = "end" /\ failed' = TRUE
  /\ InHook /\ Alone /\ UNCHANGED <<mem, vals, back>>

(* config-get of the certificate, or the service manager, fails.             *)
StepFails ==
  /\ at \in {"changed", "stop", "start"} /\ Fault
  /\ Fail

(* Service.Call: dial the server and send it the state.                      *)
CallNotStarted ==
  /\ at = "call" /\ ~mem.inst
  /\ Fail /\ UNCHANGED errors

CallOldArg(c) ==                                         \* a mutant
  /\ at = "call" /\ mem.inst
  /\ CallSet(c, [State(mem, snap.conf, vals) EXCEPT !.arg = stored.arg])
  /\ caller' = c /\ at' = "wait"
  /\ UNCHANGED <<juju, mgr, hook, snap, mem, vals, back, failed, stored, errors,
                 hist>>

Call(c) ==
  /\ at = "call" /\ mem.inst
  /\ CallSet(c, State(mem, snap.conf, vals))
  /\ caller' = c /\ at' = "wait"
  /\ UNCHANGED <<juju, mgr, hook, snap, mem, vals, back, failed, stored, errors,
                 hist>>

(* The dial is retried for a while: it fails if the process is gone, or if   *)
(* it is slow to start, which counts as an error.                            *)
DialTimeout ==
  /\ at = "call" /\ mem.inst /\ life # "up"
  /\ IF Alive THEN Fault ELSE UNCHANGED errors
  /\ Fail

(* The answer is there: warnings are logged, an error fails the hook.        *)
WarningFails ==                                          \* a mutant
  /\ at = "answered"
  /\ at' = IF warned THEN "end" ELSE back
  /\ failed' = warned
  /\ InHook /\ Alone /\ UNCHANGED <<mem, vals, back, errors>>

Answered ==
  /\ at = "answered"
  /\ at' = back
  /\ InHook /\ Alone /\ UNCHANGED <<mem, vals, back, failed, errors>>

AnswerLost ==
  /\ at = "lost"
  /\ Fail /\ UNCHANGED errors

(* The hook ends: its states are saved, and it is run again if it failed.    *)
EndHook ==
  /\ at = "end"
  /\ at' = "idle" /\ stored' = mem
  /\ must' = IF failed THEN hook ELSE NoHook
  /\ UNCHANGED <<vars, conf, data, due, changes, ops, mgr, process, errors, hist>>

(* The hook process is killed.  Nobody waits for its Set any more.           *)
KillHook ==
  /\ at # "idle" /\ Fault
  /\ at' = "idle"
  /\ UNCHANGED <<vars, juju, mgr, process, stored, hist>>

-----------------------------------------------------------------------------
(* The server process.                                                       *)

Aside == UNCHANGED <<juju, mgr, process, stored>>

(* The hook that waits for the Set in progress learns that it returned, and  *)
(* whether the state was saved; that it is not counts as an error.           *)
SetReturns == pc' = "idle" /\ by # Boot
SaveFailed == pc = "store" \/ file' = Torn

ServerWorks ==
  /\ SetStep
  /\ at' = IF at = "wait" /\ by = caller /\ SetReturns
             THEN IF SaveFailed THEN "lost" ELSE "answered"
             ELSE at
  /\ IF SetReturns /\ SaveFailed THEN Fault ELSE UNCHANGED errors
  /\ Aside /\ UNCHANGED hist

ServerLocks(c) ==
  /\ LockSet(c)
  /\ overtaken' = (c # caller)
  /\ Aside /\ UNCHANGED <<at, errors, booted>>

(* The process dies.                                                         *)
Die ==
  /\ Alive /\ Fault
  /\ Terminate
  /\ at' = IF at = "wait" THEN "lost" ELSE at
  /\ Aside /\ UNCHANGED hist

Respawn ==
  /\ mgr = "started" /\ ~Alive
  /\ Start \/ StartUnreadable
  /\ Aside /\ UNCHANGED <<at, errors, hist>>

(* The machine reboots.  An installed service may be started by the boot,    *)
(* even one that was stopped.                                                *)
Reboot ==
  /\ Fault
  /\ at' = "idle"
  /\ IF Alive THEN Terminate ELSE UNCHANGED vars
  /\ \/ mgr' = mgr /\ UNCHANGED booted
     \/ mgr # "none" /\ mgr' = "started" /\ booted' = TRUE
  /\ UNCHANGED <<juju, process, stored, overtaken>>

HookStep ==
  \/ ConfigChanged \/ RelationChanged
  \/ StartService \/ StopService \/ RestartService
  \/ Collect \/ Changed \/ OSStop \/ OSStart \/ StepFails
  \/ CallNotStarted \/ (\E c \in Callers : Call(c)) \/ DialTimeout
  \/ Answered \/ AnswerLost \/ EndHook

ServiceNext ==
  \/ ChangeConfig \/ ChangeRelation
  \/ (\E kind \in Kinds : RunDue(kind)) \/ (\E act \in Acts : RunAct(act))
  \/ HookStep \/ KillHook
  \/ ServerWorks \/ (\E c \in Callers : ServerLocks(c))
  \/ Die \/ Respawn \/ Reboot

(* Juju runs some hook while one is due or must be run again, a hook that    *)
(* runs goes on, and the server goes on with a Set or takes one that waits.  *)
Resume ==
  \/ \E kind \in Kinds : RunDue(kind)
  \/ \E act \in Acts : must = act /\ RunAct(act)

ServiceFairness ==
  /\ WF_serviceVars(Resume) /\ WF_serviceVars(HookStep)
  /\ WF_serviceVars(ServerWorks \/ \E c \in Callers : ServerLocks(c))

ServiceSpec == ServiceInit /\ [][ServiceNext]_serviceVars /\ ServiceFairness

-----------------------------------------------------------------------------
(* No hook is due or has to be run again.                                    *)
Settled == at = "idle" /\ due = {} /\ must = NoHook

(* What the server has to serve then: what is configured, but for an invalid *)
(* port in the place of which the recorded one goes on being served.         *)
Wanted == State(FollowConf(stored, conf), conf, data)

(* Nothing upset the order of the calls, and the machine was not just booted *)
(* (a boot may start a service that had been stopped).                       *)
Undisturbed == ~overtaken /\ ~booted

(* A service that the charm has stopped, or that has no port to serve, does  *)
(* not run once the hooks are done: no death and respawn brings it back.     *)
UnwantedIsDown == Settled /\ ~booted /\ Alive => Wants(stored, conf)

(* Once the hooks are done the last state the server was set to, by a call   *)
(* or from its file, is the one that configuration, relations and charm now  *)
(* ask for: after failed and killed hooks and restarts of the process too.   *)
LastSetIsWanted == Settled /\ Undisturbed /\ AtRest => cur = Wanted

(* And if nothing failed in that Set it is served: its ports, certificate,   *)
(* argument and relations, and nothing else (no handler having failed in     *)
(* this process, see HandlerGetsRelations of HTTPServer).                    *)
WantedIsServed ==
  Settled /\ Undisturbed /\ AtRest /\ quiet /\ ~stranded => Serving(Wanted)

(* The service runs but the record of having started it was lost.            *)
Disowned == Alive /\ ~stored.inst

(* The hooks come to an end, unless the server can no longer read its file   *)
(* or the record of the service was lost.                                    *)
EventuallySettled == <>[](Settled \/ refused \/ Disowned)
=============================================================================
