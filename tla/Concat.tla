------------------------------- MODULE Concat -------------------------------
(* The concat example charm (example-charms/concat): its hooks, with the     *)
(* record of what was told to everyone, and the server process they tell.    *)
(*                                                                           *)
(* A hook works out the state it would like (newState), and a wildcard       *)
(* function run after all others tells the server and every downstream       *)
(* relation and then makes it the committed state.  The server saves what it *)
(* is told and serves it; its HTTP goroutines read the listener without the  *)
(* mutex that Set holds.  A hook may fail or be killed at any step and is    *)
(* then run again by Juju; the server may die at any step and is started     *)
(* again by the service manager.                                             *)
EXTENDS Naturals, Sequences

CONSTANTS
  Words,        \* what a configuration or an upstream unit may say
  NumUnits,     \* upstream units, numbered in the order of their names
  Rels,         \* ids of downstream relations
  Ports,        \* the valid ports the charm may be configured with
  Unset,        \* Go's "", the value before there is a joined one
  Torn, Absent, \* the server's file, half written or not there
  MaxChanges,   \* bound on changes of configuration, units and relations
  MaxFaults     \* bound on failures, kills and deaths

NoPort == 0            \* no port, or one that is not valid
Gone   == "gone"       \* a unit that is not there
NoVal  == ""           \* a configuration or a unit that says nothing

Units == 1 .. NumUnits

(* fmt.Sprintf("{%s}", strings.Join(vals, " ")): the configured value unless *)
(* it is empty, and the units' values in the order of their names.           *)
Joined(word, units) ==
  (IF word = NoVal THEN << >> ELSE <<word>>)
    \o SelectSeq([n \in Units |-> units[n]], LAMBDA v : v # Gone)

Said  == Words \cup {NoVal}

Value == {Unset} \cup
  {Joined(w, us) : w \in Said, us \in [Units -> Said \cup {Gone}]}

State == [val : Value, port : Ports \cup {NoPort}]
Zero  == [val |-> Unset, port |-> NoPort]

(* A joined value is never empty: it has its braces.                         *)
ASSUME ConcatAssumption ==
  /\ NumUnits \in Nat /\ MaxChanges \in Nat /\ MaxFaults \in Nat
  /\ Ports \subseteq Nat \ {NoPort}
  /\ {Gone, NoVal} \cap Words = {}
  /\ {"none", "config", "upstream"} \cap Rels = {}
  /\ \A w \in Said, us \in [Units -> Said \cup {Gone}] : Joined(w, us) # Unset
  /\ {Torn, Absent} \cap State = {}

None  == "none"
Hooks == {"config", "upstream"} \cup Rels

(* The saved values: the committed state, the HTTP port that the provider    *)
(* has recorded and whether the service was installed.                       *)
Memory   == [state : State, port : Ports \cup {NoPort}, inst : BOOLEAN]
NoMemory == [state |-> Zero, port |-> NoPort, inst |-> FALSE]

VARIABLES
  conf,      \* the configuration: the word and the HTTP port
  units,     \* what the upstream units say
  ids,       \* the downstream relations there are
  told,      \* the value each downstream relation has been told
  due, must, \* the hooks to be run, and the one that has to be run again
  changes, faults,
  disk, mem, \* what is saved, and what the hook process has loaded
  hp,        \* the hook process: its next step and what it goes by
  file,      \* the server's serverstate.json
  unit,      \* has the service manager been told to run the server?
  sp,        \* the server process: where set is, with svc.mu held, and svc
  calls,     \* the calls of Set that wait for svc.mu
  \* History, read by the properties and by no action:
  spoke,     \* has this hook told anyone something new?
  strayed    \* someone may have been told what is not on record

world == <<conf, units, ids, changes>>
hooks == <<due, must, disk, mem, hp, told>>
serv  == <<file, unit, sp, calls>>
hist  == <<spoke, strayed>>
vars  == <<world, hooks, faults, serv, hist>>

NoServer ==
  [life |-> "down", pc |-> "idle", req |-> Zero, mine |-> FALSE,
   state |-> Zero, listener |-> NoPort,
   fresh |-> FALSE,    \* the goroutine of this listener has yet to read it
   stale |-> 0]        \* goroutines of closed listeners that have yet to

TypeOK ==
  /\ conf \in [word : Said, port : Ports \cup {NoPort}]
  /\ units \in [Units -> Said \cup {Gone}]
  /\ ids \subseteq Rels /\ told \in [Rels -> Value]
  /\ due \subseteq Hooks /\ must \in Hooks \cup {None}
  /\ changes \in 0 .. MaxChanges /\ faults \in 0 .. MaxFaults
  /\ disk \in Memory /\ mem \in Memory
  /\ hp \in [pc : {"idle", "funcs", "finally", "call", "wait", "tell", "save"},
             name : Hooks, units : [Units -> Said \cup {Gone}],
             ids : SUBSET Rels, new : State, todo : SUBSET Rels,
             failed : BOOLEAN]
  /\ file \in State \cup {Torn, Absent} /\ unit \in BOOLEAN
  /\ sp \in [life : {"down", "starting", "up"},
             pc : {"idle", "close", "listen", "open", "write"},
             req : State, mine : BOOLEAN, state : State,
             listener : Ports \cup {NoPort}, fresh : BOOLEAN, stale : Nat]
  /\ calls \subseteq [st : State, mine : BOOLEAN]
  /\ spoke \in BOOLEAN /\ strayed \in BOOLEAN

Init ==
  /\ conf = [word |-> NoVal, port |-> NoPort]
  /\ units = [n \in Units |-> Gone] /\ ids = {}
  /\ told = [r \in Rels |-> Unset]
  /\ due = {"config"} /\ must = None /\ changes = 0 /\ faults = 0
  /\ disk = NoMemory /\ mem = NoMemory
  /\ hp = [pc |-> "idle", name |-> "config", units |-> units, ids |-> ids,
           new |-> Zero, todo |-> {}, failed |-> FALSE]
  /\ file = Absent /\ unit = FALSE /\ sp = NoServer /\ calls = {}
  /\ spoke = FALSE /\ strayed = FALSE

Fault == faults < MaxFaults /\ faults' = faults + 1

-----------------------------------------------------------------------------
(* What happens outside: each change makes a hook due.                       *)

Outside(h) ==
  /\ changes < MaxChanges /\ changes' = changes + 1
  /\ due' = due \cup {h}
  /\ UNCHANGED <<told, must, disk, mem, hp, faults, serv, hist>>

ChangeConfig ==
  /\ \E w \in Said, p \in Ports \cup {NoPort} :
       conf' = [word |-> w, port |-> p]
  /\ conf' # conf
  /\ Outside("config") /\ UNCHANGED <<units, ids>>

ChangeUnit ==
  /\ \E n \in Units, w \in Said \cup {Gone} :
       units' = [units EXCEPT ![n] = w]
  /\ units' # units
  /\ Outside("upstream") /\ UNCHANGED <<conf, ids>>

AddRelation(r) ==
  /\ r \notin ids /\ ids' = ids \cup {r}
  /\ Outside(r) /\ UNCHANGED <<conf, units>>

-----------------------------------------------------------------------------
(* The server process.                                                       *)

(* startServer: load the state and set it, before there is an RPC server.    *)
(* A file that does not unmarshal ends the process at once.                  *)
Boot ==
  IF sp.life = "down" /\ file # Torn
    THEN sp' = [sp EXCEPT !.life = "starting", !.pc = "close",
                          !.req = IF file = Absent THEN Zero ELSE file]
    ELSE UNCHANGED sp

Respawn ==
  /\ unit /\ sp.life = "down" /\ file # Torn
  /\ Boot
  /\ UNCHANGED <<world, hooks, faults, file, unit, calls, hist>>

(* The hook that waits for an answer gets it.                                *)
Reply(ok) ==
  hp' = IF sp.mine /\ hp.pc = "wait"
          THEN [hp EXCEPT !.pc = IF ok THEN "tell" ELSE "save", !.failed = ~ok]
          ELSE hp

SetLock(c) ==
  /\ sp.life = "up" /\ sp.pc = "idle" /\ c \in calls
  /\ calls' = calls \ {c}
  /\ sp' = [sp EXCEPT !.pc = "close", !.req = c.st, !.mine = c.mine]
  /\ UNCHANGED <<world, hooks, faults, file, unit, hist>>

(* What follows when set has succeeded.                                      *)
SetDone(s) ==
  [s EXCEPT !.state = s.req, !.life = "up",
            !.pc = IF s.life = "starting" THEN "idle" ELSE "open"]

(* The listener is closed if it is not wanted or not on the right port.      *)
SetCloseKeeps ==                                         \* a mutant
  /\ sp.pc = "close"
  /\ sp' = IF sp.listener = NoPort /\ sp.req.port # NoPort
             THEN [sp EXCEPT !.pc = "listen"] ELSE SetDone(sp)
  /\ UNCHANGED <<world, hooks, faults, file, unit, calls, hist>>

SetClose ==
  /\ sp.pc = "close"
  /\ LET closed ==
           IF (sp.req.port = NoPort \/ sp.req.port # sp.state.port)
                /\ sp.listener # NoPort
             THEN [sp EXCEPT !.listener = NoPort, !.fresh = FALSE,
                             !.stale = @ + (IF sp.fresh THEN 1 ELSE 0)]
             ELSE sp
     IN sp' = IF closed.listener = NoPort /\ sp.req.port # NoPort
                THEN [closed EXCEPT !.pc = "listen"] ELSE SetDone(closed)
  /\ UNCHANGED <<world, hooks, faults, file, unit, calls, hist>>

SetListen ==
  /\ sp.pc = "listen"
  /\ sp' = SetDone([sp EXCEPT !.listener = sp.req.port, !.fresh = TRUE])
  /\ UNCHANGED <<world, hooks, faults, file, unit, calls, hist>>

(* Listen fails: Set returns the error, and startServer is fatal.            *)
ListenFails ==
  /\ sp.pc = "listen" /\ Fault
  /\ sp' = IF sp.life = "starting" THEN NoServer ELSE [sp EXCEPT !.pc = "idle"]
  /\ Reply(FALSE)
  /\ UNCHANGED <<world, due, must, disk, mem, told, file, unit, calls, hist>>

(* saveState truncates the file and writes it.                               *)
StoreOpen ==
  /\ sp.pc = "open"
  /\ file' = Torn /\ sp' = [sp EXCEPT !.pc = "write"]
  /\ UNCHANGED <<world, hooks, faults, unit, calls, hist>>

StoreWrite ==
  /\ sp.pc = "write"
  /\ file' = sp.state /\ sp' = [sp EXCEPT !.pc = "idle"]
  /\ Reply(TRUE)
  /\ UNCHANGED <<world, due, must, disk, mem, told, faults, unit, calls, hist>>

StoreFailsLocked ==                                      \* a mutant
  /\ sp.pc \in {"open", "write"} /\ Fault
  /\ sp' = [sp EXCEPT !.pc = "held"]
  /\ Reply(FALSE)
  /\ UNCHANGED <<world, due, must, disk, mem, told, file, unit, calls, hist>>

StoreFails ==
  /\ sp.pc \in {"open", "write"} /\ Fault
  /\ sp' = [sp EXCEPT !.pc = "idle"]
  /\ Reply(FALSE)
  /\ UNCHANGED <<world, due, must, disk, mem, told, file, unit, calls, hist>>

(* The goroutine of a listener calls Serve with what svc.listener is then.   *)
ServeFresh ==
  /\ sp.fresh
  /\ sp' = [sp EXCEPT !.fresh = FALSE]
  /\ UNCHANGED <<world, hooks, faults, file, unit, calls, hist>>

(* One that comes late reads its own closed listener, or the next one.       *)
ServeStale ==
  /\ sp.stale > 0
  /\ sp' = [sp EXCEPT !.stale = @ - 1]
  /\ UNCHANGED <<world, hooks, faults, file, unit, calls, hist>>

Down ==
  /\ sp' = NoServer /\ calls' = {}
  /\ hp' = IF hp.pc = "wait" THEN [hp EXCEPT !.pc = "save", !.failed = TRUE]
           ELSE hp
  /\ UNCHANGED <<world, due, must, disk, mem, told, file, unit, hist>>

(* Or it reads nil, and Serve panics.                                        *)
ServeNil == sp.stale > 0 /\ sp.listener = NoPort /\ Fault /\ Down

Die == sp.life # "down" /\ Fault /\ Down

-----------------------------------------------------------------------------
(* The hook process.                                                         *)

Hook(step) ==
  /\ hp.pc = step
  /\ UNCHANGED <<world, due, must, disk>>

Goto(step) == hp' = [hp EXCEPT !.pc = step]
Fail == hp' = [hp EXCEPT !.pc = "save", !.failed = TRUE]

(* The state values are loaded, and setContext copies the committed state.   *)
StartHook(h) ==
  /\ hp.pc = "idle"
  /\ h = must \/ (must = None /\ h \in due)
  /\ due' = due \ {h} /\ must' = h
  /\ mem' = disk
  /\ hp' = [pc |-> "funcs", name |-> h, units |-> units, ids |-> ids,
            new |-> disk.state, todo |-> {}, failed |-> FALSE]
  /\ sp' = [sp EXCEPT !.mine = FALSE]
  /\ spoke' = FALSE
  /\ UNCHANGED <<world, disk, told, faults, file, unit, calls, strayed>>

(* configurePort ignores an invalid port, NoPort here, and keeps the one on  *)
(* record.                                                                   *)
Follow(port, recorded) == IF port = NoPort THEN recorded ELSE port

(* The provider's configChanged records the port, and then changed works out *)
(* the state from the configuration and the relations.                       *)
Changed ==
  /\ Hook("funcs") /\ hp.name \in {"config", "upstream"}
  /\ mem' = IF hp.name = "config"
              THEN [mem EXCEPT !.port = Follow(conf.port, @)] ELSE mem
  /\ hp' = [hp EXCEPT !.pc = "finally",
                      !.new = [val |-> Joined(conf.word, hp.units),
                               port |-> mem'.port]]
  /\ UNCHANGED <<told, faults, serv, hist>>

DownstreamJoined ==
  /\ Hook("funcs") /\ hp.name \in Rels
  /\ told' = [told EXCEPT ![hp.name] = mem.state.val]
  /\ Goto("finally")
  /\ UNCHANGED <<mem, faults, serv, hist>>

FinallyUnchanged ==
  /\ Hook("finally") /\ hp.new = mem.state
  /\ Goto("save")
  /\ UNCHANGED <<told, mem, faults, serv, hist>>

FinallyCommitsFirst ==                                   \* a mutant
  /\ Hook("finally") /\ hp.new # mem.state
  /\ Goto("call")
  /\ mem' = [mem EXCEPT !.inst = @ \/ sp.life = "down", !.state = hp.new]
  /\ unit' = TRUE /\ Boot
  /\ UNCHANGED <<told, faults, file, calls, hist>>

(* notifyServer: start the service unless the service manager says it runs.  *)
FinallyChanged ==
  /\ Hook("finally") /\ hp.new # mem.state
  /\ Goto("call")
  /\ mem' = [mem EXCEPT !.inst = @ \/ sp.life = "down"]
  /\ unit' = TRUE /\ Boot
  /\ UNCHANGED <<told, faults, file, calls, hist>>

CallNotStarted ==
  /\ Hook("call") /\ ~mem.inst
  /\ Fail
  /\ UNCHANGED <<told, mem, faults, serv, hist>>

CallSet ==
  /\ Hook("call") /\ mem.inst /\ sp.life = "up"
  /\ calls' = calls \cup {[st |-> hp.new, mine |-> TRUE]}
  /\ Goto("wait") /\ spoke' = TRUE
  /\ UNCHANGED <<told, mem, faults, file, unit, sp, strayed>>

(* The server does not listen in time, or will never.                        *)
DialTimeout ==
  /\ Hook("call") /\ mem.inst /\ sp.life # "up"
  /\ Fault \/ (file = Torn /\ sp.life = "down" /\ UNCHANGED faults)
  /\ Fail
  /\ UNCHANGED <<told, mem, serv, hist>>

(* Every downstream relation, and then the commit.                           *)
TellDownstream(r) ==
  /\ Hook("tell") /\ r \in hp.ids \ hp.todo
  /\ told' = [told EXCEPT ![r] = hp.new.val]
  /\ hp' = [hp EXCEPT !.todo = @ \cup {r}]
  /\ UNCHANGED <<mem, faults, serv, hist>>

Commit ==
  /\ Hook("tell") /\ hp.todo = hp.ids
  /\ mem' = [mem EXCEPT !.state = hp.new]
  /\ Goto("save")
  /\ UNCHANGED <<told, faults, serv, hist>>

(* A hook tool or the service manager fails.                                 *)
StepFails ==
  /\ \E step \in {"funcs", "finally", "tell"} : Hook(step)
  /\ Fault /\ Fail
  /\ UNCHANGED <<told, mem, serv, hist>>

(* Someone was told what is not on record, or what is on record may have     *)
(* been overtaken by a call of an earlier hook.                              *)
Stray(committed) ==
  strayed' = IF spoke THEN ~committed \/ ~sp.mine \/ calls # {} ELSE strayed

EndHook ==
  /\ hp.pc = "save"
  /\ disk' = mem
  /\ Goto("idle") /\ must' = IF hp.failed THEN hp.name ELSE None
  /\ Stray(~hp.failed)
  /\ UNCHANGED <<world, due, told, mem, faults, serv, spoke>>

(* The files are saved in the order the registries were registered: the      *)
(* provider's, the service's and the charm's own.                            *)
SaveStops ==
  disk' \in (IF hp.pc # "save" THEN {disk} ELSE
               {disk, [disk EXCEPT !.port = mem.port],
                [mem EXCEPT !.state = disk.state], mem})

(* A save fails, or the hook is killed, perhaps when all has been saved.     *)
KillHook ==
  /\ hp.pc # "idle" /\ Fault
  /\ SaveStops
  /\ Goto("idle")
  /\ sp' = [sp EXCEPT !.mine = FALSE]
  /\ calls' = {[c EXCEPT !.mine = FALSE] : c \in calls}
  /\ Stray(hp.pc = "save" /\ disk' = mem /\ ~hp.failed)
  /\ UNCHANGED <<world, due, must, told, mem, file, unit, spoke>>

HookStep ==
  \/ (\E h \in Hooks : StartHook(h)) \/ Changed \/ DownstreamJoined
  \/ FinallyUnchanged \/ FinallyChanged
  \/ CallNotStarted \/ CallSet \/ DialTimeout
  \/ (\E r \in Rels : TellDownstream(r)) \/ Commit \/ EndHook

ServerStep ==
  \/ (\E c \in calls : SetLock(c)) \/ SetClose \/ SetListen
  \/ StoreOpen \/ StoreWrite \/ ServeFresh \/ ServeStale \/ Respawn

Environment == ChangeConfig \/ ChangeUnit \/ (\E r \in Rels : AddRelation(r))

Failure ==
  ListenFails \/ StoreFails \/ ServeNil \/ Die \/ StepFails \/ KillHook

Next == HookStep \/ ServerStep \/ Environment \/ Failure

(* Juju runs the hooks that are due or have failed, and the service manager  *)
(* starts the server again.                                                  *)
Spec == Init /\ [][Next]_vars /\ WF_vars(HookStep) /\ WF_vars(ServerStep)

-----------------------------------------------------------------------------
Settled == hp.pc = "idle" /\ due = {} /\ must = None

AtRest == sp.life = "up" /\ sp.pc = "idle" /\ calls = {}

(* Once the hooks are done the record is what configuration and upstream     *)
(* units ask for (with the port recorded before if the configured one is     *)
(* invalid), every downstream relation has been told its value, and the      *)
(* server serves it and will after a restart: unless a hook that had told    *)
(* someone of a change was broken off, and none has told everyone since.     *)
(* (finally compares with the record only: if the change is taken back       *)
(* before the hook is run again, it finds nothing to do.)                    *)
SettledAgree ==
  Settled /\ ~strayed =>
    /\ disk.state = [val |-> Joined(conf.word, units), port |-> disk.port]
    /\ disk.port = Follow(conf.port, disk.port)
    /\ \A r \in ids : told[r] = disk.state.val
    /\ file = disk.state
    /\ AtRest => sp.state = disk.state /\ sp.listener = disk.port

(* "We've succeeded in notifying everything of the changes, so commit the    *)
(* state" (runhook.go:144): whenever another state is put on record, the     *)
(* server has saved it, unless a call of a killed hook came in between, and  *)
(* every relation whose joined hook is done has been told of it.             *)
CommitIsLast ==
  [][disk'.state # disk.state =>
       /\ \A r \in ids \ due : told[r] = disk'.state.val
       /\ sp.mine /\ sp.pc = "idle" => file = disk'.state]_vars

(* The service runs but the record of having started it was lost.            *)
Disowned == unit /\ ~disk.inst

(* Changes and failures being bounded the hooks come to an end, unless the   *)
(* server can no longer read its file or the record of it was lost.          *)
EventuallySettled == <>[](Settled \/ file = Torn \/ Disowned)
=============================================================================
