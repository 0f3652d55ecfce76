---------------------------- MODULE ConcatProofs ----------------------------
(* Proofs about Concat for any words, units, relations, ports and bounds.    *)
EXTENDS Concat, TLAPS

LEMMA Typed ==
  /\ NoPort \in Ports \cup {NoPort} /\ Zero \in State /\ Unset \in Value
  /\ \A w \in Said, us \in [Units -> Said \cup {Gone}] : Joined(w, us) \in Value
BY DEF Zero, State, Value

HookRec ==
  [pc : {"idle", "funcs", "finally", "call", "wait", "tell", "save"},
   name : Hooks, units : [Units -> Said \cup {Gone}],
   ids : SUBSET Rels, new : State, todo : SUBSET Rels, failed : BOOLEAN]

ServerRec ==
  [life : {"down", "starting", "up"},
   pc : {"idle", "close", "listen", "open", "write"},
   req : State, mine : BOOLEAN, state : State,
   listener : Ports \cup {NoPort}, fresh : BOOLEAN, stale : Nat]

LEMMA TypeInit == Init => TypeOK
<1> SUFFICES ASSUME Init PROVE TypeOK
  OBVIOUS
<1>1. conf \in [word : Said, port : Ports \cup {NoPort}]
  BY DEF Init, Said
<1>2. units \in [Units -> Said \cup {Gone}] /\ told \in [Rels -> Value]
  BY Typed DEF Init
<1>3. NoMemory \in Memory /\ NoServer \in ServerRec
  BY Typed DEF NoMemory, Memory, NoServer, ServerRec
<1>4. hp \in HookRec
  BY <1>2, Typed DEF Init, HookRec, Hooks
<1>5. /\ changes \in 0 .. MaxChanges /\ faults \in 0 .. MaxFaults
      /\ due \subseteq Hooks /\ must \in Hooks \cup {None}
  BY ConcatAssumption DEF Init, Hooks
<1>6. QED
  BY <1>1, <1>2, <1>3, <1>4, <1>5, Zenon DEF TypeOK, HookRec, ServerRec, Init

LEMMA BootTyped ==
  ASSUME TypeOK, Boot
  PROVE  sp' \in ServerRec
<1>1. sp \in ServerRec
  BY DEF TypeOK, ServerRec
<1>2. CASE sp.life = "down" /\ file # Torn
  <2>1. PICK s \in State :
          sp' = [sp EXCEPT !.life = "starting", !.pc = "close", !.req = s]
    BY <1>2, Typed DEF Boot, TypeOK
  <2>2. QED
    BY <1>1, <2>1 DEF ServerRec
<1>3. CASE ~(sp.life = "down" /\ file # Torn)
  BY <1>1, <1>3 DEF Boot
<1>4. QED
  BY <1>2, <1>3

LEMMA FaultTyped ==
  ASSUME TypeOK, Fault
  PROVE  faults' \in 0 .. MaxFaults
BY ConcatAssumption DEF TypeOK, Fault

LEMMA ServerTyped ==
  ASSUME TypeOK, ServerStep \/ ListenFails \/ StoreFails \/ ServeNil \/ Die
  PROVE  TypeOK'
<1> USE ConcatAssumption, Typed
<1>1. sp \in ServerRec /\ NoServer \in ServerRec /\ hp \in HookRec
  BY DEF TypeOK, ServerRec, HookRec, NoServer
<1>2. UNCHANGED <<world, due, must, disk, mem, told, unit, hist>>
  BY DEF ServerStep, ListenFails, StoreFails, ServeNil, Die, SetLock, SetClose,
         SetListen, StoreOpen, StoreWrite, ServeFresh, ServeStale, Respawn, Down,
         hooks
<1>3. sp' \in ServerRec
  <2>1. ASSUME NEW c \in calls, SetLock(c) PROVE sp' \in ServerRec
    BY <1>1, <2>1 DEF SetLock, ServerRec, TypeOK
  <2>2. ASSUME NEW s \in ServerRec PROVE SetDone(s) \in ServerRec
    BY <2>2 DEF SetDone, ServerRec
  <2>3. CASE SetClose
    <3> DEFINE closed == [sp EXCEPT !.listener = NoPort, !.fresh = FALSE,
                                    !.stale = @ + (IF sp.fresh THEN 1 ELSE 0)]
    <3>0. sp.stale \in Nat /\ sp.stale + 1 \in Nat /\ sp.stale + 0 \in Nat
      BY <1>1 DEF ServerRec
    <3>1. closed \in ServerRec
      <4>1. closed.stale \in Nat
        BY <1>1, <3>0 DEF ServerRec
      <4>2. \A n \in Nat : [sp EXCEPT !.listener = NoPort, !.fresh = FALSE,
                                     !.stale = n] \in ServerRec
        BY <1>1 DEF ServerRec
      <4>3. closed = [sp EXCEPT !.listener = NoPort, !.fresh = FALSE,
                        !.stale = sp.stale + (IF sp.fresh THEN 1 ELSE 0)]
        BY <1>1 DEF ServerRec
      <4>4. sp.stale + (IF sp.fresh THEN 1 ELSE 0) \in Nat
        BY <3>0
      <4>5. QED
        BY <4>2, <4>3, <4>4
    <3>2. \A s \in ServerRec : [s EXCEPT !.pc = "listen"] \in ServerRec
      BY DEF ServerRec
    <3>3. \E s \in {sp, closed} :
            sp' = SetDone(s) \/ sp' = [s EXCEPT !.pc = "listen"]
      BY <2>3 DEF SetClose
    <3>4. QED
      BY <1>1, <2>2, <3>1, <3>2, <3>3
  <2>4. CASE SetListen
    <3>1. sp.req.port \in Ports \cup {NoPort}
      BY <1>1 DEF ServerRec, State
    <3>2. [sp EXCEPT !.listener = sp.req.port, !.fresh = TRUE] \in ServerRec
      BY <1>1, <3>1 DEF ServerRec
    <3>3. QED
      BY <2>2, <2>4, <3>2 DEF SetListen
  <2>5. CASE StoreOpen \/ StoreWrite \/ StoreFails \/ ListenFails
    BY <1>1, <2>5 DEF StoreOpen, StoreWrite, StoreFails, ListenFails, ServerRec
  <2>6. CASE ServeFresh \/ ServeStale
    <3>1. sp.stale \in Nat /\ (sp.stale > 0 => sp.stale - 1 \in Nat)
      BY <1>1 DEF ServerRec
    <3>2. QED
      BY <1>1, <2>6, <3>1 DEF ServeFresh, ServeStale, ServerRec
  <2>7. CASE Respawn
    BY <1>1, <2>7, BootTyped DEF Respawn
  <2>8. CASE ServeNil \/ Die
    BY <1>1, <2>8 DEF ServeNil, Die, Down
  <2>9. QED
    BY <2>1, <2>3, <2>4, <2>5, <2>6, <2>7, <2>8 DEF ServerStep
<1>4. hp' \in HookRec
  <2>1. \/ hp' = hp
        \/ \E p \in {"tell", "save"}, f \in BOOLEAN :
             hp' = [hp EXCEPT !.pc = p, !.failed = f]
    BY DEF ServerStep, ListenFails, StoreFails, ServeNil, Die, SetLock, SetClose,
           SetListen, StoreOpen, StoreWrite, ServeFresh, ServeStale, Respawn, Down,
           Reply, hooks
  <2>2. QED
    BY <1>1, <2>1 DEF HookRec
<1>5. file' \in State \cup {Torn, Absent}
  BY <1>1 DEF ServerStep, ListenFails, StoreFails, ServeNil, Die, SetLock, SetClose,
         SetListen, StoreOpen, StoreWrite, ServeFresh, ServeStale, Respawn, Down,
         ServerRec, TypeOK
<1>6. calls' \subseteq calls /\ (faults' = faults \/ Fault)
  BY DEF ServerStep, ListenFails, StoreFails, ServeNil, Die, SetLock, SetClose,
         SetListen, StoreOpen, StoreWrite, ServeFresh, ServeStale, Respawn, Down
<1>7. QED
  BY <1>2, <1>3, <1>4, <1>5, <1>6, FaultTyped
  DEF TypeOK, ServerRec, HookRec, world, hist

LEMMA WorldTyped ==
  ASSUME TypeOK, Environment
  PROVE  TypeOK'
<1> USE ConcatAssumption
<1>1. /\ conf' \in [word : Said, port : Ports \cup {NoPort}]
      /\ units' \in [Units -> Said \cup {Gone}] /\ ids' \subseteq Rels
  BY DEF Environment, ChangeConfig, ChangeUnit, AddRelation, TypeOK
<1>2. PICK h \in Hooks : Outside(h)
  BY DEF Environment, ChangeConfig, ChangeUnit, AddRelation, Hooks
<1>3. due' \subseteq Hooks /\ changes' \in 0 .. MaxChanges
  BY <1>2 DEF Outside, TypeOK
<1>4. UNCHANGED <<told, must, disk, mem, hp, faults, serv, hist>>
  BY <1>2 DEF Outside
<1>5. QED
  BY <1>1, <1>3, <1>4 DEF TypeOK, serv, hist

LEMMA HookTyped ==
  ASSUME TypeOK, HookStep \/ StepFails \/ KillHook
  PROVE  TypeOK'
<1> USE ConcatAssumption, Typed
<1>1. sp \in ServerRec /\ hp \in HookRec
  BY DEF TypeOK, ServerRec, HookRec
<1>2. UNCHANGED world /\ file' = file /\ unit' \in BOOLEAN
  BY DEF HookStep, StepFails, KillHook, StartHook, Changed, DownstreamJoined,
         FinallyUnchanged, FinallyChanged, CallNotStarted, CallSet, DialTimeout,
         TellDownstream, Commit, EndHook, Hook, serv, TypeOK
<1>3. sp' \in ServerRec
  <2>1. CASE UNCHANGED sp
    BY <1>1, <2>1
  <2>2. CASE Boot
    BY <2>2, BootTyped
  <2>3. CASE sp' = [sp EXCEPT !.mine = FALSE]
    BY <1>1, <2>3 DEF ServerRec
  <2>4. QED
    BY <2>1, <2>2, <2>3
    DEF HookStep, StepFails, KillHook, StartHook, Changed, DownstreamJoined,
        FinallyUnchanged, FinallyChanged, CallNotStarted, CallSet, DialTimeout,
        TellDownstream, Commit, EndHook, serv
<1>4. calls' \subseteq [st : State, mine : BOOLEAN]
  <2>1. CASE UNCHANGED calls
    BY <2>1 DEF TypeOK
  <2>2. CASE CallSet
    <3>1. [st |-> hp.new, mine |-> TRUE] \in [st : State, mine : BOOLEAN]
      BY <1>1 DEF HookRec
    <3>2. calls' = calls \cup {[st |-> hp.new, mine |-> TRUE]}
      BY <2>2 DEF CallSet
    <3>3. calls \subseteq [st : State, mine : BOOLEAN]
      BY DEF TypeOK
    <3>4. QED
      BY <3>1, <3>2, <3>3, Zenon
  <2>3. CASE KillHook
    <3>1. \A c \in [st : State, mine : BOOLEAN] :
            [c EXCEPT !.mine = FALSE] \in [st : State, mine : BOOLEAN]
      OBVIOUS
    <3>2. calls' = {[c EXCEPT !.mine = FALSE] : c \in calls}
      BY <2>3 DEF KillHook
    <3>3. calls \subseteq [st : State, mine : BOOLEAN]
      BY DEF TypeOK
    <3>4. QED
      BY <3>1, <3>2, <3>3
  <2>4. QED
    BY <2>1, <2>2, <2>3
    DEF HookStep, StepFails, StartHook, Changed, DownstreamJoined,
        FinallyUnchanged, FinallyChanged, CallNotStarted, DialTimeout,
        TellDownstream, Commit, EndHook, serv
<1>5. mem' \in Memory
  <2>1. CASE mem' \in {mem, disk}
    BY <2>1 DEF TypeOK
  <2>2. CASE Changed
    BY <2>2 DEF Changed, Follow, TypeOK, Memory
  <2>3. CASE FinallyChanged
    BY <2>3 DEF FinallyChanged, TypeOK, Memory
  <2>4. CASE Commit
    BY <1>1, <2>4 DEF Commit, TypeOK, Memory, HookRec
  <2>5. QED
    BY <2>1, <2>2, <2>3, <2>4
    DEF HookStep, StepFails, KillHook, StartHook, DownstreamJoined,
        FinallyUnchanged, CallNotStarted, CallSet, DialTimeout, TellDownstream,
        EndHook
<1>6. disk' \in Memory
  <2>1. CASE disk' \in {disk, mem}
    BY <2>1 DEF TypeOK
  <2>2. CASE KillHook
    BY <2>2 DEF KillHook, SaveStops, TypeOK, Memory
  <2>3. QED
    BY <2>1, <2>2
    DEF HookStep, StepFails, StartHook, Changed, DownstreamJoined,
        FinallyUnchanged, FinallyChanged, CallNotStarted, CallSet, DialTimeout,
        TellDownstream, Commit, EndHook, Hook
<1>7. told' \in [Rels -> Value]
  <2>1. CASE UNCHANGED told
    BY <2>1 DEF TypeOK
  <2>2. CASE DownstreamJoined
    BY <2>2 DEF DownstreamJoined, Memory, State, TypeOK
  <2>3. ASSUME NEW r \in Rels, TellDownstream(r) PROVE told' \in [Rels -> Value]
    BY <1>1, <2>3 DEF TellDownstream, HookRec, State, TypeOK
  <2>4. QED
    BY <2>1, <2>2, <2>3
    DEF HookStep, StepFails, KillHook, StartHook, Changed, FinallyUnchanged,
        FinallyChanged, CallNotStarted, CallSet, DialTimeout, Commit, EndHook
<1>8. hp' \in HookRec
  <2>1. ASSUME NEW h \in Hooks, StartHook(h) PROVE hp' \in HookRec
    BY <2>1 DEF StartHook, HookRec, Memory, TypeOK
  <2>2. CASE Changed
    <3>1. [val |-> Joined(conf.word, hp.units), port |-> mem'.port] \in State
      BY <1>1, <1>5 DEF State, HookRec, TypeOK, Memory
    <3>2. QED
      BY <1>1, <2>2, <3>1 DEF Changed, HookRec
  <2>3. ASSUME NEW r \in Rels, TellDownstream(r) PROVE hp' \in HookRec
    BY <1>1, <2>3 DEF TellDownstream, HookRec
  <2>4. CASE Fail
    BY <1>1, <2>4 DEF Fail, HookRec
  <2>5. CASE \E step \in {"idle", "finally", "call", "wait", "save"} : Goto(step)
    BY <1>1, <2>5 DEF Goto, HookRec
  <2>6. QED
    BY <2>1, <2>2, <2>3, <2>4, <2>5
    DEF HookStep, StepFails, KillHook, DownstreamJoined, FinallyUnchanged,
        FinallyChanged, CallNotStarted, CallSet, DialTimeout, Commit, EndHook
<1>9. due' \subseteq Hooks /\ must' \in Hooks \cup {None}
  BY <1>1 DEF HookStep, StepFails, KillHook, StartHook, Changed, DownstreamJoined,
         FinallyUnchanged, FinallyChanged, CallNotStarted, CallSet, DialTimeout,
         TellDownstream, Commit, EndHook, Hook, HookRec, TypeOK
<1>10. faults' = faults \/ Fault
  BY DEF HookStep, StepFails, KillHook, StartHook, Changed, DownstreamJoined,
         FinallyUnchanged, FinallyChanged, CallNotStarted, CallSet, DialTimeout,
         TellDownstream, Commit, EndHook
<1>11. spoke' \in BOOLEAN /\ strayed' \in BOOLEAN
  <2>1. \A b \in BOOLEAN : Stray(b) => strayed' \in BOOLEAN
    BY <1>1 DEF Stray, ServerRec, TypeOK
  <2>2. CASE EndHook \/ KillHook
    BY <1>1, <2>1, <2>2 DEF EndHook, KillHook, HookRec, TypeOK
  <2>3. CASE ~(EndHook \/ KillHook)
    BY <2>3 DEF HookStep, StepFails, StartHook, Changed, DownstreamJoined,
         FinallyUnchanged, FinallyChanged, CallNotStarted, CallSet, DialTimeout,
         TellDownstream, Commit, hist, TypeOK
  <2>4. QED
    BY <2>2, <2>3
<1>12. QED
  BY <1>2, <1>3, <1>4, <1>5, <1>6, <1>7, <1>8, <1>9, <1>10, <1>11, FaultTyped
  DEF TypeOK, ServerRec, HookRec, world

LEMMA TypeNext == TypeOK /\ [Next]_vars => TypeOK'
<1> SUFFICES ASSUME TypeOK, [Next]_vars PROVE TypeOK'
  OBVIOUS
<1>1. CASE UNCHANGED vars
  BY <1>1 DEF vars, world, hooks, serv, hist, TypeOK
<1>2. CASE Next
  BY <1>2, ServerTyped, WorldTyped, HookTyped DEF Next, Failure
<1>3. QED
  BY <1>1, <1>2

(* Every reachable state of the charm and its server is well typed.          *)
THEOREM TypeCorrect == Spec => []TypeOK
  BY TypeInit, TypeNext, PTL DEF Spec


-----------------------------------------------------------------------------
(* What a hook goes by, and what is on record once it has ended.             *)

Running == hp.pc # "idle"
Own == {"config", "upstream"}

(* A running hook knows of every relation and unit whose own hook is not     *)
(* due, goes by the record until it commits, and commits only what it has    *)
(* told every relation it knows of.  A joined hook has nothing to commit.    *)
HookInv ==
  /\ Running =>
       /\ must = hp.name /\ ids \ due \subseteq hp.ids
       /\ "upstream" \in due \/ hp.units = units
       /\ hp.name # "config" => mem.port = disk.port
       /\ hp.pc # "save" => ~hp.failed /\ mem.state = disk.state
       /\ hp.pc \notin {"tell", "save"} => hp.todo = {}
  /\ hp.pc = "funcs" => hp.new = disk.state
  /\ spoke => hp.pc \in {"wait", "tell", "save", "idle"}
  /\ hp.pc \in {"wait", "tell"} => spoke
  /\ hp.pc = "save" =>
       /\ hp.failed \/ ~spoke => mem.state = disk.state
       /\ ~hp.failed => mem.state = hp.new
  /\ hp.pc = "tell" => \A r \in hp.todo : told[r] = hp.new.val
  /\ hp.pc = "save" /\ ~hp.failed /\ spoke =>
       \A r \in hp.ids : told[r] = hp.new.val
  /\ Running /\ hp.name \in Rels =>
       /\ hp.pc \in {"funcs", "finally", "save"}
       /\ hp.new = disk.state /\ ~spoke
       /\ hp.pc # "funcs" /\ ~hp.failed => told[hp.name] = disk.state.val
  /\ Running /\ hp.pc # "funcs" /\ ~hp.failed /\ hp.name \in Own =>
       /\ hp.new.port = mem.port
       /\ Own \cap due = {} => hp.new.val = Joined(conf.word, units)
       /\ hp.name = "config" => "config" \in due \/ mem.port = Follow(conf.port, mem.port)

LEMMA HookInvServer ==
  ASSUME TypeOK, HookInv,
         ServerStep \/ ListenFails \/ StoreFails \/ ServeNil \/ Die
  PROVE  HookInv'
<1>1. UNCHANGED <<conf, units, ids, told, due, must, disk, mem, spoke>>
  BY DEF ServerStep, ListenFails, StoreFails, ServeNil, Die, SetLock, SetClose,
         SetListen, StoreOpen, StoreWrite, ServeFresh, ServeStale, Respawn, Down,
         hooks, world, hist
<1>2. \/ hp' = hp
      \/ hp.pc = "wait" /\ hp' = [hp EXCEPT !.pc = "tell", !.failed = FALSE]
      \/ hp.pc = "wait" /\ hp' = [hp EXCEPT !.pc = "save", !.failed = TRUE]
  BY DEF ServerStep, ListenFails, StoreFails, ServeNil, Die, SetLock, SetClose,
         SetListen, StoreOpen, StoreWrite, ServeFresh, ServeStale, Respawn, Down,
         Reply, hooks
<1>3. hp \in HookRec
  BY DEF TypeOK, HookRec
<1>4. CASE hp' = hp
  BY <1>1, <1>4 DEF HookInv, Running
<1>5. CASE hp.pc = "wait" /\ hp' = [hp EXCEPT !.pc = "tell", !.failed = FALSE]
  BY <1>1, <1>3, <1>5 DEF HookInv, Running, HookRec, Own
<1>6. CASE hp.pc = "wait" /\ hp' = [hp EXCEPT !.pc = "save", !.failed = TRUE]
  BY <1>1, <1>3, <1>6 DEF HookInv, Running, HookRec, Own
<1>7. QED
  BY <1>2, <1>4, <1>5, <1>6

LEMMA HookInvWorld ==
  ASSUME TypeOK, HookInv, Environment
  PROVE  HookInv'
<1>1. UNCHANGED <<told, must, disk, mem, hp, spoke>>
  BY DEF Environment, ChangeConfig, ChangeUnit, AddRelation, Outside, hist
<1>2. CASE ChangeConfig
  BY <1>1, <1>2 DEF ChangeConfig, Outside, HookInv, Running, Own
<1>3. CASE ChangeUnit
  BY <1>1, <1>3 DEF ChangeUnit, Outside, HookInv, Running, Own
<1>4. ASSUME NEW r \in Rels, AddRelation(r) PROVE HookInv'
  <2>1. ids' \ due' \subseteq ids \ due /\ due \subseteq due'
    BY <1>4 DEF AddRelation, Outside
  <2>2. UNCHANGED <<conf, units>>
    BY <1>4 DEF AddRelation
  <2>3. QED
    BY <1>1, <2>1, <2>2 DEF HookInv, Running, Own
<1>5. QED
  BY <1>2, <1>3, <1>4 DEF Environment

LEMMA HookInvHook ==
  ASSUME TypeOK, HookInv, HookStep \/ StepFails \/ KillHook
  PROVE  HookInv'
<1> USE ConcatAssumption
<1>1. hp \in HookRec /\ mem \in Memory /\ disk \in Memory
  BY DEF TypeOK, HookRec
<1>2. UNCHANGED <<conf, units, ids>>
  BY DEF HookStep, StepFails, KillHook, StartHook, Changed, DownstreamJoined,
         FinallyUnchanged, FinallyChanged, CallNotStarted, CallSet, DialTimeout,
         TellDownstream, Commit, EndHook, Hook, world
<1>3. ASSUME NEW h \in Hooks, StartHook(h) PROVE HookInv'
  BY <1>1, <1>2, <1>3 DEF StartHook, HookInv, Running, Own, Hooks
<1>4. CASE Changed
  <2>1. /\ hp.pc = "funcs" /\ hp.name \in Own /\ hp.name \notin Rels
        /\ UNCHANGED <<told, due, must, disk, spoke>>
    BY <1>4 DEF Changed, Hook, hist, Own
  <2>2. /\ mem'.state = mem.state /\ (hp.name # "config" => mem' = mem)
        /\ hp.name = "config" => mem'.port = Follow(conf.port, mem'.port)
    BY <1>1, <1>4 DEF Changed, Follow, Memory
  <2>3. /\ hp'.pc = "finally" /\ hp'.name = hp.name /\ hp'.failed = hp.failed
        /\ hp'.ids = hp.ids /\ hp'.units = hp.units /\ hp'.todo = hp.todo
        /\ hp'.new.val = Joined(conf.word, hp.units)
        /\ hp'.new.port = mem'.port
    BY <1>1, <1>4 DEF Changed, HookRec
  <2>4. QED
    BY <1>2, <2>1, <2>2, <2>3 DEF HookInv, Running, Own
<1>5. CASE DownstreamJoined
  BY <1>1, <1>2, <1>5
  DEF DownstreamJoined, Goto, Hook, hist, HookInv, Running, Own, HookRec, TypeOK
<1>6. CASE FinallyUnchanged
  BY <1>1, <1>2, <1>6
  DEF FinallyUnchanged, Goto, Hook, hist, HookInv, Running, Own, HookRec
<1>7. CASE FinallyChanged
  BY <1>1, <1>2, <1>7
  DEF FinallyChanged, Goto, Hook, hist, HookInv, Running, Own, HookRec, Memory
<1>8. CASE CallNotStarted
  BY <1>1, <1>2, <1>8
  DEF CallNotStarted, Fail, Hook, hist, HookInv, Running, Own, HookRec
<1>9. CASE CallSet
  BY <1>1, <1>2, <1>9
  DEF CallSet, Goto, Hook, HookInv, Running, Own, HookRec
<1>10. CASE DialTimeout
  BY <1>1, <1>2, <1>10
  DEF DialTimeout, Fail, Hook, hist, HookInv, Running, Own, HookRec
<1>11. ASSUME NEW r \in Rels, TellDownstream(r) PROVE HookInv'
  BY <1>1, <1>2, <1>11
  DEF TellDownstream, Hook, hist, HookInv, Running, Own, HookRec, TypeOK
<1>12. CASE Commit
  BY <1>1, <1>2, <1>12
  DEF Commit, Goto, Hook, hist, HookInv, Running, Own, HookRec, Memory
<1>13. CASE EndHook
  BY <1>1, <1>2, <1>13 DEF EndHook, Goto, HookInv, Running, HookRec
<1>14. CASE StepFails
  BY <1>1, <1>2, <1>14
  DEF StepFails, Fail, Hook, hist, HookInv, Running, Own, HookRec
<1>15. CASE KillHook
  BY <1>1, <1>2, <1>15 DEF KillHook, Goto, HookInv, Running, HookRec
<1>16. QED
  BY <1>3, <1>4, <1>5, <1>6, <1>7, <1>8, <1>9, <1>10, <1>11, <1>12, <1>13,
     <1>14, <1>15 DEF HookStep

(* The record is what configuration and units ask for, unless a hook that    *)
(* looks at them is due or under way.                                        *)
RecInv ==
  /\ "config" \in due \/ must = "config" \/ disk.port = Follow(conf.port, disk.port)
  /\ Own \cap (due \cup {must}) = {} =>
       disk.state = [val |-> Joined(conf.word, units), port |-> disk.port]

LEMMA RecInvNext ==
  ASSUME TypeOK, HookInv, RecInv, Next
  PROVE  RecInv'
<1> USE ConcatAssumption
<1>1. hp \in HookRec /\ mem \in Memory /\ disk \in Memory
      /\ must \in Hooks \cup {None}
  BY DEF TypeOK, HookRec
<1>2. CASE UNCHANGED <<conf, units, due, must, disk>>
  BY <1>2 DEF RecInv
<1>3. CASE Environment
  BY <1>3 DEF Environment, ChangeConfig, ChangeUnit, AddRelation, Outside, RecInv,
              Own
<1>4. ASSUME NEW h \in Hooks, StartHook(h) PROVE RecInv'
  <2>1. /\ must \in {None, h} /\ must' = h /\ due \subseteq due' \cup {must'}
        /\ UNCHANGED <<conf, units, disk>>
    BY <1>4 DEF StartHook, world
  <2>2. QED
    BY <2>1 DEF RecInv, Own, None
<1>5. CASE EndHook \/ KillHook
  <2>1. /\ UNCHANGED <<conf, units, due>> /\ Running /\ must = hp.name
        /\ must' = hp.name \/ (must' = None /\ ~hp.failed /\ disk' = mem
                                /\ hp.pc = "save")
    BY <1>5 DEF EndHook, KillHook, HookInv, Running, world
  <2>2. hp.name # "config" => disk'.port = disk.port
    BY <1>1, <1>5 DEF EndHook, KillHook, SaveStops, HookInv, Running, Memory
  <2>3. "config" \in due' \/ must' = "config" \/ disk'.port = Follow(conf'.port, disk'.port)
    BY <1>1, <2>1, <2>2 DEF RecInv, HookInv, Own
  <2>4. ASSUME Own \cap (due' \cup {must'}) = {}
        PROVE  disk'.state = [val |-> Joined(conf'.word, units'),
                              port |-> disk'.port]
    <3>1. CASE hp.name \in Own
      <4>1. must' = None /\ ~hp.failed /\ disk' = mem /\ hp.pc = "save"
        BY <2>1, <2>4, <3>1
      <4>2. /\ hp.new.port = mem.port /\ mem.state = hp.new
            /\ hp.new.val = Joined(conf.word, units)
        BY <2>1, <2>4, <3>1, <4>1 DEF HookInv
      <4>3. hp.new = [val |-> hp.new.val, port |-> hp.new.port]
        BY <1>1 DEF HookRec, State
      <4>4. QED
        BY <2>1, <4>1, <4>2, <4>3
    <3>2. CASE hp.name \notin Own
      <4>1. hp.name \in Rels /\ hp.name # "config"
        BY <1>1, <3>2 DEF HookRec, Hooks, Own
      <4>2. mem.state = disk.state
        BY <2>1, <4>1 DEF HookInv
      <4>3. disk'.state = disk.state
        BY <1>1, <1>5, <4>2 DEF EndHook, KillHook, SaveStops, Memory
      <4>4. Own \cap (due \cup {must}) = {}
        BY <2>1, <2>4, <3>2
      <4>5. QED
        BY <2>1, <2>2, <4>1, <4>3, <4>4 DEF RecInv
    <3>3. QED
      BY <3>1, <3>2
  <2>5. QED
    BY <2>3, <2>4 DEF RecInv
<1>6. QED
  BY <1>2, <1>3, <1>4, <1>5
  DEF Next, HookStep, ServerStep, Failure, StepFails, Changed, DownstreamJoined,
      FinallyUnchanged, FinallyChanged, CallNotStarted, CallSet, DialTimeout,
      TellDownstream, Commit, Hook, ListenFails, StoreFails, ServeNil, Die,
      SetLock, SetClose, SetListen, StoreOpen, StoreWrite, ServeFresh, ServeStale,
      Respawn, Down, world, hooks

(* The server works for at most one call, and when it has answered the       *)
(* running hook it has what that hook wants on file and serves it.           *)
CallInv ==
  /\ \A c \in calls : c.mine => hp.pc = "wait" /\ c.st = hp.new /\ ~sp.mine
  /\ sp.mine => sp.life = "up" /\ hp.pc \in {"wait", "tell", "save", "idle"}
  /\ sp.mine /\ sp.pc # "idle" => hp.pc = "wait" /\ sp.req = hp.new
  /\ sp.mine /\ sp.pc = "idle" =>
       /\ hp.pc # "wait"
       /\ hp.pc = "tell" \/ (hp.pc = "save" /\ ~hp.failed) =>
            file = hp.new /\ sp.state = hp.new /\ sp.listener = hp.new.port
  /\ sp.pc \in {"open", "write"} =>
       sp.state = sp.req /\ sp.listener = sp.req.port
  /\ sp.pc = "listen" => sp.listener = NoPort
  /\ sp.listener # NoPort => sp.listener = sp.state.port
  /\ sp.life = "down" => sp = NoServer
  /\ sp.life = "starting" =>
       sp.pc \in {"close", "listen"} /\ sp.listener = NoPort

(* What startServer begins with: a process that has yet to listen.           *)
LEMMA BootStarts ==
  ASSUME TypeOK, CallInv, Boot
  PROVE  \/ sp' = sp
         \/ /\ sp = NoServer /\ sp'.life = "starting" /\ sp'.pc = "close"
            /\ sp'.req = (IF file = Absent THEN Zero ELSE file)
            /\ ~sp'.mine /\ sp'.listener = NoPort
<1>1. CASE sp.life = "down" /\ file # Torn
  <2>1. sp = NoServer
    BY <1>1 DEF CallInv
  <2>2. sp' = [NoServer EXCEPT !.life = "starting", !.pc = "close",
                               !.req = IF file = Absent THEN Zero ELSE file]
    BY <1>1, <2>1 DEF Boot
  <2>3. /\ sp'.life = "starting" /\ sp'.pc = "close"
        /\ sp'.req = (IF file = Absent THEN Zero ELSE file)
        /\ sp'.mine = FALSE /\ sp'.listener = NoPort
    BY <2>2 DEF NoServer
  <2>4. QED
    BY <2>1, <2>3
<1>2. CASE ~(sp.life = "down" /\ file # Torn)
  BY <1>2 DEF Boot
<1>3. QED
  BY <1>1, <1>2

LEMMA CallInvServer ==
  ASSUME TypeOK, CallInv, ServerStep
  PROVE  CallInv'
<1>1. hp \in HookRec /\ sp \in ServerRec
      /\ calls \subseteq [st : State, mine : BOOLEAN]
  BY DEF TypeOK, HookRec, ServerRec
<1>2. ASSUME NEW c \in calls, SetLock(c) PROVE CallInv'
  <2>1. /\ sp.life = "up" /\ sp.pc = "idle" /\ calls' = calls \ {c}
        /\ hp' = hp /\ file' = file
    BY <1>2 DEF SetLock, hooks
  <2>2. /\ sp'.pc = "close" /\ sp'.life = "up" /\ sp'.req = c.st
        /\ sp'.mine = c.mine /\ sp'.state = sp.state
        /\ sp'.listener = sp.listener
    BY <1>1, <1>2 DEF SetLock, ServerRec
  <2>3. ASSUME NEW d \in calls', d.mine
        PROVE  hp.pc = "wait" /\ d.st = hp.new /\ ~c.mine
    BY <1>1, <2>1, <2>3 DEF CallInv
  <2>4. QED
    BY <2>1, <2>2, <2>3 DEF CallInv
<1>3. CASE SetClose
  <2>1. PICK s : /\ s \in {sp, [sp EXCEPT !.listener = NoPort, !.fresh = FALSE,
                                !.stale = @ + (IF sp.fresh THEN 1 ELSE 0)]}
                 /\ s.listener # NoPort =>
                      s = sp /\ sp.req.port = sp.state.port
                 /\ IF s.listener = NoPort /\ sp.req.port # NoPort
                      THEN sp' = [s EXCEPT !.pc = "listen"]
                      ELSE sp' = SetDone(s)
    BY <1>1, <1>3 DEF SetClose, ServerRec
  <2>2. /\ s.life = sp.life /\ s.pc = "close" /\ s.req = sp.req
        /\ s.mine = sp.mine /\ s.state = sp.state
        /\ s.listener \in {sp.listener, NoPort}
    BY <1>1, <1>3, <2>1 DEF SetClose, ServerRec
  <2>3. UNCHANGED <<hp, file, calls>> /\ sp.pc = "close"
    BY <1>3 DEF SetClose, hooks
  <2>4. CASE s.listener = NoPort /\ sp.req.port # NoPort
    <3>1. /\ sp'.life = s.life /\ sp'.pc = "listen" /\ sp'.req = s.req
          /\ sp'.mine = s.mine /\ sp'.state = s.state
          /\ sp'.listener = s.listener
      BY <1>1, <2>1, <2>4 DEF ServerRec
    <3>2. QED
      BY <1>1, <2>2, <2>3, <2>4, <3>1 DEF CallInv, NoServer, ServerRec
  <2>5. CASE ~(s.listener = NoPort /\ sp.req.port # NoPort)
    <3>1. /\ sp'.life = "up" /\ sp'.req = s.req /\ sp'.state = s.req
          /\ sp'.pc = IF s.life = "starting" THEN "idle" ELSE "open"
          /\ sp'.mine = s.mine /\ sp'.listener = s.listener
      BY <1>1, <2>1, <2>5 DEF ServerRec, SetDone
    <3>2. s.listener = s.req.port
      BY <2>1, <2>2, <2>5 DEF CallInv
    <3>3. QED
      BY <1>1, <2>2, <2>3, <2>5, <3>1, <3>2 DEF CallInv, NoServer, ServerRec
  <2>6. QED
    BY <2>4, <2>5
<1>4. CASE SetListen
  <2>1. /\ sp'.life = "up" /\ sp'.req = sp.req /\ sp'.state = sp.req
        /\ sp'.pc = IF sp.life = "starting" THEN "idle" ELSE "open"
        /\ sp'.mine = sp.mine /\ sp'.listener = sp.req.port
    BY <1>1, <1>4 DEF SetListen, SetDone, ServerRec
  <2>2. UNCHANGED <<hp, file, calls>> /\ sp.pc = "listen"
    BY <1>4 DEF SetListen, hooks
  <2>3. QED
    BY <1>1, <2>1, <2>2 DEF CallInv, NoServer
<1>5. CASE StoreOpen
  BY <1>1, <1>5 DEF StoreOpen, CallInv, NoServer, ServerRec, hooks
<1>6. CASE StoreWrite
  <2>1. /\ sp'.life = sp.life /\ sp'.pc = "idle" /\ sp'.req = sp.req
        /\ sp'.mine = sp.mine /\ sp'.state = sp.state
        /\ sp'.listener = sp.listener /\ sp.pc = "write"
        /\ file' = sp.state /\ calls' = calls
    BY <1>1, <1>6 DEF StoreWrite, ServerRec
  <2>2. CASE sp.mine
    <3>1. hp.pc = "wait" /\ sp.req = hp.new /\ \A c \in calls : ~c.mine
      BY <2>1, <2>2 DEF CallInv
    <3>2. hp' = [hp EXCEPT !.pc = "tell", !.failed = FALSE]
      BY <1>6, <2>2, <3>1 DEF StoreWrite, Reply
    <3>3. hp'.pc = "tell" /\ hp'.new = hp.new
      BY <1>1, <3>2 DEF HookRec
    <3>4. QED
      BY <1>1, <2>1, <3>1, <3>3 DEF CallInv, NoServer
  <2>3. CASE ~sp.mine
    BY <1>1, <1>6, <2>1, <2>3 DEF CallInv, NoServer, StoreWrite, Reply
  <2>4. QED
    BY <2>2, <2>3
<1>7. CASE ServeFresh \/ ServeStale
  <2>1. /\ sp'.life = sp.life /\ sp'.pc = sp.pc /\ sp'.req = sp.req
        /\ sp'.mine = sp.mine /\ sp'.state = sp.state
        /\ sp'.listener = sp.listener /\ sp # NoServer
        /\ UNCHANGED <<hp, file, calls>>
    BY <1>1, <1>7 DEF ServeFresh, ServeStale, ServerRec, NoServer, hooks
  <2>2. QED
    BY <2>1 DEF CallInv
<1>8. CASE Respawn
  <2>1. Boot /\ UNCHANGED <<hp, file, calls>>
    BY <1>8 DEF Respawn, hooks
  <2>2. CASE sp' = sp
    BY <2>1, <2>2 DEF CallInv
  <2>3. CASE sp' # sp
    BY <2>1, <2>3, BootStarts DEF CallInv, NoServer
  <2>4. QED
    BY <2>2, <2>3
<1>9. QED
  BY <1>2, <1>3, <1>4, <1>5, <1>6, <1>7, <1>8 DEF ServerStep

LEMMA CallInvFailure ==
  ASSUME TypeOK, CallInv, ListenFails \/ StoreFails \/ ServeNil \/ Die
  PROVE  CallInv'
<1>1. hp \in HookRec /\ sp \in ServerRec
  BY DEF TypeOK, HookRec, ServerRec
<1>2. CASE ServeNil \/ Die
  <2>1. /\ sp' = NoServer /\ calls' = {} /\ file' = file
    BY <1>2 DEF ServeNil, Die, Down
  <2>2. QED
    BY <2>1 DEF CallInv, NoServer
<1>3. CASE ListenFails /\ sp.life = "starting"
  <2>1. sp' = NoServer /\ hp' = hp /\ calls' = calls /\ file' = file
    BY <1>3 DEF ListenFails, Reply, CallInv
  <2>2. QED
    BY <2>1 DEF CallInv, NoServer
<1>4. CASE StoreFails \/ (ListenFails /\ sp.life # "starting")
  <2>1. /\ sp.pc # "idle" /\ sp' = [sp EXCEPT !.pc = "idle"]
        /\ file' = file /\ calls' = calls /\ Reply(FALSE)
    BY <1>4 DEF StoreFails, ListenFails
  <2>2. /\ sp'.life = sp.life /\ sp'.pc = "idle" /\ sp'.req = sp.req
        /\ sp'.mine = sp.mine /\ sp'.state = sp.state
        /\ sp'.listener = sp.listener
    BY <1>1, <2>1 DEF ServerRec
  <2>3. sp.life = "up"
    <3>1. sp.life # "down"
      BY <2>1 DEF CallInv, NoServer
    <3>2. sp.life # "starting"
      BY <1>4 DEF StoreFails, CallInv
    <3>3. QED
      BY <1>1, <3>1, <3>2 DEF ServerRec
  <2>4. CASE sp.mine
    <3>1. hp.pc = "wait" /\ \A c \in calls : ~c.mine
      BY <2>1, <2>4 DEF CallInv
    <3>2. hp' = [hp EXCEPT !.pc = "save", !.failed = TRUE]
      BY <2>1, <2>4, <3>1 DEF Reply
    <3>3. hp'.pc = "save" /\ hp'.failed
      BY <1>1, <3>2 DEF HookRec
    <3>4. QED
      BY <2>1, <2>2, <2>3, <3>1, <3>3 DEF CallInv
  <2>5. CASE ~sp.mine
    BY <2>1, <2>2, <2>3, <2>5 DEF CallInv, Reply
  <2>6. QED
    BY <2>4, <2>5
<1>5. QED
  BY <1>2, <1>3, <1>4

LEMMA CallInvHook ==
  ASSUME TypeOK, HookInv, CallInv, HookStep \/ StepFails \/ KillHook
  PROVE  CallInv'
<1>1. hp \in HookRec /\ sp \in ServerRec
      /\ calls \subseteq [st : State, mine : BOOLEAN]
  BY DEF TypeOK, HookRec, ServerRec
<1>2. file' = file
  BY DEF HookStep, StepFails, KillHook, StartHook, Changed, DownstreamJoined,
         FinallyUnchanged, FinallyChanged, CallNotStarted, CallSet, DialTimeout,
         TellDownstream, Commit, EndHook, serv
<1>3. CASE (\E h \in Hooks : StartHook(h)) \/ KillHook
  <2>1. /\ sp' = [sp EXCEPT !.mine = FALSE]
        /\ \A c \in calls' : ~c.mine
    <3>1. CASE KillHook
      <4>1. calls' = {[c EXCEPT !.mine = FALSE] : c \in calls}
            /\ sp' = [sp EXCEPT !.mine = FALSE]
        BY <3>1 DEF KillHook
      <4>2. QED
        BY <1>1, <4>1
    <3>2. ASSUME NEW h \in Hooks, StartHook(h)
          PROVE  /\ sp' = [sp EXCEPT !.mine = FALSE]
                 /\ \A c \in calls' : ~c.mine
      BY <3>2 DEF StartHook, CallInv
    <3>3. QED
      BY <1>3, <3>1, <3>2
  <2>2. /\ sp'.life = sp.life /\ sp'.pc = sp.pc /\ sp'.req = sp.req
        /\ ~sp'.mine /\ sp'.state = sp.state /\ sp'.listener = sp.listener
    BY <1>1, <2>1 DEF ServerRec
  <2>3. sp = NoServer => sp' = NoServer
    <3>1. sp = NoServer => sp' = [NoServer EXCEPT !.mine = FALSE]
      BY <2>1
    <3>2. QED
      BY <3>1 DEF NoServer
  <2>4. QED
    BY <1>2, <2>1, <2>2, <2>3 DEF CallInv
<1>4. CASE FinallyChanged
  <2>1. Boot /\ calls' = calls /\ hp.pc = "finally"
    BY <1>4 DEF FinallyChanged, Hook
  <2>2. hp'.pc = "call" /\ ~sp.mine /\ \A c \in calls : ~c.mine
    BY <1>1, <1>4, <2>1 DEF FinallyChanged, Goto, HookRec, CallInv
  <2>3. CASE sp' = sp
    BY <1>2, <2>1, <2>2, <2>3 DEF CallInv
  <2>4. CASE sp' # sp
    BY <1>2, <2>1, <2>2, <2>4, BootStarts DEF CallInv, NoServer
  <2>5. QED
    BY <2>3, <2>4
<1>5. CASE CallSet
  <2>1. /\ calls' = calls \cup {[st |-> hp.new, mine |-> TRUE]}
        /\ hp.pc = "call" /\ sp' = sp
    BY <1>5 DEF CallSet, Hook
  <2>2. hp'.pc = "wait" /\ hp'.new = hp.new
    BY <1>1, <1>5 DEF CallSet, Goto, HookRec
  <2>3. ~sp.mine /\ \A c \in calls : ~c.mine
    BY <1>1, <2>1 DEF CallInv
  <2>4. QED
    BY <1>2, <2>1, <2>2, <2>3 DEF CallInv
<1>6. CASE Changed \/ DownstreamJoined \/ FinallyUnchanged \/ CallNotStarted
           \/ DialTimeout
  <2>1. UNCHANGED <<sp, calls>> /\ hp.pc \notin {"wait", "tell", "save", "idle"}
    BY <1>6 DEF Changed, DownstreamJoined, FinallyUnchanged, CallNotStarted,
                DialTimeout, Hook, serv
  <2>2. ~sp.mine /\ \A c \in calls : ~c.mine
    BY <2>1 DEF CallInv
  <2>3. QED
    BY <1>2, <2>1, <2>2 DEF CallInv
<1>7. CASE StepFails \/ Commit \/ EndHook \/ \E r \in Rels : TellDownstream(r)
  <2>1. /\ UNCHANGED <<sp, calls>>
        /\ hp.pc # "wait" /\ hp'.new = hp.new
        /\ hp'.pc \in {"tell", "save", "idle"}
        /\ hp'.pc = "tell" \/ (hp'.pc = "save" /\ ~hp'.failed) => hp.pc = "tell"
    BY <1>1, <1>7 DEF StepFails, Commit, EndHook, TellDownstream, Hook, Goto,
                      Fail, serv, HookRec
  <2>2. \A c \in calls : ~c.mine
    BY <2>1 DEF CallInv
  <2>3. QED
    BY <1>2, <2>1, <2>2 DEF CallInv
<1>8. QED
  BY <1>3, <1>4, <1>5, <1>6, <1>7 DEF HookStep

LEMMA CallInvNext == TypeOK /\ HookInv /\ CallInv /\ Next => CallInv'
<1> SUFFICES ASSUME TypeOK, HookInv, CallInv, Next PROVE CallInv'
  OBVIOUS
<1>1. CASE Environment
  <2>1. UNCHANGED <<hp, file, sp, calls>>
    BY <1>1 DEF Environment, ChangeConfig, ChangeUnit, AddRelation, Outside, serv
  <2>2. QED
    BY <2>1 DEF CallInv
<1>2. QED
  BY <1>1, CallInvServer, CallInvFailure, CallInvHook DEF Next, Failure

LEMMA HookInvNext == TypeOK /\ HookInv /\ Next => HookInv'
BY HookInvServer, HookInvWorld, HookInvHook DEF Next, Failure

(* No call is under way, and the server has s on file and serves it, or will *)
(* when it has started.                                                      *)
Serves(s) ==
  /\ calls = {}
  /\ file = s \/ (file = Absent /\ s = Zero)
  /\ sp.life = "starting" => sp.req = s
  /\ sp.life = "up" => sp.pc = "idle" /\ sp.state = s /\ sp.listener = s.port

(* Unless someone may have been told what is not on record, server and       *)
(* relations go by the record.                                               *)
AgreeInv ==
  ~strayed /\ (Running => ~spoke) =>
    /\ Serves(disk.state)
    /\ \A r \in ids \ (due \cup {must}) : told[r] = disk.state.val

LEMMA BootServes ==
  ASSUME TypeOK, CallInv, Serves(disk.state), Boot,
         UNCHANGED <<file, calls, disk>>
  PROVE  Serves(disk.state)'
<1>1. CASE sp' = sp
  BY <1>1 DEF Serves
<1>2. CASE sp' # sp
  <2>1. disk.state # Absent
    BY ConcatAssumption DEF TypeOK, Memory
  <2>2. sp'.life = "starting" /\ sp'.req = disk.state
    BY <1>2, <2>1, BootStarts DEF Serves
  <2>3. QED
    BY <2>2 DEF Serves
<1>3. QED
  BY <1>1, <1>2

LEMMA AgreeInvServer ==
  ASSUME TypeOK, CallInv, AgreeInv,
         ServerStep \/ ListenFails \/ StoreFails \/ ServeNil \/ Die
  PROVE  AgreeInv'
<1>1. sp \in ServerRec /\ disk \in Memory /\ hp \in HookRec
  BY DEF TypeOK, ServerRec, HookRec
<1>2. UNCHANGED <<ids, due, must, told, disk, spoke, strayed>>
  BY DEF ServerStep, ListenFails, StoreFails, ServeNil, Die, SetLock, SetClose,
         SetListen, StoreOpen, StoreWrite, ServeFresh, ServeStale, Respawn, Down,
         hooks, world, hist
<1>3. Running' = Running
  <2>1. hp' = hp \/ (Running /\ hp'.pc \in {"tell", "save"})
    BY <1>1
    DEF ServerStep, ListenFails, StoreFails, ServeNil, Die, SetLock, SetClose,
        SetListen, StoreOpen, StoreWrite, ServeFresh, ServeStale, Respawn, Down,
        Reply, hooks, Running, HookRec
  <2>2. QED
    BY <2>1 DEF Running
<1>4. SUFFICES ASSUME Serves(disk.state) PROVE Serves(disk.state)'
  BY <1>2, <1>3 DEF AgreeInv
<1>5. sp.pc \in {"open", "write"} => sp.life = "up"
  BY <1>1 DEF CallInv, NoServer, ServerRec
<1>6. ~(\E c \in calls : SetLock(c)) /\ ~StoreOpen /\ ~StoreWrite /\ ~StoreFails
  BY <1>4, <1>5 DEF Serves, SetLock, StoreOpen, StoreWrite, StoreFails
<1>7. sp.pc # "idle" => sp.life = "starting" /\ sp.req = disk.state
  BY <1>1, <1>4 DEF Serves, CallInv, NoServer, ServerRec
<1>8. CASE SetClose
  <2>1. sp.listener = NoPort /\ sp.life = "starting" /\ sp.req = disk.state
    BY <1>7, <1>8 DEF SetClose, CallInv
  <2>2. \/ sp' = [sp EXCEPT !.pc = "listen"]
        \/ sp' = SetDone(sp) /\ sp.req.port = NoPort
    BY <1>8, <2>1 DEF SetClose
  <2>3. file' = file /\ calls' = calls
    BY <1>8 DEF SetClose
  <2>4. CASE sp' = [sp EXCEPT !.pc = "listen"]
    BY <1>1, <1>2, <1>4, <2>1, <2>3, <2>4 DEF Serves, ServerRec
  <2>5. CASE sp' = SetDone(sp) /\ sp.req.port = NoPort
    BY <1>1, <1>2, <1>4, <2>1, <2>3, <2>5 DEF Serves, ServerRec, SetDone
  <2>6. QED
    BY <2>2, <2>4, <2>5
<1>9. CASE SetListen
  <2>1. sp.life = "starting" /\ sp.req = disk.state
    BY <1>7, <1>9 DEF SetListen
  <2>2. /\ sp'.life = "up" /\ sp'.pc = "idle" /\ sp'.state = sp.req
        /\ sp'.listener = sp.req.port
    BY <1>1, <1>9, <2>1 DEF SetListen, SetDone, ServerRec
  <2>3. file' = file /\ calls' = calls
    BY <1>9 DEF SetListen
  <2>4. QED
    BY <1>2, <1>4, <2>1, <2>2, <2>3 DEF Serves
<1>10. CASE ListenFails \/ ServeNil \/ Die
  <2>1. sp' = NoServer /\ file' = file /\ calls' = {}
    BY <1>4, <1>7, <1>10 DEF ListenFails, ServeNil, Die, Down, Serves
  <2>2. QED
    BY <1>2, <1>4, <2>1 DEF Serves, NoServer
<1>11. CASE ServeFresh \/ ServeStale
  <2>1. /\ sp'.life = sp.life /\ sp'.pc = sp.pc /\ sp'.req = sp.req
        /\ sp'.state = sp.state /\ sp'.listener = sp.listener
        /\ UNCHANGED <<file, calls>>
    BY <1>1, <1>11 DEF ServeFresh, ServeStale, ServerRec
  <2>2. QED
    BY <1>2, <1>4, <2>1 DEF Serves
<1>12. CASE Respawn
  <2>1. Boot /\ UNCHANGED <<file, calls>>
    BY <1>12 DEF Respawn
  <2>2. QED
    BY <1>2, <1>4, <2>1, BootServes
<1>13. QED
  BY <1>6, <1>8, <1>9, <1>10, <1>11, <1>12 DEF ServerStep

LEMMA AgreeInvHook ==
  ASSUME TypeOK, HookInv, CallInv, AgreeInv, HookStep \/ StepFails \/ KillHook
  PROVE  AgreeInv'
<1>1. /\ sp \in ServerRec /\ disk \in Memory /\ mem \in Memory
      /\ hp \in HookRec /\ told \in [Rels -> Value] /\ ids \subseteq Rels
  BY DEF TypeOK, ServerRec, HookRec
<1>2. ids' = ids /\ file' = file
  BY DEF HookStep, StepFails, KillHook, StartHook, Changed, DownstreamJoined,
         FinallyUnchanged, FinallyChanged, CallNotStarted, CallSet, DialTimeout,
         TellDownstream, Commit, EndHook, Hook, world, serv
<1>3. ASSUME NEW h \in Hooks, StartHook(h) PROVE AgreeInv'
  <2>1. /\ ~Running /\ must' = h /\ due' = due \ {h} /\ must \in {None, h}
        /\ UNCHANGED <<told, disk, calls, strayed>>
    BY <1>3 DEF StartHook, Running
  <2>2. /\ sp'.life = sp.life /\ sp'.pc = sp.pc /\ sp'.req = sp.req
        /\ sp'.state = sp.state /\ sp'.listener = sp.listener
    BY <1>1, <1>3 DEF StartHook, ServerRec
  <2>3. ids' \ (due' \cup {must'}) \subseteq ids \ (due \cup {must})
    BY <1>1, <1>2, <2>1, ConcatAssumption DEF None
  <2>4. QED
    BY <1>2, <2>1, <2>2, <2>3 DEF AgreeInv, Serves
<1>4. CASE EndHook \/ KillHook
  <2>1. /\ Running /\ ~Running' /\ must = hp.name /\ told' = told /\ due' = due
        /\ must' = hp.name \/ (must' = None /\ hp.pc = "save" /\ ~hp.failed)
    BY <1>1, <1>4 DEF EndHook, KillHook, Goto, HookInv, Running, HookRec
  <2>2. /\ sp'.life = sp.life /\ sp'.pc = sp.pc /\ sp'.req = sp.req
        /\ sp'.state = sp.state /\ sp'.listener = sp.listener
    BY <1>1, <1>4 DEF EndHook, KillHook, serv, ServerRec
  <2>3. calls = {} => calls' = {}
    BY <1>4 DEF EndHook, KillHook, serv
  <2>4. ASSUME ~strayed', spoke
        PROVE  /\ Serves(disk.state)'
               /\ \A r \in ids \ (due \cup {must'}) : told[r] = disk'.state.val
    <3>1. /\ hp.pc = "save" /\ ~hp.failed /\ disk' = mem /\ sp.mine /\ calls = {}
      BY <1>4, <2>4 DEF EndHook, KillHook, Stray
    <3>2. /\ file = hp.new /\ sp.state = hp.new /\ sp.listener = hp.new.port
          /\ sp.life = "up" /\ sp.pc = "idle" /\ mem.state = hp.new
      BY <1>1, <3>1 DEF CallInv, HookInv, HookRec
    <3>3. Serves(disk.state)'
      BY <1>2, <2>2, <2>3, <3>1, <3>2 DEF Serves
    <3>4. \A r \in ids \ due : told[r] = hp.new.val
      BY <2>1, <2>4, <3>1 DEF HookInv
    <3>5. QED
      BY <3>1, <3>2, <3>3, <3>4
  <2>5. ASSUME ~strayed', ~spoke
        PROVE  /\ Serves(disk.state)'
               /\ \A r \in ids \ (due \cup {must'}) : told[r] = disk'.state.val
    <3>1. ~strayed
      BY <1>4, <2>5 DEF EndHook, KillHook, Stray
    <3>2. disk'.state = disk.state
      BY <1>1, <1>4, <2>5
      DEF EndHook, KillHook, SaveStops, HookInv, Running, Memory, HookRec
    <3>3. /\ Serves(disk.state)
          /\ \A r \in ids \ (due \cup {must}) : told[r] = disk.state.val
      BY <2>5, <3>1 DEF AgreeInv
    <3>4. Serves(disk.state)'
      BY <1>2, <2>2, <2>3, <3>2, <3>3 DEF Serves
    <3>5. ASSUME NEW r \in ids \ (due \cup {must'}) PROVE told[r] = disk.state.val
      <4>1. CASE r = must
        BY <1>1, <2>1, <3>5, <4>1 DEF HookInv
      <4>2. CASE r # must
        BY <3>3, <3>5, <4>2
      <4>3. QED
        BY <4>1, <4>2
    <3>6. QED
      BY <3>2, <3>4, <3>5
  <2>6. QED
    BY <1>2, <2>1, <2>4, <2>5 DEF AgreeInv
<1>5. CASE DownstreamJoined
  <2>1. /\ Running /\ Running' /\ hp.name = must
        /\ told' = [told EXCEPT ![must] = mem.state.val]
        /\ UNCHANGED <<due, must, disk, sp, calls, spoke, strayed>>
    BY <1>1, <1>5
    DEF DownstreamJoined, Hook, Goto, HookInv, Running, HookRec, serv, hist
  <2>2. \A r \in ids \ (due \cup {must}) : told'[r] = told[r]
    BY <1>1, <2>1
  <2>3. QED
    BY <1>2, <2>1, <2>2 DEF AgreeInv, Serves
<1>6. CASE CallSet \/ Commit \/ \E r \in Rels : TellDownstream(r)
  <2>1. Running' /\ spoke'
    BY <1>1, <1>6
    DEF CallSet, Commit, TellDownstream, Hook, Goto, HookInv, Running, HookRec, hist
  <2>2. QED
    BY <2>1 DEF AgreeInv
<1>7. CASE FinallyChanged
  <2>1. /\ Running /\ Running' /\ Boot
        /\ UNCHANGED <<told, due, must, disk, calls, spoke, strayed>>
    BY <1>1, <1>7 DEF FinallyChanged, Hook, Goto, Running, HookRec, hist
  <2>2. Serves(disk.state) => Serves(disk.state)'
    BY <1>2, <2>1, BootServes
  <2>3. QED
    BY <1>2, <2>1, <2>2 DEF AgreeInv
<1>8. CASE Changed \/ FinallyUnchanged \/ CallNotStarted \/ DialTimeout
           \/ StepFails
  <2>1. /\ Running /\ Running'
        /\ UNCHANGED <<told, due, must, disk, calls, sp, spoke, strayed>>
    BY <1>1, <1>8
    DEF Changed, FinallyUnchanged, CallNotStarted, DialTimeout, StepFails, Hook,
        Goto, Fail, HookRec, Running, hist, serv
  <2>2. QED
    BY <1>2, <2>1 DEF AgreeInv, Serves
<1>9. QED
  BY <1>3, <1>4, <1>5, <1>6, <1>7, <1>8 DEF HookStep

LEMMA AgreeInvNext ==
  TypeOK /\ HookInv /\ CallInv /\ AgreeInv /\ Next => AgreeInv'
<1> SUFFICES ASSUME TypeOK, HookInv, CallInv, AgreeInv, Next PROVE AgreeInv'
  OBVIOUS
<1>1. CASE Environment
  <2>1. UNCHANGED <<told, must, disk, hp, file, sp, calls, spoke, strayed>>
    BY <1>1
    DEF Environment, ChangeConfig, ChangeUnit, AddRelation, Outside, serv, hist
  <2>2. ids' \ due' \subseteq ids \ due
    BY <1>1 DEF Environment, ChangeConfig, ChangeUnit, AddRelation, Outside
  <2>3. QED
    BY <2>1, <2>2 DEF AgreeInv, Serves, Running
<1>2. QED
  BY <1>1, AgreeInvServer, AgreeInvHook DEF Next, Failure

-----------------------------------------------------------------------------
ConcatInv == TypeOK /\ HookInv /\ RecInv /\ CallInv /\ AgreeInv

LEMMA ConcatInvInit == Init => ConcatInv
<1> SUFFICES ASSUME Init PROVE ConcatInv
  OBVIOUS
<1>1. HookInv /\ RecInv
  BY DEF Init, HookInv, RecInv, Running, Own
<1>2. CallInv /\ AgreeInv
  BY DEF Init, CallInv, AgreeInv, Serves, NoServer, NoMemory
<1>3. QED
  BY <1>1, <1>2, TypeInit DEF ConcatInv

LEMMA ConcatInvNext == ConcatInv /\ [Next]_vars => ConcatInv'
<1> SUFFICES ASSUME ConcatInv, [Next]_vars PROVE ConcatInv'
  OBVIOUS
<1>1. CASE UNCHANGED vars
  BY <1>1, TypeNext
  DEF ConcatInv, vars, world, hooks, serv, hist, HookInv, RecInv, CallInv,
      AgreeInv, Serves, Running
<1>2. CASE Next
  BY <1>2, TypeNext, HookInvNext, RecInvNext, CallInvNext, AgreeInvNext
  DEF ConcatInv
<1>3. QED
  BY <1>1, <1>2

LEMMA ConcatInvariant == Spec => []ConcatInv
  BY ConcatInvInit, ConcatInvNext, PTL DEF Spec

(* Once the hooks are done, record, relations and server agree with what     *)
(* configuration and units ask for, unless a hook that had told someone was  *)
(* broken off: whatever fails, however often and in whatever order.          *)
THEOREM Agree == Spec => []SettledAgree
<1>1. ASSUME ConcatInv PROVE SettledAgree
  <2>1. SUFFICES ASSUME Settled, ~strayed
        PROVE  /\ disk.state = [val |-> Joined(conf.word, units), port |-> disk.port]
               /\ disk.port = Follow(conf.port, disk.port)
               /\ \A r \in ids : told[r] = disk.state.val
               /\ file = disk.state
               /\ AtRest => sp.state = disk.state /\ sp.listener = disk.port
    BY DEF SettledAgree
  <2>2. ConcatInv
    BY <1>1
  <2>3. /\ disk.state = [val |-> Joined(conf.word, units), port |-> disk.port]
        /\ disk.port = Follow(conf.port, disk.port)
    BY <2>1, <2>2 DEF ConcatInv, RecInv, Settled, Own, None
  <2>4. Serves(disk.state) /\ \A r \in ids \ {None} : told[r] = disk.state.val
    BY <2>1, <2>2 DEF ConcatInv, AgreeInv, Running, Settled
  <2>5. None \notin ids
    BY <2>2, ConcatAssumption DEF ConcatInv, TypeOK, None
  <2>6. disk.state # Zero
    <3>1. Joined(conf.word, units) # Unset
      BY <2>2, ConcatAssumption DEF ConcatInv, TypeOK
    <3>2. QED
      BY <2>3, <3>1 DEF Zero
  <2>7. file = disk.state
    BY <2>4, <2>6 DEF Serves
  <2>8. AtRest => sp.state = disk.state /\ sp.listener = disk.port
    BY <2>3, <2>4 DEF Serves, AtRest
  <2>9. QED
    BY <2>3, <2>4, <2>5, <2>7, <2>8
<1>2. QED
  BY <1>1, ConcatInvariant, PTL

(* Nothing is put on record before the server has saved it and the relations *)
(* the hook knows of have been told.                                         *)
THEOREM CommitsLast == Spec => CommitIsLast
<1>1. ASSUME ConcatInv, [Next]_vars, disk'.state # disk.state
      PROVE  /\ \A r \in ids \ due : told[r] = disk'.state.val
             /\ sp.mine /\ sp.pc = "idle" => file = disk'.state
  <2>0. hp \in HookRec /\ mem \in Memory /\ disk \in Memory
    BY <1>1 DEF ConcatInv, TypeOK, HookRec
  <2>1. CASE EndHook \/ KillHook
    <3>1. /\ hp.pc = "save" /\ disk'.state = mem.state
          /\ mem.state # disk.state
      BY <1>1, <2>0, <2>1 DEF EndHook, KillHook, SaveStops, Memory
    <3>2. /\ ~hp.failed /\ spoke /\ mem.state = hp.new
          /\ ids \ due \subseteq hp.ids
      BY <1>1, <2>0, <3>1 DEF ConcatInv, HookInv, Running, HookRec
    <3>3. \A r \in hp.ids : told[r] = hp.new.val
      BY <1>1, <3>1, <3>2 DEF ConcatInv, HookInv
    <3>4. sp.mine /\ sp.pc = "idle" => file = hp.new
      BY <1>1, <3>1, <3>2 DEF ConcatInv, CallInv
    <3>5. QED
      BY <3>1, <3>2, <3>3, <3>4
  <2>2. CASE ~(EndHook \/ KillHook)
    <3>1. disk' = disk
      BY <1>1, <2>2
      DEF Next, HookStep, ServerStep, Environment, Failure, StepFails, StartHook,
          Changed, DownstreamJoined, FinallyUnchanged, FinallyChanged,
          CallNotStarted, CallSet, DialTimeout, TellDownstream, Commit, Hook,
          ListenFails, StoreFails, ServeNil, Die, SetLock, SetClose, SetListen,
          StoreOpen, StoreWrite, ServeFresh, ServeStale, Respawn, Down,
          ChangeConfig, ChangeUnit, AddRelation, Outside, vars, hooks
    <3>2. QED
      BY <1>1, <3>1
  <2>3. QED
    BY <2>1, <2>2
<1>2. QED
  BY <1>1, ConcatInvariant, PTL DEF Spec, CommitIsLast
=============================================================================
