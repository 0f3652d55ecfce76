------------------------- MODULE CharmServiceProofs -------------------------
(* Proofs about CharmService, for any arguments and any bounds on faults,    *)
(* upgrades and operations.                                                  *)
EXTENDS CharmService, TLAPS

(* What the operations on one service keep true of the unit, the process and *)
(* the record while the hook is anywhere inside an operation.                *)
UnitInv ==
  /\ Alive => unit # NoUnit /\ running.args = unit
  /\ pc = "osstart" => unit # NoUnit
  /\ pc = "uninstall" => status = "stopped"

(* The arguments in the unit are those of the first that installed it, and   *)
(* an operation writes the arguments that it stands for.                     *)
AskedInv ==
  /\ unit = first
  /\ pc = "install" \/ (pc = "stop" /\ op = "restart") => want = asking

(* Without crashes a service on record is installed: the record of a hook    *)
(* that runs, and the stored one between hooks.                              *)
RecordInv ==
  crashes = 0 =>
    /\ ~Idle /\ rec.installed => unit # NoUnit
    /\ Idle /\ stored.installed => unit # NoUnit

(* Without crashes the record, and a start that failed after the install,    *)
(* account for the unit wherever the hook is, but for the moment between the *)
(* install of a unit and its start; the stored record does between hooks.    *)
AccountInv ==
  /\ half => unit # NoUnit
  /\ crashes = 0 =>
       /\ pc \notin {"idle", "osstart"} =>
            (unit # NoUnit <=> rec.installed \/ half)
       /\ Idle => (unit # NoUnit <=> stored.installed \/ half)

(* What runs after a Restart was launched by it or later: the Restart has    *)
(* stopped what ran before, and nothing else starts the service before it    *)
(* does, because only a process that died is started again.                  *)
FreshInv ==
  /\ fresh /\ Alive => running.version = exe
  /\ pc \in {"install", "osstart"} /\ op = "restart" => status = "stopped"

ServiceInv ==
  TypeOK /\ UnitInv /\ AskedInv /\ RecordInv /\ AccountInv /\ FreshInv

(* A step that adds a failure stays within the bound on them.                *)
LEMMA FaultTyped ==
  ASSUME TypeOK, Error \/ Fault
  PROVE  crashes' \in 0 .. MaxFaults /\ errors' \in 0 .. MaxFaults
BY ServiceAssumption DEF TypeOK, Error, Fault, CanFail

(* Beginning an operation keeps its count within bounds.                     *)
LEMMA BeginTyped ==
  ASSUME TypeOK, NEW name \in OpNames, NEW phase \in Phases, Begin(name, phase)
  PROVE  /\ pc' \in Phases /\ op' \in OpNames /\ ops' \in 0 .. MaxOps
         /\ pc = "ready" /\ pc' = phase /\ op' = name
BY ServiceAssumption DEF TypeOK, Begin

(* An operation that goes on to a next phase leaves its bookkeeping typed.   *)
LEMMA GotoTyped ==
  ASSUME TypeOK, NEW phase \in Phases, Goto(phase)
  PROVE  pc' \in Phases /\ UNCHANGED <<op, ops>>
BY DEF Goto, TypeOK

(* Every step of the hook, of the service and of the machine keeps the state *)
(* well typed, given that no unit is launched that is not there.             *)
LEMMA TypeNext ==
  ASSUME TypeOK, UnitInv, [Next]_vars
  PROVE  TypeOK'
<1> USE ServiceAssumption DEF TypeOK, AllArgs, Versions, Records, Statuses
<1>1. CASE BeginHook \/ EndHook
  <2>1. pc' \in Phases /\ ops' \in 0 .. MaxOps
    BY <1>1 DEF BeginHook, EndHook, Phases
  <2>2. /\ stored' \in Records /\ rec' \in Records
        /\ UNCHANGED <<os, op, want, hist, crashes, errors>>
    BY <1>1 DEF BeginHook, EndHook, NoFault
  <2> QED BY <2>1, <2>2 DEF os, hist
<1>2. ASSUME NEW a \in Args, Start(a) PROVE TypeOK'
  <2>1. Begin("start", "install") /\ "start" \in OpNames /\ "install" \in Phases
    BY <1>2 DEF Start, OpNames, Phases
  <2>2. pc' \in Phases /\ op' \in OpNames /\ ops' \in 0 .. MaxOps
    BY <2>1, BeginTyped
  <2>3. half' \in BOOLEAN /\ fresh' \in BOOLEAN
    BY <1>2 DEF Start
  <2> QED BY <1>2, <2>2, <2>3 DEF Start, NoFault, os
<1>3. CASE Restart
  <2>1. Begin("restart", "stop") /\ "restart" \in OpNames /\ "stop" \in Phases
    BY <1>3 DEF Restart, OpNames, Phases
  <2>2. pc' \in Phases /\ op' \in OpNames /\ ops' \in 0 .. MaxOps
    BY <2>1, BeginTyped
  <2>3. half' \in BOOLEAN /\ fresh' \in BOOLEAN
    BY <1>3 DEF Restart
  <2> QED BY <1>3, <2>2, <2>3 DEF Restart, NoFault, os
<1>4. CASE Stop \/ StopAndRemove \/ Call
  <2>1. pc' \in Phases /\ op' \in OpNames /\ ops' \in 0 .. MaxOps
    BY <1>4 DEF Stop, StopAndRemove, Call, Begin, OpNames, Phases
  <2>2. UNCHANGED <<os, stored, rec, want, hist, crashes, errors>>
    BY <1>4 DEF Stop, StopAndRemove, Call, NoFault
  <2> QED BY <2>1, <2>2 DEF os, hist
<1>5. CASE OSInstall
  <2>1. pc' \in Phases /\ UNCHANGED <<op, ops>>
    BY <1>5, GotoTyped DEF OSInstall, Phases
  <2>2. unit' \in AllArgs \cup {NoUnit} /\ first' \in AllArgs \cup {NoUnit}
    BY <1>5 DEF OSInstall
  <2> QED BY <1>5, <2>1, <2>2 DEF OSInstall, NoFault
<1>6. CASE OSStart
  <2>1. pc' \in Phases /\ UNCHANGED <<op, ops>>
    BY <1>6, GotoTyped DEF OSStart, Phases
  <2>2. /\ status' \in Statuses /\ UNCHANGED <<unit, exe>>
        /\ running' \in [args : AllArgs, version : Versions]
    BY <1>6 DEF OSStart, Launch, os, UnitInv
  <2>3. half' \in BOOLEAN /\ fresh' \in BOOLEAN
    BY <1>6 DEF OSStart
  <2>4. /\ rec' \in Records
        /\ UNCHANGED <<stored, want, asking, first, crashes, errors>>
    BY <1>6 DEF OSStart, NoFault
  <2> QED BY <2>1, <2>2, <2>3, <2>4
<1>7. CASE OSStop \/ OSUninstall \/ OSError
  <2>1. \E phase \in Phases : Goto(phase)
    BY <1>7 DEF OSStop, OSUninstall, OSError, AfterStop, Phases
  <2>2. pc' \in Phases /\ UNCHANGED <<op, ops>>
    BY <2>1, GotoTyped
  <2>3. crashes' \in 0 .. MaxFaults /\ errors' \in 0 .. MaxFaults
    BY <1>7, FaultTyped DEF OSStop, OSUninstall, OSError, NoFault
  <2>4. /\ status' \in Statuses /\ unit' \in AllArgs \cup {NoUnit}
        /\ rec' \in Records /\ first' \in AllArgs \cup {NoUnit}
        /\ UNCHANGED <<running, exe, stored, want, asking, fresh>>
    BY <1>7 DEF OSStop, OSUninstall, OSError, os, hist
  <2>5. half' \in BOOLEAN
    BY <1>7 DEF OSStop, OSUninstall, OSError, hist
  <2> QED BY <2>2, <2>3, <2>4, <2>5
<1>12. CASE DialOK \/ DialTimeout \/ CallAnswered \/ CallBroken
  <2>1. pc' \in Phases /\ UNCHANGED <<op, ops>> /\ InCall
    BY <1>12 DEF DialOK, DialTimeout, CallAnswered, CallBroken, Goto, Phases
  <2> QED BY <2>1 DEF InCall, NoFault, os, hist
<1>8. CASE Serve \/ Die \/ Respawn
  <2>1. crashes' \in 0 .. MaxFaults /\ errors' \in 0 .. MaxFaults
    BY <1>8, FaultTyped DEF Serve, Die, Respawn, NoFault
  <2>2. /\ status' \in Statuses
        /\ running' \in [args : AllArgs, version : Versions]
    BY <1>8 DEF Serve, Die, Respawn, Launch
  <2>3. pc' \in Phases
    BY <1>8 DEF Serve, Die, Respawn, hook, Phases
  <2> QED BY <1>8, <2>1, <2>2, <2>3 DEF Serve, Die, Respawn, Launch, hook, hist
<1>9. CASE Reboot \/ KillHook
  <2>1. crashes' \in 0 .. MaxFaults /\ errors' \in 0 .. MaxFaults
    BY <1>9, FaultTyped DEF Reboot, KillHook
  <2>2. status' \in Statuses /\ pc' \in Phases
    BY <1>9 DEF Reboot, KillHook, os, Phases
  <2> QED BY <1>9, <2>1, <2>2 DEF Reboot, KillHook, os, hist
<1>10. CASE Upgrade
  <2>1. exe' \in Versions
    BY <1>10 DEF Upgrade
  <2>2. pc' \in Phases /\ ops' \in 0 .. MaxOps
    BY <1>10 DEF Upgrade, Phases
  <2>3. fresh' \in BOOLEAN
    BY <1>10 DEF Upgrade
  <2>4. rec' \in Records
        /\ UNCHANGED <<unit, status, running, stored, op, want, asking, first,
                       half, crashes, errors>>
    BY <1>10 DEF Upgrade, NoFault
  <2> QED BY <2>1, <2>2, <2>3, <2>4
<1>11. CASE UNCHANGED vars
  BY <1>11 DEF vars, os, hook, hist
<1> QED BY <1>1, <1>2, <1>3, <1>4, <1>5, <1>6, <1>7, <1>8, <1>9, <1>10, <1>11,
           <1>12
        DEF Next, Operation, Step

(* A process is launched from a unit that exists, the unit is removed after  *)
(* the process was stopped, and nothing launches one in between.             *)
LEMMA UnitNext ==
  ASSUME TypeOK, UnitInv, [Next]_vars
  PROVE  UnitInv'
<1> USE ServiceAssumption DEF UnitInv, Alive, TypeOK
<1>1. CASE BeginHook \/ EndHook \/ Upgrade \/ KillHook
  BY <1>1 DEF BeginHook, EndHook, Upgrade, KillHook, os
<1>2. CASE Operation
  <2>1. pc' \in {"install", "stop", "ready", "dial"} /\ UNCHANGED os
    BY <1>2 DEF Operation, Start, Restart, Stop, StopAndRemove, Call, Begin
  <2> QED BY <2>1 DEF os
<1>3. CASE OSInstall
  <2>1. want # NoUnit
    BY DEF AllArgs
  <2> QED BY <1>3, <2>1 DEF OSInstall, Goto
<1>4. CASE OSStart
  BY <1>4 DEF OSStart, Launch, Goto, os
<1>5. CASE OSStop
  BY <1>5 DEF OSStop, AfterStop, Goto
<1>6. CASE OSUninstall
  BY <1>6 DEF OSUninstall, Goto
<1>7. CASE OSError \/ DialOK \/ DialTimeout \/ CallAnswered \/ CallBroken
  BY <1>7 DEF OSError, DialOK, DialTimeout, CallAnswered, CallBroken, InCall,
              Goto, os
<1>8. CASE Serve \/ Die
  BY <1>8 DEF Serve, Die, hook
<1>9. CASE Respawn
  BY <1>9 DEF Respawn, Launch, hook
<1>10. CASE Reboot
  BY <1>10 DEF Reboot
<1>11. CASE UNCHANGED vars
  BY <1>11 DEF vars, os, hook
<1> QED BY <1>1, <1>2, <1>3, <1>4, <1>5, <1>6, <1>7, <1>8, <1>9, <1>10, <1>11
        DEF Next, Step

(* The unit keeps the arguments of the operation that found none, which      *)
(* wrote those that it stood for.                                            *)
LEMMA AskedNext ==
  ASSUME TypeOK, AskedInv, [Next]_vars
  PROVE  AskedInv'
<1> USE DEF AskedInv, TypeOK
<1>1. CASE BeginHook \/ EndHook \/ Upgrade \/ KillHook \/ Reboot
  <2>1. pc' \in {"ready", "idle"} /\ UNCHANGED <<unit, first>>
    BY <1>1 DEF BeginHook, EndHook, Upgrade, KillHook, Reboot, os, hist
  <2> QED BY <2>1
<1>2. ASSUME NEW a \in Args, Start(a) PROVE AskedInv'
  BY <1>2 DEF Start, Begin, os
<1>3. CASE Restart
  BY <1>3 DEF Restart, Begin, os
<1>4. CASE Stop \/ StopAndRemove \/ Call
  <2>1. pc' # "install" /\ (pc' = "stop" => op' # "restart")
        /\ UNCHANGED <<unit, first>>
    BY <1>4 DEF Stop, StopAndRemove, Call, Begin, os, hist
  <2> QED BY <2>1
<1>5. CASE OSInstall \/ OSStart \/ OSStop
  BY <1>5 DEF OSInstall, OSStart, OSStop, AfterStop, Launch, Goto, os, hist
<1>6. CASE OSUninstall \/ OSError
  BY <1>6 DEF OSUninstall, OSError, Goto, os
<1>7. CASE DialOK \/ DialTimeout \/ CallAnswered \/ CallBroken
  BY <1>7 DEF DialOK, DialTimeout, CallAnswered, CallBroken, InCall, Goto, os,
              hist
<1>8. CASE Serve \/ Die \/ Respawn
  BY <1>8 DEF Serve, Die, Respawn, Launch, hook, hist
<1>9. CASE UNCHANGED vars
  BY <1>9 DEF vars, os, hook, hist
<1> QED BY <1>1, <1>2, <1>3, <1>4, <1>5, <1>6, <1>7, <1>8, <1>9
        DEF Next, Operation, Step

(* Without crashes a record of an installed unit is true in every step, both *)
(* in the hook process and on disk.                                          *)
LEMMA RecordNext ==
  ASSUME TypeOK, UnitInv, RecordInv, [Next]_vars
  PROVE  RecordInv'
<1> SUFFICES ASSUME crashes' = 0 PROVE RecordInv'
  BY DEF RecordInv
<1> USE ServiceAssumption DEF RecordInv, TypeOK, Idle
<1>1. CASE BeginHook \/ EndHook
  BY <1>1 DEF BeginHook, EndHook, NoFault, os
<1>2. CASE Operation
  <2>1. pc = "ready" /\ pc' # "idle" /\ UNCHANGED <<unit, rec, crashes>>
    BY <1>2 DEF Operation, Start, Restart, Stop, StopAndRemove, Call, Begin,
                NoFault, os
  <2> QED BY <2>1
<1>3. CASE OSInstall
  <2>1. want # NoUnit
    BY DEF AllArgs
  <2> QED BY <1>3, <2>1 DEF OSInstall, Goto, NoFault
<1>4. CASE OSStart
  <2>1. unit # NoUnit
    BY <1>4 DEF OSStart, UnitInv
  <2>2. pc' = "ready" /\ unit' = unit
    BY <1>4 DEF OSStart, Launch, Goto, os
  <2> QED BY <2>1, <2>2
<1>5. CASE OSStop
  BY <1>5 DEF OSStop, AfterStop, Goto, NoFault
<1>6. CASE OSUninstall
  <2>1. pc' = "ready" /\ rec' = [rec EXCEPT !.installed = FALSE]
    BY <1>6 DEF OSUninstall, Goto
  <2>2. rec'.installed = FALSE
    BY <2>1 DEF Records
  <2> QED BY <2>1, <2>2
<1>7. CASE OSError \/ DialOK \/ DialTimeout \/ CallAnswered \/ CallBroken
  BY <1>7 DEF OSError, DialOK, DialTimeout, CallAnswered, CallBroken, InCall,
              Goto, NoFault, Error, os
<1>8. CASE Serve \/ Die \/ Respawn
  BY <1>8 DEF Serve, Die, Respawn, Launch, NoFault, Error, hook
<1>9. CASE Reboot \/ KillHook
  BY <1>9 DEF Reboot, KillHook, Fault
<1>10. CASE Upgrade
  BY <1>10 DEF Upgrade, NoFault
<1>11. CASE UNCHANGED vars
  BY <1>11 DEF vars, os, hook
<1> QED BY <1>1, <1>2, <1>3, <1>4, <1>5, <1>6, <1>7, <1>8, <1>9, <1>10, <1>11
        DEF Next, Step

(* An operation of the service manager that succeeds is followed by the same *)
(* change of the record, and a start that fails after an install is noted.   *)
LEMMA AccountNext ==
  ASSUME TypeOK, UnitInv, AccountInv, [Next]_vars
  PROVE  AccountInv'
<1> USE ServiceAssumption DEF AccountInv, TypeOK, Idle
<1>1. CASE BeginHook \/ EndHook \/ Upgrade
  BY <1>1 DEF BeginHook, EndHook, Upgrade, NoFault, os, hist
<1>2. CASE Operation
  <2>1. pc = "ready" /\ pc' \in {"install", "stop", "ready", "dial"}
        /\ UNCHANGED <<unit, rec, half, crashes>>
    BY <1>2 DEF Operation, Start, Restart, Stop, StopAndRemove, Call, Begin,
                NoFault, os, hist
  <2> QED BY <2>1
<1>3. CASE OSInstall
  <2>1. unit' # NoUnit
    BY <1>3 DEF OSInstall, AllArgs
  <2> QED BY <1>3, <2>1 DEF OSInstall, Goto
<1>4. CASE OSStart
  <2>1. unit # NoUnit
    BY <1>4 DEF OSStart, UnitInv
  <2>2. pc' = "ready" /\ unit' = unit /\ rec'.installed
    BY <1>4 DEF OSStart, Launch, Goto, os
  <2>3. ~half'
    BY <1>4 DEF OSStart
  <2> QED BY <2>1, <2>2, <2>3
<1>5. CASE OSStop
  <2>1. pc = "stop" /\ pc' \in {"install", "uninstall", "ready"}
        /\ UNCHANGED <<unit, rec, half, crashes>>
    BY <1>5 DEF OSStop, AfterStop, Goto, NoFault, hist
  <2> QED BY <2>1
<1>6. CASE OSUninstall
  <2>1. pc' = "ready" /\ unit' = NoUnit /\ rec' = [rec EXCEPT !.installed = FALSE]
    BY <1>6 DEF OSUninstall, Goto
  <2>2. ~rec'.installed /\ ~half'
    BY <1>6, <2>1 DEF OSUninstall, Records
  <2> QED BY <2>1, <2>2
<1>7. CASE OSError
  <2>1. /\ pc \notin {"idle", "ready"} /\ pc' = "ready"
        /\ UNCHANGED <<unit, rec, crashes>>
        /\ half' <=> half \/ pc = "osstart"
    BY <1>7 DEF OSError, Goto, Error, os
  <2>2. CASE pc = "osstart"
    BY <2>1, <2>2 DEF UnitInv
  <2>3. CASE pc # "osstart"
    BY <2>1, <2>3
  <2> QED BY <2>2, <2>3
<1>8. CASE DialOK \/ DialTimeout \/ CallAnswered \/ CallBroken
  BY <1>8 DEF DialOK, DialTimeout, CallAnswered, CallBroken, InCall, Goto,
              NoFault, os, hist
<1>9. CASE Serve \/ Die \/ Respawn
  <2>1. /\ UNCHANGED <<unit, rec, stored, half, crashes>>
        /\ pc' = pc \/ (pc = "rpc" /\ pc' = "lost")
    BY <1>9 DEF Serve, Die, Respawn, Launch, NoFault, Error, hook, hist
  <2> QED BY <2>1
<1>10. CASE Reboot \/ KillHook
  BY <1>10 DEF Reboot, KillHook, Fault, os, hist
<1>11. CASE UNCHANGED vars
  BY <1>11 DEF vars, os, hook, hist
<1> QED BY <1>1, <1>2, <1>3, <1>4, <1>5, <1>6, <1>7, <1>8, <1>9, <1>10, <1>11
        DEF Next, Step

(* What is launched runs the executable that is there, an upgrade asks for   *)
(* another Restart, and a Restart starts what it has stopped.                *)
LEMMA FreshNext ==
  ASSUME TypeOK, FreshInv, [Next]_vars
  PROVE  FreshInv'
<1> USE DEF FreshInv, Alive, TypeOK
<1>1. CASE BeginHook \/ EndHook \/ KillHook
  BY <1>1 DEF BeginHook, EndHook, KillHook, os, hist
<1>2. CASE Operation
  <2>1. /\ pc' \in {"install", "stop", "ready", "dial"}
        /\ pc' = "install" => op' = "start"
        /\ UNCHANGED <<os, fresh>>
    BY <1>2 DEF Operation, Start, Restart, Stop, StopAndRemove, Call, Begin,
                hist
  <2> QED BY <2>1 DEF os
<1>3. CASE OSInstall \/ OSUninstall
  BY <1>3 DEF OSInstall, OSUninstall, Goto
<1>4. CASE OSStart
  <2>1. pc = "osstart" /\ pc' = "ready" /\ fresh' = (fresh \/ op = "restart")
    BY <1>4 DEF OSStart, Goto
  <2>2. CASE Alive
    BY <1>4, <2>1, <2>2 DEF OSStart, os
  <2>3. CASE ~Alive
    BY <1>4, <2>1, <2>3 DEF OSStart, Launch
  <2> QED BY <2>2, <2>3
<1>5. CASE OSStop
  BY <1>5 DEF OSStop, AfterStop, Goto
<1>6. CASE OSError \/ DialOK \/ DialTimeout \/ CallAnswered \/ CallBroken
  BY <1>6 DEF OSError, DialOK, DialTimeout, CallAnswered, CallBroken, InCall,
              Goto, os, hist
<1>7. CASE Serve \/ Die
  BY <1>7 DEF Serve, Die, hook, hist
<1>8. CASE Respawn
  BY <1>8 DEF Respawn, Launch, hook, hist
<1>9. CASE Reboot \/ Upgrade
  BY <1>9 DEF Reboot, Upgrade
<1>10. CASE UNCHANGED vars
  BY <1>10 DEF vars, os, hook, hist
<1> QED BY <1>1, <1>2, <1>3, <1>4, <1>5, <1>6, <1>7, <1>8, <1>9, <1>10
        DEF Next, Step

(* The invariant: types and the agreement of the record need UnitInv (what   *)
(* is launched has a unit), the others are each inductive given the types.   *)
LEMMA ServiceInvariant == Spec => []ServiceInv
<1> USE ServiceAssumption
<1>1. Init => ServiceInv
  <2> SUFFICES ASSUME Init PROVE ServiceInv
    OBVIOUS
  <2>1. 0 \in Versions /\ 0 \in 0 .. MaxOps /\ 0 \in 0 .. MaxFaults
    BY DEF Versions
  <2>2. rec \in Records /\ stored \in Records
        /\ running \in [args : AllArgs, version : Versions]
    BY <2>1 DEF Init, Records, AllArgs
  <2>3. fresh \in BOOLEAN
    BY DEF Init
  <2>4. TypeOK
    BY <2>1, <2>2, <2>3
       DEF Init, TypeOK, AllArgs, Statuses, Phases, OpNames
  <2>5. UnitInv /\ AskedInv /\ RecordInv /\ AccountInv /\ FreshInv
    BY DEF Init, UnitInv, AskedInv, RecordInv, AccountInv, FreshInv, Alive, Idle
  <2> QED BY <2>4, <2>5 DEF ServiceInv
<1>2. ServiceInv /\ [Next]_vars => ServiceInv'
  BY TypeNext, UnitNext, AskedNext, RecordNext, AccountNext, FreshNext
     DEF ServiceInv
<1> QED BY <1>1, <1>2, PTL DEF Spec

(* The state is well typed; in particular no process is ever launched from a *)
(* unit that is not there.                                                   *)
THEOREM TypeCorrect == Spec => []TypeOK
<1>1. ServiceInv => TypeOK
  BY DEF ServiceInv
<1> QED BY <1>1, ServiceInvariant, PTL

(* Removing the service leaves no process behind, whatever fails.            *)
THEOREM NeverOrphaned == Spec => []NoOrphan
<1>1. ServiceInv => NoOrphan
  BY DEF ServiceInv, UnitInv, NoOrphan
<1> QED BY <1>1, ServiceInvariant, PTL

(* Without crashes, a service on record is an installed service.             *)
THEOREM RecordTrusted == Spec => []RecordedIsInstalled
<1>1. ServiceInv => RecordedIsInstalled
  BY DEF ServiceInv, RecordInv, RecordedIsInstalled
<1> QED BY <1>1, ServiceInvariant, PTL

(* A service only ever runs with the arguments of the first Start or Restart *)
(* since it had no unit.                                                     *)
THEOREM RunsAsFirstAsked == Spec => []FirstArgsKept
<1>1. ServiceInv => FirstArgsKept
  BY DEF ServiceInv, UnitInv, AskedInv, FirstArgsKept
<1> QED BY <1>1, ServiceInvariant, PTL

(* Without crashes a unit is there between two operations just if one is on  *)
(* record or the start that followed its install failed.                     *)
THEOREM UnitIsAccounted == Spec => []UnitAccounted
<1>1. ServiceInv => UnitAccounted
  BY DEF ServiceInv, AccountInv, UnitAccounted
<1> QED BY <1>1, ServiceInvariant, PTL

(* A service that was restarted after an upgrade runs the new executable.    *)
THEOREM RestartUpgrades == Spec => []RestartPicksUpUpgrade
<1>1. ServiceInv => RestartPicksUpUpgrade
  BY DEF ServiceInv, FreshInv, RestartPicksUpUpgrade
<1> QED BY <1>1, ServiceInvariant, PTL
=============================================================================
