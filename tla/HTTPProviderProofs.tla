------------------------- MODULE HTTPProviderProofs -------------------------
(* Proofs about HTTPProvider, for every set of ports and relations and every *)
(* bound on changes, failures and crashes.                                   *)
EXTENDS HTTPProvider, TLAPS

(* A function that returns a tool's error leaves the state well typed.       *)
LEMMA FailHookTyped ==
  ASSUME TypeOK, pc # "idle", NEW tool, FailHook(tool)
  PROVE  TypeOK'
<1> USE ProviderAssumption DEF TypeOK, FailHook, ToolFails, juju, world
<1>1. faults' \in 0 .. MaxFaults
  OBVIOUS
<1>2. failed' \in BOOLEAN /\ pc' = "saveValues" /\ hcfg' \in Configs
  OBVIOUS
<1> QED BY <1>1, <1>2

(* The state is well typed: the ports recorded, opened and told are always   *)
(* ports of the configuration option they are for, or none.                  *)
THEOREM TypeCorrect == Spec => []TypeOK
<1> USE ProviderAssumption DEF NoPort, Unset
<1>1. Init => TypeOK
  <2> SUFFICES ASSUME Init PROVE TypeOK
    OBVIOUS
  <2>1. rec \in Record /\ disk \in [rec : Record, vals : Telling]
        /\ vals \in Telling /\ adv \in [Ids -> Telling]
    BY DEF Init, NothingOpen, Record, Telling
  <2>2. must \in HookSet /\ hook \in HookSet
    BY DEF Init, HookSet
  <2>3. changes \in 0 .. MaxChanges /\ faults \in 0 .. MaxFaults
        /\ crashes \in 0 .. MaxCrashes
    BY DEF Init
  <2> QED BY <2>1, <2>2, <2>3 DEF Init, TypeOK, Protos
<1>2. TypeOK /\ [Next]_vars => TypeOK'
  <2> SUFFICES ASSUME TypeOK, [Next]_vars PROVE TypeOK'
    OBVIOUS
  <2> USE DEF TypeOK
  <2>1. CASE ChangeConfig
    BY <2>1 DEF ChangeConfig, world, process
  <2>2. ASSUME NEW id \in Ids, AddRelation(id) PROVE TypeOK'
    BY <2>2 DEF AddRelation, world, process, tally
  <2>3. CASE StartConfig
    BY <2>3 DEF StartConfig, StartHook, HookSet, world, tally, Protos
  <2>4. ASSUME NEW id \in Ids, StartJoined(id) PROVE TypeOK'
    BY <2>4 DEF StartJoined, StartHook, HookSet, world, tally, Protos
  <2>5. CASE HookStep
    <3>1. CASE ReadPort
      BY <3>1 DEF ReadPort, AfterPort, Stay, juju, tally, world
    <3>2. CASE ClosePort
      BY <3>2 DEF ClosePort, Stay, juju, tally, Record, Protos
    <3>3. CASE OpenPort
      BY <3>3 DEF OpenPort, AfterPort, Stay, juju, tally, Record, Protos, Ports,
                  HTTPPorts, HTTPSPorts
    <3>4. CASE PortToolFails \/ AddressFails \/ SetFails \/ JoinFails
      BY <3>4, FailHookTyped DEF PortToolFails, AddressFails, SetFails, JoinFails
    <3>5. CASE CheckCert
      BY <3>5 DEF CheckCert, Stay, juju, tally, world, Protos
    <3>12. CASE CertIgnored
      BY <3>12 DEF CertIgnored, ToolFails, juju, world, process
    <3>6. CASE Advertise
      BY <3>6 DEF Advertise, Stay, juju, tally, world
    <3>7. CASE SetRelation
      BY <3>7 DEF SetRelation, Stay, juju, tally, Telling, Record
    <3>8. CASE SetValuesDone
      BY <3>8 DEF SetValuesDone, juju, tally, world, Telling, Record
    <3>9. CASE Joined
      BY <3>9 DEF Joined, Stay, juju, tally, world
    <3>10. CASE SaveValues
      BY <3>10 DEF SaveValues, juju, world, tally, process
    <3>11. CASE SavePorts
      BY <3>11 DEF SavePorts, ProcessEnds, world, tally, HookSet, NothingOpen,
                   Record, Telling, Protos
    <3> QED BY <2>5, <3>1, <3>2, <3>3, <3>4, <3>5, <3>6, <3>7, <3>8, <3>9,
               <3>10, <3>11, <3>12 DEF HookStep
  <2>6. CASE Crash
    <3>1. crashes' \in 0 .. MaxCrashes /\ crashes' = crashes + 1
      BY <2>6 DEF Crash
    <3>2. rec' \in Record /\ vals' \in Telling /\ hook' \in HookSet
          /\ hcfg' = NoConfig /\ which' \in Protos /\ todo' \in SUBSET Ids
      BY <2>6 DEF Crash, ProcessEnds, HookSet, NothingOpen, Record, Telling,
                  Protos
    <3>3. failed' \in BOOLEAN /\ pc' = "idle"
      BY <2>6 DEF Crash, ProcessEnds
    <3> QED BY <2>6, <3>1, <3>2, <3>3 DEF Crash, juju, world
  <2>7. CASE UNCHANGED vars
    BY <2>7 DEF vars, juju, world, tally, process
  <2> QED BY <2>1, <2>2, <2>3, <2>4, <2>5, <2>6, <2>7 DEF Next
<1> QED BY <1>1, <1>2, PTL DEF Spec

-----------------------------------------------------------------------------
(* The two options never name the same port.  Without it closing the old     *)
(* port of one server may close the port of the other (run httpprovider_swap).*)
Disjoint == HTTPPorts \cap HTTPSPorts \subseteq {NoPort}

(* What makes RecordedPortsOpen inductive: a port is opened only when none   *)
(* is recorded for its protocol, and it is a port.                           *)
PortsInv ==
  /\ RecordedPortsOpen
  /\ pc = "open" => rec[which] = NoPort
  /\ pc \in {"close", "open"} => hcfg[which] # NoPort

(* At first no port is open and none is recorded.                            *)
LEMMA PortsInvInit == Init => PortsInv
BY DEF Init, PortsInv, RecordedPortsOpen, Recorded, Idle, Opened, NothingOpen

(* Every step keeps the recorded ports and the open ports the same, provided *)
(* that an HTTP port is never an HTTPS port.                                 *)
LEMMA PortsInvNext ==
  ASSUME Disjoint, TypeOK, PortsInv, [Next]_vars
  PROVE  PortsInv'
<1> USE DEF PortsInv, RecordedPortsOpen, Recorded, Idle
<1>1. CASE ChangeConfig \/ \E id \in Ids : AddRelation(id)
  BY <1>1 DEF ChangeConfig, AddRelation, Opened, world, tally, process
<1>2. CASE StartConfig \/ \E id \in Ids : StartJoined(id)
  BY <1>2 DEF StartConfig, StartJoined, StartHook, Opened, world, tally
<1>3. CASE HookStep
  <2>1. CASE ReadPort
    BY <2>1 DEF ReadPort, AfterPort, ValidPort, Stay, Opened, world, tally,
                NoPort
  <2>2. CASE ClosePort
    <3>1. crashes' = 0 => open' = Opened(rec')
      BY <2>2 DEF ClosePort, Stay, tally, Opened, Disjoint, TypeOK, Record,
                  Protos
    <3>2. rec'[which'] = NoPort
      BY <2>2 DEF ClosePort, TypeOK, Record, Protos
    <3> QED BY <2>2, <3>1, <3>2 DEF ClosePort, Stay
  <2>3. CASE OpenPort
    <3>1. crashes' = 0 => open' = Opened(rec')
      BY <2>3 DEF OpenPort, Stay, tally, Opened, TypeOK, Record, Protos
    <3> QED BY <2>3, <3>1 DEF OpenPort, AfterPort
  <2>4. CASE PortToolFails \/ AddressFails \/ SetFails \/ JoinFails
    BY <2>4 DEF PortToolFails, AddressFails, SetFails, JoinFails, FailHook,
                ToolFails, Opened, world
  <2>5. CASE CheckCert \/ CertIgnored
    BY <2>5 DEF CheckCert, CertIgnored, ToolFails, Stay, Opened, world, tally,
                process
  <2>6. CASE Advertise \/ SetRelation \/ SetValuesDone \/ Joined
    BY <2>6 DEF Advertise, SetRelation, SetValuesDone, Joined, Stay, Opened,
                world, tally
  <2>7. CASE SaveValues
    BY <2>7 DEF SaveValues, Opened, world, tally, process
  <2>8. CASE SavePorts
    BY <2>8 DEF SavePorts, Opened, world, tally, TypeOK
  <2> QED BY <1>3, <2>1, <2>2, <2>3, <2>4, <2>5, <2>6, <2>7, <2>8 DEF HookStep
<1>4. CASE Crash
  BY <1>4 DEF Crash, TypeOK
<1>5. CASE UNCHANGED vars
  BY <1>5 DEF vars, juju, world, tally, process, Opened
<1> QED BY <1>1, <1>2, <1>3, <1>4, <1>5 DEF Next

(* As long as nothing has crashed the ports recorded as opened are exactly   *)
(* those that are open, at every step of every hook and whichever hook tools *)
(* fail, so that a port is closed when the configuration moves away from it. *)
THEOREM PortsAccounted == Disjoint => (Spec => []RecordedPortsOpen)
<1> SUFFICES ASSUME Disjoint PROVE Spec => []RecordedPortsOpen
  OBVIOUS
<1>1. TypeOK /\ PortsInv /\ [Next]_vars => PortsInv'
  BY PortsInvNext
<1>2. PortsInv => RecordedPortsOpen
  BY DEF PortsInv
<1> QED BY <1>1, <1>2, PortsInvInit, TypeCorrect, PTL DEF Spec

-----------------------------------------------------------------------------
(* What the relations have been told.                                        *)

Saving == pc \in {"saveValues", "savePorts"}
Done == Saving /\ ~failed      \* the hook's functions have all succeeded

(* Unless the config-changed hook is to be run (again), the values for those *)
(* who join and what the others have been told are the port on record.  The  *)
(* config-changed hook sees to every relation that is not about to be joined,*)
(* a joined hook changes nothing but what its own relation is told.          *)
ToldInv ==
  /\ must # ConfigHook =>
       /\ disk.vals = disk.rec.http
       /\ \A id \in ids \ toJoin : adv[id] = disk.rec.http
  /\ ~Idle => must = hook /\ hook # None
  /\ failed => Saving
  /\ pc = "savePorts" => disk.vals = vals
  /\ rec.http # Unset /\ disk.rec.http # Unset
  /\ pc \in {"close", "open"} => ValidPort(hcfg[which])
  /\ ~Idle /\ hook # ConfigHook =>
       /\ pc = "joined" \/ Saving
       /\ hook.id \in toJoin /\ rec = disk.rec /\ vals = disk.vals
       /\ Done => adv[hook.id] = vals
  /\ ~Idle /\ hook = ConfigHook =>
       /\ pc # "joined"
       /\ ~Saving => \A id \in ids \ toJoin :
                       id \in todo \/ (pc = "set" /\ adv[id] = rec.http)
       /\ Done => /\ vals = rec.http
                  /\ \A id \in ids \ toJoin : adv[id] = rec.http

LEMMA HookKinds ==
  /\ ConfigHook # None
  /\ \A id : /\ JoinedHook(id) \notin {ConfigHook, None}
             /\ JoinedHook(id).id = id
             /\ JoinedHook(id).kind = "joined"
  /\ ConfigHook.kind = "config"
BY DEF ConfigHook, None, JoinedHook

(* Every state but Idle is a step of a hook, the one Juju would run again.   *)
LEMMA ToldInvInit == Init => ToldInv
<1> SUFFICES ASSUME Init PROVE ToldInv
  OBVIOUS
<1>1. pc = "idle" /\ ~failed /\ must = ConfigHook /\ rec = NothingOpen
      /\ disk.rec = NothingOpen
  BY DEF Init
<1>2. NothingOpen.http # Unset
  BY DEF NothingOpen, NoPort, Unset
<1>3. QED
  BY <1>1, <1>2 DEF ToldInv, Idle, Saving, Done

LEMMA ToldInvHook ==
  ASSUME TypeOK, ToldInv, HookStep
  PROVE  ToldInv'
<1> USE ProviderAssumption, HookKinds
<1>1. /\ rec \in Record /\ disk \in [rec : Record, vals : Telling]
      /\ adv \in [Ids -> Telling] /\ ids \subseteq Ids /\ toJoin \subseteq ids
      /\ which \in Protos /\ todo \subseteq Ids /\ hook \in HookSet
  BY DEF TypeOK
<1>2. CASE ReadPort
  <2>1. UNCHANGED <<juju, adv, hook, hcfg, which, todo, rec, vals, failed, disk>>
    BY <1>2 DEF ReadPort, Stay, world
  <2>2. /\ pc = "read" /\ pc' \in {"cert", "advertise", "close", "open"}
        /\ pc' \in {"close", "open"} => ValidPort(hcfg[which])
    BY <1>2 DEF ReadPort, AfterPort
  <2>3. QED
    BY <2>1, <2>2 DEF ToldInv, Idle, Saving, Done, juju
<1>3. CASE ClosePort
  <2>1. UNCHANGED <<juju, adv, hook, hcfg, which, todo, vals, failed, disk>>
    BY <1>3 DEF ClosePort, Stay
  <2>2. pc = "close" /\ pc' = "open"
    BY <1>3 DEF ClosePort
  <2>3. rec'.http \in {rec.http, NoPort}
    BY <1>1, <1>3 DEF ClosePort, Record, Protos
  <2>4. QED
    BY <2>1, <2>2, <2>3 DEF ToldInv, Idle, Saving, Done, juju, NoPort, Unset
<1>4. CASE OpenPort
  <2>1. UNCHANGED <<juju, adv, hook, hcfg, which, todo, vals, failed, disk>>
    BY <1>4 DEF OpenPort, Stay
  <2>2. pc = "open" /\ pc' \in {"cert", "advertise"}
    BY <1>4 DEF OpenPort, AfterPort
  <2>3. rec'.http # Unset
    BY <1>1, <1>4, <2>2
    DEF OpenPort, Record, Protos, ToldInv, ValidPort, Unset
  <2>4. QED
    BY <2>1, <2>2, <2>3 DEF ToldInv, Idle, Saving, Done, juju
<1>5. CASE PortToolFails \/ AddressFails \/ SetFails \/ JoinFails
  <2>1. /\ UNCHANGED <<juju, adv, hook, hcfg, which, todo, rec, vals, disk>>
        /\ pc' = "saveValues" /\ failed' /\ pc # "idle"
    BY <1>5 DEF PortToolFails, AddressFails, SetFails, JoinFails, FailHook, world
  <2>2. QED
    BY <2>1 DEF ToldInv, Idle, Saving, Done, juju
<1>6. CASE CheckCert \/ CertIgnored \/ Advertise
  <2>1. UNCHANGED <<juju, adv, hook, hcfg, todo, rec, vals, failed, disk>>
    BY <1>6 DEF CheckCert, CertIgnored, Advertise, Stay, world, process
  <2>2. pc \in {"cert", "advertise"} /\ pc' \in {"read", "advertise", "set"}
    BY <1>6 DEF CheckCert, CertIgnored, Advertise
  <2>3. QED
    BY <2>1, <2>2 DEF ToldInv, Idle, Saving, Done, juju
<1>7. CASE SetRelation
  <2>1. PICK id \in todo : /\ adv' = [adv EXCEPT ![id] = rec.http]
                           /\ todo' = todo \ {id}
    BY <1>7 DEF SetRelation
  <2>2. UNCHANGED <<juju, pc, hook, hcfg, which, rec, vals, failed, disk>>
    BY <1>7 DEF SetRelation, Stay
  <2>3. pc = "set" /\ hook = ConfigHook /\ must = ConfigHook
    BY <1>7 DEF SetRelation, ToldInv, Idle, Saving
  <2>4. \A i \in ids \ toJoin : i \in todo' \/ adv'[i] = rec.http
    BY <1>1, <2>1, <2>3 DEF ToldInv, Idle, Saving
  <2>5. QED
    BY <2>2, <2>3, <2>4 DEF ToldInv, Idle, Saving, Done, juju
<1>8. CASE SetValuesDone
  <2>1. /\ UNCHANGED <<juju, adv, hook, hcfg, which, todo, rec, failed, disk>>
        /\ pc = "set" /\ todo = {} /\ vals' = rec.http /\ pc' = "saveValues"
    BY <1>8 DEF SetValuesDone, world
  <2>2. QED
    BY <2>1 DEF ToldInv, Idle, Saving, Done, juju
<1>9. CASE Joined
  <2>1. /\ UNCHANGED <<juju, hook, hcfg, which, todo, rec, vals, failed, disk>>
        /\ pc = "joined" /\ pc' = "saveValues"
    BY <1>9 DEF Joined, Stay
  <2>2. /\ hook # ConfigHook /\ must = hook /\ vals # Unset
        /\ hook.id \in toJoin
    BY <2>1 DEF ToldInv, Idle
  <2>3. adv' = [adv EXCEPT ![hook.id] = vals]
    BY <1>9, <2>2 DEF Joined
  <2>4. adv'[hook.id] = vals /\ \A id \in ids \ toJoin : adv'[id] = adv[id]
    BY <1>1, <2>2, <2>3
  <2>5. QED
    BY <2>1, <2>2, <2>4 DEF ToldInv, Idle, Saving, Done, juju
<1>10. CASE SaveValues
  <2>1. /\ UNCHANGED <<juju, adv, hook, hcfg, which, todo, rec, vals, failed>>
        /\ pc = "saveValues" /\ pc' = "savePorts"
    BY <1>10 DEF SaveValues, world, process
  <2>2. disk'.vals = vals /\ disk'.rec = disk.rec
    BY <1>1, <1>10 DEF SaveValues
  <2>3. QED
    BY <2>1, <2>2 DEF ToldInv, Idle, Saving, Done, juju
<1>11. CASE SavePorts
  <2>1. /\ pc = "savePorts" /\ pc' = "idle" /\ ids' = ids /\ adv' = adv
        /\ must' = IF failed THEN hook ELSE None
        /\ toJoin' = IF hook.kind = "joined" /\ ~failed THEN toJoin \ {hook.id}
                     ELSE toJoin
        /\ failed' = FALSE /\ rec' = NothingOpen
    BY <1>11 DEF SavePorts, ProcessEnds, world
  <2>2. disk'.rec = rec /\ disk'.vals = disk.vals /\ disk.vals = vals
    BY <1>1, <1>11, <2>1 DEF SavePorts, ToldInv
  <2>3. NothingOpen.http # Unset
    BY DEF NothingOpen, NoPort, Unset
  <2>4. ASSUME must' # ConfigHook
        PROVE  /\ disk'.vals = disk'.rec.http
               /\ \A id \in ids' \ toJoin' : adv'[id] = disk'.rec.http
    <3>1. CASE hook = ConfigHook
      BY <2>1, <2>2, <2>4, <3>1 DEF ToldInv, Idle, Saving, Done
    <3>2. CASE hook # ConfigHook
      <4>1. /\ must = hook /\ rec = disk.rec /\ vals = disk.vals
            /\ ~failed => adv[hook.id] = vals
        BY <2>1, <3>2 DEF ToldInv, Idle, Saving, Done
      <4>2. /\ disk.vals = disk.rec.http
            /\ \A id \in ids \ toJoin : adv[id] = disk.rec.http
        BY <3>2, <4>1 DEF ToldInv
      <4>3. QED
        BY <2>1, <2>2, <4>1, <4>2
    <3>3. QED
      BY <3>1, <3>2
  <2>5. QED
    BY <2>1, <2>2, <2>3, <2>4 DEF ToldInv, Idle, Saving, Done
<1>12. QED
  BY <1>2, <1>3, <1>4, <1>5, <1>6, <1>7, <1>8, <1>9, <1>10, <1>11 DEF HookStep

LEMMA ToldInvNext ==
  ASSUME TypeOK, ToldInv, [Next]_vars
  PROVE  ToldInv'
<1> USE HookKinds
<1>1. CASE ChangeConfig \/ \E id \in Ids : AddRelation(id)
  <2>1. /\ UNCHANGED <<must, adv, pc, hook, hcfg, which, todo, rec, vals, failed,
                       disk>>
        /\ ids' \ toJoin' \subseteq ids \ toJoin /\ toJoin \subseteq toJoin'
    BY <1>1 DEF ChangeConfig, AddRelation, world, process
  <2>2. QED
    BY <2>1 DEF ToldInv, Idle, Saving, Done
<1>2. CASE StartConfig
  <2>1. /\ pc' = "read" /\ hook' = ConfigHook /\ must' = ConfigHook
        /\ todo' = ids /\ ids' = ids /\ failed' = FALSE
        /\ rec' = disk.rec /\ disk' = disk
    BY <1>2 DEF StartConfig, StartHook
  <2>2. QED
    BY <2>1 DEF ToldInv, Idle, Saving, Done
<1>3. ASSUME NEW id \in Ids, StartJoined(id) PROVE ToldInv'
  <2>1. /\ pc' = "joined" /\ hook' = JoinedHook(id) /\ must' = JoinedHook(id)
        /\ must # ConfigHook /\ ids' = ids /\ failed' = FALSE
        /\ rec' = disk.rec /\ vals' = disk.vals /\ disk' = disk
        /\ adv' = adv /\ toJoin' = toJoin /\ id \in toJoin
    BY <1>3 DEF StartJoined, StartHook, world
  <2>2. QED
    BY <2>1 DEF ToldInv, Idle, Saving, Done
<1>4. CASE HookStep
  BY <1>4, ToldInvHook
<1>5. CASE Crash
  <2>1. /\ UNCHANGED <<must, ids, toJoin, adv, disk>> /\ pc' = "idle"
        /\ failed' = FALSE /\ rec' = NothingOpen
    BY <1>5 DEF Crash, ProcessEnds, juju, world
  <2>2. NothingOpen.http # Unset
    BY DEF NothingOpen, NoPort, Unset
  <2>3. QED
    BY <2>1, <2>2 DEF ToldInv, Idle, Saving, Done
<1>6. CASE UNCHANGED vars
  BY <1>6 DEF vars, juju, world, process, ToldInv, Idle, Saving, Done
<1>7. QED
  BY <1>1, <1>2, <1>3, <1>4, <1>5, <1>6 DEF Next

LEMMA ToldInvariant == Spec => [](TypeOK /\ ToldInv)
<1>1. TypeOK /\ ToldInv /\ [Next]_vars => ToldInv'
  BY ToldInvNext
<1>2. QED
  BY <1>1, ToldInvInit, TypeCorrect, PTL DEF Spec

(* Between two hooks every relation whose joined hook is done has been told  *)
(* the HTTP port on record, for any configuration, relations, failures and   *)
(* crashes.                                                                  *)
THEOREM Told == Spec => []ToldIsRecorded
<1>1. ToldInv => ToldIsRecorded
  BY HookKinds DEF ToldInv, ToldIsRecorded
<1>2. QED
  BY <1>1, ToldInvariant, PTL

-----------------------------------------------------------------------------
(* Unless the config-changed hook is due, the ports on record are those of   *)
(* the configuration; its run makes them so one after the other.             *)
FollowInv ==
  /\ ~dirty /\ must # ConfigHook =>
       /\ PortFollows(cfg.http, disk.rec.http)
       /\ AllowHTTPS /\ ~swallowed => PortFollows(cfg.https, disk.rec.https)
  /\ ~Idle /\ hook = ConfigHook =>
       /\ ~dirty => hcfg = cfg
       /\ which = "https" \/ pc \in {"cert", "advertise", "set"} \/ Done =>
            PortFollows(hcfg.http, rec.http)
       /\ (pc \in {"advertise", "set"} \/ Done) /\ AllowHTTPS /\ ~swallowed =>
            PortFollows(hcfg.https, rec.https)

LEMMA FollowInvHook ==
  ASSUME TypeOK, ToldInv, FollowInv, HookStep
  PROVE  FollowInv'
<1> USE ProviderAssumption, HookKinds
<1>1. /\ rec \in Record /\ disk \in [rec : Record, vals : Telling]
      /\ which \in Protos
  BY DEF TypeOK
<1>2. CASE ReadPort
  <2>1. UNCHANGED <<juju, hook, hcfg, which, rec, failed, disk, swallowed>>
    BY <1>2 DEF ReadPort, Stay, tally
  <2>2. /\ pc = "read"
        /\ \/ pc' \in {"close", "open"}
           \/ /\ PortFollows(hcfg[which], rec[which])
              /\ pc' = IF which = "http" /\ AllowHTTPS THEN "cert"
                       ELSE "advertise"
    BY <1>2 DEF ReadPort, AfterPort, PortFollows
  <2>3. QED
    BY <1>1, <2>1, <2>2 DEF FollowInv, Idle, Saving, Done, juju, Protos
<1>3. CASE ClosePort
  <2>1. /\ UNCHANGED <<juju, hook, hcfg, which, failed, disk, swallowed>>
        /\ pc = "close" /\ pc' = "open"
    BY <1>3 DEF ClosePort, Stay, tally
  <2>2. which = "https" => rec'.http = rec.http
    BY <1>1, <1>3 DEF ClosePort, Record
  <2>3. QED
    BY <2>1, <2>2 DEF FollowInv, Idle, Saving, Done, juju
<1>4. CASE OpenPort
  <2>1. /\ UNCHANGED <<juju, hook, hcfg, which, failed, disk, swallowed>>
        /\ pc = "open" /\ pc' = IF which = "http" /\ AllowHTTPS THEN "cert"
                                ELSE "advertise"
    BY <1>4 DEF OpenPort, AfterPort, Stay, tally
  <2>2. /\ rec'[which] = hcfg[which]
        /\ which = "https" => rec'.http = rec.http
    BY <1>1, <1>4 DEF OpenPort, Record, Protos
  <2>3. QED
    BY <1>1, <2>1, <2>2 DEF FollowInv, Idle, Saving, Done, juju, Protos,
                            PortFollows
<1>5. CASE PortToolFails \/ AddressFails \/ SetFails \/ JoinFails
  <2>1. /\ UNCHANGED <<juju, hook, hcfg, which, rec, disk, swallowed>>
        /\ pc' = "saveValues" /\ failed' /\ pc # "idle"
    BY <1>5 DEF PortToolFails, AddressFails, SetFails, JoinFails, FailHook
  <2>2. QED
    BY <2>1 DEF FollowInv, Idle, Saving, Done, juju
<1>6. CASE CheckCert \/ CertIgnored
  <2>1. UNCHANGED <<juju, hook, hcfg, rec, failed, disk>> /\ pc = "cert"
    BY <1>6 DEF CheckCert, CertIgnored, Stay, process
  <2>2. \/ pc' = "read" /\ swallowed' = swallowed
        \/ pc' = "advertise" /\ swallowed' = TRUE /\ which' = which
    BY <1>6 DEF CheckCert, CertIgnored, Stay, tally, process
  <2>3. ~failed /\ hook = ConfigHook /\ must = ConfigHook
    BY <2>1 DEF ToldInv, Idle, Saving
  <2>4. QED
    BY <2>1, <2>2, <2>3 DEF FollowInv, Idle, Saving, Done, juju
<1>7. CASE Advertise \/ SetRelation \/ SetValuesDone
  <2>1. UNCHANGED <<juju, hook, hcfg, which, rec, failed, disk, swallowed>>
    BY <1>7 DEF Advertise, SetRelation, SetValuesDone, Stay, tally
  <2>2. pc \in {"advertise", "set"} /\ pc' \in {"set", "saveValues"}
    BY <1>7 DEF Advertise, SetRelation, SetValuesDone
  <2>3. QED
    BY <2>1, <2>2 DEF FollowInv, Idle, Saving, Done, juju
<1>8. CASE Joined
  <2>1. /\ UNCHANGED <<juju, hook, hcfg, which, rec, failed, disk, swallowed>>
        /\ hook # ConfigHook
    BY <1>8 DEF Joined, Stay, tally, ToldInv, Idle
  <2>2. QED
    BY <2>1 DEF FollowInv, juju
<1>9. CASE SaveValues
  <2>1. /\ UNCHANGED <<juju, hook, hcfg, which, rec, failed, swallowed>>
        /\ pc = "saveValues" /\ pc' = "savePorts"
    BY <1>9 DEF SaveValues, tally, process
  <2>2. disk'.rec = disk.rec
    BY <1>1, <1>9 DEF SaveValues
  <2>3. QED
    BY <2>1, <2>2 DEF FollowInv, Idle, Saving, Done, juju
<1>10. CASE SavePorts
  <2>1. /\ pc = "savePorts" /\ pc' = "idle"
        /\ UNCHANGED <<cfg, dirty, swallowed>>
        /\ must' = IF failed THEN hook ELSE None
    BY <1>10 DEF SavePorts, tally
  <2>2. disk'.rec = rec /\ must = hook
    BY <1>1, <1>10, <2>1 DEF SavePorts, ToldInv, Idle
  <2>3. CASE hook = ConfigHook
    BY <2>1, <2>2, <2>3 DEF FollowInv, Idle, Saving, Done
  <2>4. CASE hook # ConfigHook
    <3>1. rec = disk.rec
      BY <2>1, <2>4 DEF ToldInv, Idle
    <3>2. QED
      BY <2>1, <2>2, <2>4, <3>1 DEF FollowInv, Idle
  <2>5. QED
    BY <2>3, <2>4
<1>11. QED
  BY <1>2, <1>3, <1>4, <1>5, <1>6, <1>7, <1>8, <1>9, <1>10 DEF HookStep

LEMMA FollowInvNext ==
  ASSUME TypeOK, ToldInv, FollowInv, [Next]_vars
  PROVE  FollowInv'
<1> USE HookKinds
<1>1. CASE ChangeConfig
  <2>1. dirty' /\ UNCHANGED <<must, pc, hook, hcfg, which, rec, failed, disk,
                              swallowed>>
    BY <1>1 DEF ChangeConfig, process
  <2>2. QED
    BY <2>1 DEF FollowInv, Idle, Saving, Done
<1>2. CASE (\E id \in Ids : AddRelation(id)) \/ UNCHANGED vars
  <2>1. UNCHANGED <<cfg, dirty, must, pc, hook, hcfg, which, rec, failed, disk,
                    swallowed>>
    BY <1>2 DEF AddRelation, vars, juju, tally, process
  <2>2. QED
    BY <2>1 DEF FollowInv, Idle, Saving, Done
<1>3. CASE StartConfig
  <2>1. /\ pc' = "read" /\ hook' = ConfigHook /\ must' = ConfigHook
        /\ hcfg' = cfg /\ cfg' = cfg /\ which' = "http"
    BY <1>3 DEF StartConfig, StartHook
  <2>2. QED
    BY <2>1 DEF FollowInv, Saving, Done
<1>4. ASSUME NEW id \in Ids, StartJoined(id) PROVE FollowInv'
  <2>1. /\ hook' = JoinedHook(id) /\ must # ConfigHook
        /\ UNCHANGED <<cfg, dirty, disk, swallowed>>
    BY <1>4 DEF StartJoined, StartHook
  <2>2. QED
    BY <2>1 DEF FollowInv
<1>5. CASE HookStep
  BY <1>5, FollowInvHook
<1>6. CASE Crash
  <2>1. UNCHANGED <<cfg, dirty, must, disk, swallowed>> /\ pc' = "idle"
    BY <1>6 DEF Crash, juju
  <2>2. QED
    BY <2>1 DEF FollowInv, Idle
<1>7. QED
  BY <1>1, <1>2, <1>3, <1>4, <1>5, <1>6 DEF Next

(* Once nothing is left to do the HTTP port on record is the configured one, *)
(* and with a certificate the HTTPS port too, unless the last hook took a    *)
(* failing config-get for a missing certificate; every relation has been     *)
(* told.  Any other failures and any crashes may have come before.           *)
THEOREM Right == Spec => []SettledIsRight
<1>1. Init => FollowInv
  BY DEF Init, FollowInv, Idle
<1>2. TypeOK /\ ToldInv /\ FollowInv /\ [Next]_vars => FollowInv'
  BY FollowInvNext
<1>3. ToldInv /\ FollowInv => SettledIsRight
  BY HookKinds DEF ToldInv, FollowInv, SettledIsRight, Settled, AllTold
<1>4. QED
  BY <1>1, <1>2, <1>3, ToldInvariant, PTL DEF Spec
=============================================================================
