---------------------------- MODULE HTTPProvider ----------------------------
(* The provider side of an http relation (charmbits/httprelation/provider.go *)
(* over charmbits/simplerelation/provider.go): the ports it opens and        *)
(* closes, the ports it remembers having opened, and the port it tells its   *)
(* relations.                                                                *)
(*                                                                           *)
(* Its functions run in hooks.  A hook reads one version of the              *)
(* configuration; what it remembers is loaded when it starts and saved when  *)
(* it ends, successful or not (module HookMain), the values of               *)
(* simplerelation before the ports because they were registered first.  A    *)
(* crash loses what is not saved, but what the hook tools did stays done.    *)
(* Juju runs a failed hook again before any other.                           *)
EXTENDS Integers

CONSTANTS
  Configs,      \* configurations: the two ports, valid or not, and whether
                \* there is a certificate
  AllowHTTPS,   \* Register's argument
  Ids,          \* relation ids
  MaxChanges,   \* bound on configuration changes
  MaxFaults,    \* bound on failing hook tools
  MaxCrashes,   \* bound on crashes
  Faulty        \* which hook tools may fail

Tools == {"config", "cert", "close", "open", "address", "set"}

NoPort == 0
Unset == -1      \* Values is empty: there is nothing to tell a relation

ASSUME ProviderAssumption ==
  /\ Configs \subseteq [http : Int, https : Int, cert : BOOLEAN]
  /\ Configs # {}
  /\ AllowHTTPS \in BOOLEAN
  /\ MaxChanges \in Nat /\ MaxFaults \in Nat /\ MaxCrashes \in Nat
  /\ Faulty \subseteq Tools

VARIABLES
  \* Juju:
  cfg,      \* the configuration
  dirty,    \* a config-changed hook is due
  ids,      \* the relations there are
  toJoin,   \* those whose relation-joined hook is due
  must,     \* the hook to run before any other: install, or one that failed
  open,     \* the ports opened on the unit
  adv,      \* the port each relation has been told
  changes, faults, crashes,
  \* The hook process:
  pc, hook,
  hcfg,     \* the configuration as config-get gives it
  which,    \* the port configurePort is called for
  todo,     \* the relation ids SetValues has yet to set
  rec,      \* providerState: the ports recorded as opened
  vals,     \* simplerelation's Values: the port in them
  failed,   \* has a function returned an error?
  \* The files:
  disk,
  \* History, read by the properties and by no action:
  swallowed \* the last config-changed hook took an error for a missing cert

juju    == <<cfg, dirty, ids, toJoin, must>>
world   == <<open, adv>>
tally   == <<changes, faults, crashes, swallowed>>
process == <<hook, hcfg, which, todo, rec, vals, failed>>
vars    == <<juju, world, tally, pc, process, disk>>

(* The values of "http-port" and of "https-port".                            *)
HTTPPorts  == {c.http : c \in Configs}
HTTPSPorts == {c.https : c \in Configs}

Protos  == {"http", "https"}
Ports   == HTTPPorts \cup HTTPSPorts
Record  == [http : HTTPPorts \cup {NoPort}, https : HTTPSPorts \cup {NoPort}]
Telling == HTTPPorts \cup {NoPort, Unset}
None    == [kind |-> "none"]
ConfigHook == [kind |-> "config"]
JoinedHook(id) == [kind |-> "joined", id |-> id]
HookSet == {None, ConfigHook} \cup {JoinedHook(id) : id \in Ids}

NothingOpen == [http |-> NoPort, https |-> NoPort]
NoConfig == [http |-> NoPort, https |-> NoPort, cert |-> FALSE]

TypeOK ==
  /\ cfg \in Configs
  /\ hcfg \in Configs \cup {NoConfig}
  /\ pc # "idle" => hcfg \in Configs
  /\ dirty \in BOOLEAN /\ failed \in BOOLEAN /\ swallowed \in BOOLEAN
  /\ ids \in SUBSET Ids /\ toJoin \in SUBSET ids /\ todo \in SUBSET Ids
  /\ must \in HookSet /\ hook \in HookSet
  /\ open \in SUBSET Ports
  /\ adv \in [Ids -> Telling]
  /\ changes \in 0 .. MaxChanges /\ faults \in 0 .. MaxFaults
  /\ crashes \in 0 .. MaxCrashes
  /\ pc \in {"idle", "read", "close", "open", "cert", "advertise", "set",
             "joined", "saveValues", "savePorts"}
  /\ which \in Protos
  /\ rec \in Record /\ vals \in Telling
  /\ disk \in [rec : Record, vals : Telling]

Init ==
  /\ cfg \in Configs /\ hcfg = NoConfig
  /\ dirty = FALSE /\ failed = FALSE
  /\ ids = {} /\ toJoin = {} /\ todo = {}
  /\ must = ConfigHook /\ hook = None
  /\ open = {} /\ adv = [id \in Ids |-> Unset]
  /\ changes = 0 /\ faults = 0 /\ crashes = 0
  /\ pc = "idle" /\ which = "http"
  /\ rec = NothingOpen /\ vals = Unset
  /\ disk = [rec |-> NothingOpen, vals |-> Unset]
  /\ swallowed = FALSE

-----------------------------------------------------------------------------
(* The operator and the other charms, through Juju.                          *)

ChangeConfig ==
  /\ changes < MaxChanges
  /\ cfg' \in Configs \ {cfg}
  /\ changes' = changes + 1 /\ dirty' = TRUE
  /\ UNCHANGED <<ids, toJoin, must, world, faults, crashes, swallowed, pc, process,
                 disk>>

AddRelation(id) ==
  /\ id \notin ids
  /\ ids' = ids \cup {id} /\ toJoin' = toJoin \cup {id}
  /\ UNCHANGED <<cfg, dirty, must, world, tally, pc, process, disk>>

(* A hook starts: the process loads its state and takes the configuration    *)
(* and the relation ids as they are now.                                     *)
StartHook(h, first) ==
  /\ pc = "idle" /\ must \in {None, h}
  /\ pc' = first /\ hook' = h /\ must' = h
  /\ hcfg' = cfg /\ todo' = ids /\ which' = "http" /\ failed' = FALSE
  /\ rec' = disk.rec /\ vals' = disk.vals
  /\ UNCHANGED <<cfg, ids, world, changes, faults, crashes, disk>>

StartConfig == /\ dirty \/ must = ConfigHook
               /\ StartHook(ConfigHook, "read")
               /\ dirty' = FALSE /\ swallowed' = FALSE /\ UNCHANGED toJoin

StartJoined(id) == /\ id \in toJoin
                   /\ StartHook(JoinedHook(id), "joined")
                   /\ UNCHANGED <<dirty, swallowed, toJoin>>

-----------------------------------------------------------------------------
(* configChanged.                                                            *)

(* A hook tool fails: the function returns the error and the rest of it is   *)
(* not done.                                                                 *)
ToolFails(tool) ==
  /\ tool \in Faulty /\ faults < MaxFaults
  /\ faults' = faults + 1

FailHook(tool) ==
  /\ ToolFails(tool)
  /\ failed' = TRUE /\ pc' = "saveValues"
  /\ UNCHANGED <<juju, world, changes, crashes, swallowed, hook, hcfg, which,
                 todo, rec, vals, disk>>

Stay == UNCHANGED <<juju, tally, hook, hcfg, failed, vals, disk>>

ValidPort(port) == port > 0 /\ port < 65535

(* Where configChanged goes after the call of configurePort it is in.        *)
AfterPortNoHTTPS == "advertise"                          \* a mutant

AfterPort == IF which = "http" /\ AllowHTTPS THEN "cert" ELSE "advertise"

(* The start of configurePort: leave the port alone, close the old one       *)
(* first, or open the new one.                                               *)
ReadPortRejects ==                                       \* a mutant
  /\ pc = "read"
  /\ failed' = (failed \/ ~ValidPort(hcfg[which]))
  /\ LET port == hcfg[which]
     IN pc' = IF ~ValidPort(port) THEN "saveValues"
              ELSE IF port = rec[which] THEN AfterPort
              ELSE IF rec[which] # NoPort THEN "close" ELSE "open"
  /\ UNCHANGED <<juju, world, tally, hook, hcfg, which, todo, rec, vals, disk>>

ReadPort ==
  /\ pc = "read"
  /\ LET port == hcfg[which]
     IN pc' = IF ~ValidPort(port) \/ port = rec[which] THEN AfterPort
              ELSE IF rec[which] # NoPort THEN "close" ELSE "open"
  /\ Stay /\ UNCHANGED <<world, which, todo, rec>>

ClosePort ==
  /\ pc = "close"
  /\ open' = open \ {rec[which]}
  /\ rec' = [rec EXCEPT ![which] = NoPort]
  /\ pc' = "open"
  /\ Stay /\ UNCHANGED <<adv, which, todo>>

OpenPort ==
  /\ pc = "open"
  /\ open' = open \cup {hcfg[which]}
  /\ rec' = [rec EXCEPT ![which] = hcfg[which]]
  /\ pc' = AfterPort
  /\ Stay /\ UNCHANGED <<adv, which, todo>>

PortToolFails ==
  \/ pc = "read" /\ FailHook("config")
  \/ pc = "close" /\ FailHook("close")
  \/ pc = "open" /\ FailHook("open")

(* TLSCertPEM returns an error only if config-get fails, and then the HTTPS  *)
(* port is left as it is; to have no certificate is no error, so that        *)
(* whether there is one makes no difference here.                            *)
CheckCert ==
  /\ pc = "cert"
  /\ pc' = "read" /\ which' = "https"
  /\ Stay /\ UNCHANGED <<world, todo, rec>>

CertIgnored ==
  /\ pc = "cert"
  /\ ToolFails("cert")
  /\ pc' = "advertise"
  /\ swallowed' = TRUE
  /\ UNCHANGED <<juju, world, changes, crashes, process, disk>>

(* Without a port there is no address to ask for.                            *)
Advertise ==
  /\ pc = "advertise"
  /\ pc' = "set"
  /\ Stay /\ UNCHANGED <<world, which, todo, rec>>

AddressFails ==
  /\ pc = "advertise" /\ rec.http # NoPort
  /\ FailHook("address")

(* SetValues: one relation at a time, and then the values to give to the     *)
(* relations that join later.                                                *)
SetRelation ==
  /\ pc = "set"
  /\ \E id \in todo :
       /\ adv' = [adv EXCEPT ![id] = rec.http]
       /\ todo' = todo \ {id}
  /\ Stay /\ UNCHANGED <<pc, open, which, rec>>

SetFails ==
  /\ pc = "set" /\ todo # {}
  /\ FailHook("set")

SetValuesDoneForgets ==                                  \* a mutant
  /\ pc = "set" /\ todo = {}
  /\ pc' = "saveValues"
  /\ UNCHANGED <<juju, world, tally, process, disk>>

SetValuesDone ==
  /\ pc = "set" /\ todo = {}
  /\ vals' = rec.http
  /\ pc' = "saveValues"
  /\ UNCHANGED <<juju, world, tally, hook, hcfg, which, todo, rec, failed, disk>>

-----------------------------------------------------------------------------
(* relationJoined: SetRelation with no values at all does nothing.           *)
Joined ==
  /\ pc = "joined"
  /\ adv' = IF vals = Unset THEN adv ELSE [adv EXCEPT ![hook.id] = vals]
  /\ pc' = "saveValues"
  /\ Stay /\ UNCHANGED <<open, which, todo, rec>>

JoinFails ==
  /\ pc = "joined" /\ vals # Unset
  /\ FailHook("set")

-----------------------------------------------------------------------------
(* The end of the hook: Main saves, even after an error.                     *)

ProcessEnds ==
  /\ hook' = None /\ hcfg' = NoConfig /\ which' = "http" /\ todo' = {}
  /\ rec' = NothingOpen /\ vals' = Unset /\ failed' = FALSE

SaveValues ==
  /\ pc = "saveValues"
  /\ disk' = [disk EXCEPT !.vals = vals]
  /\ pc' = "savePorts"
  /\ UNCHANGED <<juju, world, tally, process>>

SavePortsIfOK ==                                         \* a mutant
  /\ pc = "savePorts"
  /\ disk' = IF failed THEN disk ELSE [disk EXCEPT !.rec = rec]
  /\ pc' = "idle"
  /\ must' = IF failed THEN hook ELSE None
  /\ toJoin' = IF hook.kind = "joined" /\ ~failed THEN toJoin \ {hook.id}
               ELSE toJoin
  /\ ProcessEnds
  /\ UNCHANGED <<cfg, dirty, ids, world, tally>>

SavePorts ==
  /\ pc = "savePorts"
  /\ disk' = [disk EXCEPT !.rec = rec]
  /\ pc' = "idle"
  /\ must' = IF failed THEN hook ELSE None
  /\ toJoin' = IF hook.kind = "joined" /\ ~failed THEN toJoin \ {hook.id}
               ELSE toJoin
  /\ ProcessEnds
  /\ UNCHANGED <<cfg, dirty, ids, world, tally>>

(* The process dies; Juju runs the hook again (must is the hook already).    *)
Crash ==
  /\ pc # "idle" /\ crashes < MaxCrashes
  /\ crashes' = crashes + 1
  /\ pc' = "idle" /\ ProcessEnds
  /\ UNCHANGED <<juju, world, changes, faults, swallowed, disk>>

HookStep ==
  \/ ReadPort \/ ClosePort \/ OpenPort \/ PortToolFails
  \/ CheckCert \/ CertIgnored
  \/ Advertise \/ AddressFails \/ SetRelation \/ SetFails \/ SetValuesDone
  \/ Joined \/ JoinFails
  \/ SaveValues \/ SavePorts

Next ==
  \/ ChangeConfig \/ (\E id \in Ids : AddRelation(id))
  \/ StartConfig \/ (\E id \in Ids : StartJoined(id))
  \/ HookStep \/ Crash

(* Juju runs the hooks that are due, and a hook that runs keeps running.     *)
Fairness ==
  /\ WF_vars(HookStep)
  /\ SF_vars(StartConfig)
  /\ \A id \in Ids : SF_vars(StartJoined(id))

Spec == Init /\ [][Next]_vars /\ Fairness
-----------------------------------------------------------------------------
Idle == pc = "idle"

Opened(record) == {record.http, record.https} \ {NoPort}

(* The ports recorded as opened.                                             *)
Recorded == IF Idle THEN disk.rec ELSE rec

(* As long as nothing has crashed the ports recorded as opened are those     *)
(* that are open, in the middle of a hook as well, whichever tools failed.   *)
RecordedPortsOpen == crashes = 0 => open = Opened(Recorded)

(* When nothing is left to do the HTTP port on record is the configured one, *)
(* with a certificate the HTTPS port is too (an invalid port changes nothing,*)
(* and the HTTPS port stays behind if the last hook swallowed an error), and *)
(* every relation has been told the HTTP port.  An error in configChanged    *)
(* ends it early, so this needs the failed hook to be run again and every    *)
(* part of it to be repeatable.  Nothing is said of the HTTPS port without a *)
(* certificate: provider.go:83 has it 0 then, and the code records it all    *)
(* the same.                                                                 *)
Settled == Idle /\ ~dirty /\ must = None /\ toJoin = {}

PortFollows(port, record) == ValidPort(port) => record = port

AllTold == \A id \in ids : adv[id] = disk.rec.http

SettledIsRight ==
  Settled =>
    /\ PortFollows(cfg.http, disk.rec.http)
    /\ AllowHTTPS /\ cfg.cert /\ ~swallowed =>
         PortFollows(cfg.https, disk.rec.https)
    /\ AllTold

(* Whenever no hook runs or has to be run again, every relation whose joined *)
(* hook is done has been told the HTTP port that is on record.               *)
ToldIsRecorded ==
  Idle /\ must = None =>
    \A id \in ids \ toJoin : adv[id] = disk.rec.http

(* Configuration changes, failures and crashes being bounded, the hooks come *)
(* to an end, the configured HTTP port is open, if it is valid and no hook   *)
(* crashed, and everyone has been told the port on record.  (A crash may     *)
(* lose the record of a port that was closed or opened: when the             *)
(* configuration then moves back to the port that was closed, it stays so.)  *)
EventuallySettled ==
  <>[](/\ Settled
       /\ crashes = 0 /\ ValidPort(cfg.http) => cfg.http \in open
       /\ AllTold)

(* "It takes care of opening and closing the configured port"                *)
(* (httprelation/provider.go:33): once the hooks are done every port         *)
(* recorded is open.                                                         *)
SettledPortsOpen == Settled => Opened(disk.rec) \subseteq open
=============================================================================
