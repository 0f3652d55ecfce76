------------------------------ MODULE Resource ------------------------------
(* The installation of Juju resources (charmbits/resource).                  *)
(*                                                                           *)
(* The install and upgrade-charm hooks run updateResources, which goes       *)
(* through the registered resources in the order of a map iteration, and     *)
(* calls the installer of each one whose hash is not the recorded one.  The  *)
(* recorded hashes are saved when the hook ends, failed or not (hook/main.go,*)
(* atomic here).  Juju runs the hook again after a failure and whenever a    *)
(* resource was attached, which may happen while a hook runs.                *)
EXTENDS Naturals

CONSTANTS
  Names,       \* the resources that have an installer
  Contents,    \* what a resource may hold; a hash stands for its content
  Missing,     \* no content: not attached, not recorded, not installed
  Faults,      \* the failures that may happen: "get", "installer", "crash"
  MaxFaults,   \* bound on their number
  MaxAttached  \* bound on how often a resource is attached

ASSUME ResourceAssumption ==
  Missing \notin Contents /\ MaxFaults \in Nat /\ MaxAttached \in Nat

VARIABLES
  avail,     \* what resource-get returns
  attached,  \* how often a resource was attached
  pending,   \* Juju has a hook to run
  stored,    \* state.Hashes as saved
  hashes,    \* state.Hashes in the hook process
  pc,        \* "idle", in the "loop", or in an "install"-er
  todo,      \* the resources that the loop has not reached
  cur, got,  \* the one being installed, and the content it is installed from
  failed,    \* the last hook returned an error, or was interrupted
  faults, crashes,
  \* History, read by the properties and by no action:
  handed,    \* the content last given to an installer
  installed, \* the content of the last installer that succeeded
  swallowed  \* an error of resource-get was taken for a missing resource

juju == <<avail, attached, pending>>
loop == <<hashes, pc, todo, cur, got, failed>>
hist == <<handed, installed, swallowed>>
vars == <<juju, stored, loop, faults, crashes, hist>>

TypeOK ==
  /\ \A f \in {avail, stored, hashes, handed, installed} :
       f \in [Names -> Contents \cup {Missing}]
  /\ attached \in 0 .. MaxAttached /\ pending \in BOOLEAN
  /\ pc \in {"idle", "loop", "install"}
  /\ todo \in SUBSET Names /\ cur \in Names /\ got \in Contents \cup {Missing}
  /\ pc = "install" => got \in Contents
  /\ failed \in BOOLEAN /\ swallowed \in BOOLEAN
  /\ crashes \in 0 .. MaxFaults /\ faults \in crashes .. MaxFaults

Nothing == [n \in Names |-> Missing]

(* The install hook is the first to run.                                     *)
Init ==
  /\ avail = Nothing /\ attached = 0 /\ pending = TRUE
  /\ stored = Nothing /\ hashes = Nothing
  /\ pc = "idle" /\ todo = {} /\ cur \in Names /\ got = Missing
  /\ failed = FALSE /\ faults = 0 /\ crashes = 0
  /\ handed = Nothing /\ installed = Nothing /\ swallowed = FALSE

Fault(kind) == kind \in Faults /\ faults < MaxFaults /\ faults' = faults + 1

(* A resource is attached, by an operator or with an upgrade of the charm.   *)
Attach(n, c) ==
  /\ attached < MaxAttached /\ c # avail[n]
  /\ avail' = [avail EXCEPT ![n] = c]
  /\ attached' = attached + 1 /\ pending' = TRUE
  /\ UNCHANGED <<stored, loop, faults, crashes, hist>>

BeginHook ==
  /\ pc = "idle" /\ pending
  /\ pc' = "loop" /\ pending' = FALSE
  /\ hashes' = stored /\ todo' = Names
  /\ failed' = FALSE /\ swallowed' = FALSE
  /\ UNCHANGED <<avail, attached, stored, cur, got, faults, crashes, handed, installed>>

(* The hook ends with the given error and its state is saved all the same.   *)
EndForgetsOnError(error) ==                              \* a mutant
  /\ pc' = "idle" /\ failed' = error
  /\ stored' = IF error THEN stored ELSE hashes
  /\ pending' = (pending \/ error) /\ UNCHANGED hashes

End(error) ==
  /\ pc' = "idle" /\ failed' = error
  /\ stored' = hashes
  /\ pending' = (pending \/ error) /\ UNCHANGED hashes

(* Has: a resource that cannot be got counts as one that is not there.       *)
Skip(n) ==
  /\ pc = "loop" /\ n \in todo
  /\ \/ avail[n] = Missing /\ UNCHANGED <<faults, swallowed>>
     \/ Fault("get") /\ swallowed' = TRUE
  /\ todo' = todo \ {n}
  /\ UNCHANGED <<juju, stored, hashes, pc, cur, got, failed, crashes, handed, installed>>

(* installOrUpdate: the second GetPath or makeHash fails ...                 *)
GetFails(n) ==
  /\ pc = "loop" /\ n \in todo /\ avail[n] # Missing
  /\ Fault("get")
  /\ End(TRUE)
  /\ UNCHANGED <<avail, attached, todo, cur, got, crashes, hist>>

(* ... or the hash is the recorded one, or the installer is called.          *)
Update(n) ==
  /\ pc = "loop" /\ n \in todo /\ avail[n] # Missing
  /\ todo' = todo \ {n}
  /\ IF hashes[n] = avail[n]
     THEN UNCHANGED <<pc, cur, got, handed>>
     ELSE /\ pc' = "install" /\ cur' = n /\ got' = avail[n]
          /\ handed' = [handed EXCEPT ![n] = avail[n]]
  /\ UNCHANGED <<juju, stored, hashes, failed, faults, crashes, installed, swallowed>>

InstallDone ==
  /\ pc = "install"
  /\ pc' = "loop"
  /\ hashes' = [hashes EXCEPT ![cur] = got]
  /\ installed' = [installed EXCEPT ![cur] = got]
  /\ UNCHANGED <<juju, stored, todo, cur, got, failed, faults, crashes, handed, swallowed>>

(* The first failing installer ends the loop.                                *)
InstallFailsQuietly ==                                   \* a mutant
  /\ pc = "install"
  /\ Fault("installer")
  /\ End(FALSE)
  /\ UNCHANGED <<avail, attached, todo, cur, got, crashes, hist>>

InstallFails ==
  /\ pc = "install"
  /\ Fault("installer")
  /\ End(TRUE)
  /\ UNCHANGED <<avail, attached, todo, cur, got, crashes, hist>>

LoopDone ==
  /\ pc = "loop" /\ todo = {}
  /\ End(FALSE)
  /\ UNCHANGED <<avail, attached, todo, cur, got, faults, crashes, hist>>

Crash ==
  /\ pc # "idle"
  /\ Fault("crash") /\ crashes' = crashes + 1
  /\ pc' = "idle" /\ failed' = TRUE /\ pending' = TRUE
  /\ UNCHANGED <<avail, attached, stored, hashes, todo, cur, got, hist>>

Next ==
  \/ \E n \in Names : Skip(n) \/ GetFails(n) \/ Update(n)
  \/ \E n \in Names, c \in Contents : Attach(n, c)
  \/ BeginHook \/ InstallDone \/ InstallFails \/ LoopDone \/ Crash

Spec == Init /\ [][Next]_vars

-----------------------------------------------------------------------------
(* The last hook succeeded and Juju has nothing more to run.                 *)
Settled == pc = "idle" /\ ~failed /\ ~pending

(* Once settled, if no error of resource-get was swallowed, every attached   *)
(* resource is recorded with what it holds now; and that is what is          *)
(* installed, as long as no installer failed and no hook was interrupted.    *)
UpToDate ==
  Settled /\ ~swallowed =>
    \A n \in Names : avail[n] # Missing =>
      /\ stored[n] = avail[n]
      /\ crashes = 0 /\ handed[n] = installed[n] => installed[n] = avail[n]

(* Without crashes no installer is called for what it has last installed,    *)
(* even if another resource's installer failed in between, because the       *)
(* hashes of a failed hook are saved as well.                                *)
InstalledOnce == pc = "install" /\ crashes = 0 => installed[cur] # got
=============================================================================
