--------------------------- MODULE ResourceProofs ---------------------------
(* Proofs about Resource for any resources, contents and bounds: what is     *)
(* recorded is what was installed and, once Juju has nothing more to run,    *)
(* what is attached.                                                         *)
EXTENDS Resource, TLAPS

(* One case for each action of Next.                                         *)
LEMMA ActionCases ==
  ASSUME Next
  PROVE  \/ \E n \in Names : Skip(n)
         \/ \E n \in Names : GetFails(n)
         \/ \E n \in Names : Update(n)
         \/ \E n \in Names, c \in Contents : Attach(n, c)
         \/ BeginHook \/ InstallDone \/ InstallFails \/ LoopDone \/ Crash
BY DEF Next

LEMMA TypeInit == Init => TypeOK
<1> SUFFICES ASSUME Init PROVE TypeOK
  OBVIOUS
<1>1. \A f \in {avail, stored, hashes, handed, installed} :
        f \in [Names -> Contents \cup {Missing}]
  BY DEF Init, Nothing
<1>2. attached \in 0 .. MaxAttached /\ crashes \in 0 .. MaxFaults
        /\ faults \in crashes .. MaxFaults
  BY ResourceAssumption DEF Init
<1>3. pending \in BOOLEAN /\ failed \in BOOLEAN /\ swallowed \in BOOLEAN
  BY DEF Init
<1>4. QED
  BY <1>1, <1>2, <1>3 DEF Init, TypeOK

LEMMA TypeNext == TypeOK /\ [Next]_vars => TypeOK'
<1> SUFFICES ASSUME TypeOK, [Next]_vars PROVE TypeOK'
  OBVIOUS
<1> USE ResourceAssumption DEF TypeOK, juju, loop, hist, Fault
<1>1. CASE \E n \in Names : Skip(n)
  <2>1. PICK n \in Names : Skip(n)
    BY <1>1
  <2>2. faults' \in crashes .. MaxFaults
    BY <2>1 DEF Skip
  <2>3. swallowed' \in BOOLEAN
    BY <2>1, Zenon DEF Skip
  <2>4. QED
    BY <2>1, <2>2, <2>3 DEF Skip
<1>2. CASE \E n \in Names : GetFails(n)
  BY <1>2 DEF GetFails, End
<1>3. CASE \E n \in Names : Update(n)
  BY <1>3 DEF Update
<1>4. CASE \E n \in Names, c \in Contents : Attach(n, c)
  BY <1>4 DEF Attach
<1>5. CASE BeginHook
  <2>1. pending' \in BOOLEAN /\ failed' \in BOOLEAN /\ swallowed' \in BOOLEAN
    BY <1>5, Zenon DEF BeginHook
  <2>2. /\ pc' = "loop" /\ hashes' = stored /\ todo' = Names
        /\ UNCHANGED <<avail, attached, stored, cur, got, faults, crashes,
                       handed, installed>>
    BY <1>5 DEF BeginHook
  <2>3. QED
    BY <2>1, <2>2
<1>6. CASE InstallDone
  BY <1>6 DEF InstallDone
<1>7. CASE InstallFails
  BY <1>7 DEF InstallFails, End
<1>8. CASE LoopDone
  <2>1. pending' \in BOOLEAN /\ failed' \in BOOLEAN
    BY <1>8, Zenon DEF LoopDone, End
  <2>2. /\ pc' = "idle" /\ stored' = hashes
        /\ UNCHANGED <<hashes, avail, attached, todo, cur, got, faults, crashes,
                       hist>>
    BY <1>8 DEF LoopDone, End
  <2>3. QED
    BY <2>1, <2>2 DEF hist
<1>9. CASE Crash
  BY <1>9 DEF Crash
<1>10. CASE UNCHANGED vars
  BY <1>10 DEF vars
<1>11. QED
  BY <1>1, <1>2, <1>3, <1>4, <1>5, <1>6, <1>7, <1>8, <1>9, <1>10, ActionCases

(* Every reachable state is well typed, whatever fails and whenever a        *)
(* resource is attached.                                                     *)
THEOREM TypeCorrect == Spec => []TypeOK
<1>1. QED
  BY TypeInit, TypeNext, PTL DEF Spec

-----------------------------------------------------------------------------
(* Without crashes the hashes in the hook, and between hooks those on disk,  *)
(* are those of what was installed last; and an installer at work has other  *)
(* content.                                                                  *)
RecordInv ==
  crashes = 0 =>
    /\ hashes = installed
    /\ pc = "idle" => stored = installed
    /\ pc = "install" => hashes[cur] # got

LEMMA RecordInit == Init => RecordInv
BY DEF Init, RecordInv

LEMMA RecordNext == TypeOK /\ RecordInv /\ [Next]_vars => RecordInv'
<1> SUFFICES ASSUME TypeOK, RecordInv, [Next]_vars PROVE RecordInv'
  OBVIOUS
<1> USE DEF RecordInv, juju, loop, hist
<1>1. CASE \E n \in Names : Skip(n)
  BY <1>1 DEF Skip
<1>2. CASE \E n \in Names : GetFails(n)
  BY <1>2 DEF GetFails, End
<1>3. CASE \E n \in Names : Update(n)
  BY <1>3 DEF Update
<1>4. CASE \E n \in Names, c \in Contents : Attach(n, c)
  BY <1>4 DEF Attach
<1>5. CASE BeginHook
  BY <1>5 DEF BeginHook
<1>6. CASE InstallDone
  BY <1>6 DEF InstallDone
<1>7. CASE InstallFails
  BY <1>7 DEF InstallFails, End
<1>8. CASE LoopDone
  BY <1>8 DEF LoopDone, End
<1>9. CASE Crash
  BY <1>9, ResourceAssumption DEF Crash, TypeOK
<1>10. CASE UNCHANGED vars
  BY <1>10 DEF vars
<1>11. QED
  BY <1>1, <1>2, <1>3, <1>4, <1>5, <1>6, <1>7, <1>8, <1>9, <1>10, ActionCases

(* Without crashes no installer is called twice in a row with the same       *)
(* content, in whatever order the map is iterated and whichever installers   *)
(* of other resources failed in between.                                     *)
THEOREM NotTwice == Spec => []InstalledOnce
<1>1. RecordInv => InstalledOnce
  BY DEF RecordInv, InstalledOnce
<1>2. QED
  BY <1>1, TypeCorrect, RecordInit, RecordNext, PTL DEF Spec

-----------------------------------------------------------------------------
(* As long as nothing is attached during a hook and resource-get does not    *)
(* fail, the loop leaves every resource behind it up to date, but for the    *)
(* one that is being installed from what is attached.                        *)
LoopInv ==
  /\ pc = "install" => cur \notin todo
  /\ ~pending /\ pc = "install" => got = avail[cur]
  /\ ~pending /\ ~swallowed =>
       \A n \in Names : avail[n] # Missing =>
         /\ pc = "idle" => stored[n] = avail[n]
         /\ pc = "loop" /\ n \notin todo => hashes[n] = avail[n]
         /\ pc = "install" /\ n \notin todo /\ n # cur => hashes[n] = avail[n]

LEMMA LoopInit == Init => LoopInv
BY DEF Init, LoopInv

LEMMA LoopNext == TypeOK /\ LoopInv /\ [Next]_vars => LoopInv'
<1> SUFFICES ASSUME TypeOK, LoopInv, [Next]_vars PROVE LoopInv'
  OBVIOUS
<1> USE DEF LoopInv, TypeOK, juju, loop, hist
<1>1. CASE \E n \in Names : Skip(n)
  BY <1>1 DEF Skip
<1>2. CASE \E n \in Names : GetFails(n)
  BY <1>2 DEF GetFails, End
<1>3. CASE \E n \in Names : Update(n)
  BY <1>3 DEF Update
<1>4. CASE \E n \in Names, c \in Contents : Attach(n, c)
  BY <1>4 DEF Attach
<1>5. CASE BeginHook
  BY <1>5 DEF BeginHook
<1>6. CASE InstallDone
  BY <1>6 DEF InstallDone
<1>7. CASE InstallFails
  BY <1>7 DEF InstallFails, End
<1>8. CASE LoopDone
  BY <1>8 DEF LoopDone, End
<1>9. CASE Crash
  BY <1>9 DEF Crash
<1>10. CASE UNCHANGED vars
  BY <1>10 DEF vars
<1>11. QED
  BY <1>1, <1>2, <1>3, <1>4, <1>5, <1>6, <1>7, <1>8, <1>9, <1>10, ActionCases

(* Once Juju has nothing more to run, what is attached is recorded and,      *)
(* unless a hook was interrupted or an installer failed, installed.          *)
THEOREM SettledUpToDate == Spec => []UpToDate
<1>1. RecordInv /\ LoopInv => UpToDate
  BY DEF RecordInv, LoopInv, UpToDate, Settled
<1>2. QED
  BY <1>1, TypeCorrect, RecordInit, RecordNext, LoopInit, LoopNext, PTL DEF Spec
=============================================================================
