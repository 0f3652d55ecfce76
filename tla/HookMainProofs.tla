--------------------------- MODULE HookMainProofs ---------------------------
(* Proofs about HookMain, for any number of registries, context setters and  *)
(* hook functions and any bound on faults.                                   *)
EXTENDS HookMain, SequenceTheorems, TLAPS

(* The functions a hook calls are functions that were registered.            *)
LEMMA CallListTyped ==
  ASSUME NEW h \in Hooks
  PROVE  CallList(h) \in Seq(Funcs)
BY ConstAssumption DEF CallList

(* The state is well typed: what a process holds is never a truncated file,  *)
(* and the loops over the registries stay within them.                       *)
THEOREM TypeCorrect == Spec => []TypeOK
<1> USE ConstAssumption DEF Regs, File
<1>1. Init => TypeOK
  <2> SUFFICES ASSUME Init PROVE TypeOK
    OBVIOUS
  <2>1. ran \in Seq([func : Funcs, ok : BOOLEAN])
    BY DEF Init
  <2>2. err \in BOOLEAN
    BY DEF Init
  <2>3. 1 <= NumRegs + 1 /\ 1 \in Nat \ {0}
    OBVIOUS
  <2> QED BY <2>1, <2>2, <2>3 DEF Init, TypeOK, Phases, Outcomes
<1>2. TypeOK /\ [Next]_vars => TypeOK'
  <2> SUFFICES ASSUME TypeOK, [Next]_vars PROVE TypeOK'
    OBVIOUS
  <2> USE DEF TypeOK, Phases, Outcomes, hist
  <2>1. ASSUME NEW h \in Hooks, StartHook(h) PROVE TypeOK'
    <3>1. ran' \in Seq([func : Funcs, ok : BOOLEAN])
      BY <2>1 DEF StartHook
    <3>2. err' \in BOOLEAN
      BY <2>1 DEF StartHook
    <3> QED BY <2>1, <3>1, <3>2 DEF StartHook
  <2>2. CASE LoadOne
    BY <2>2 DEF LoadOne, Readable
  <2>3. CASE LoadUnreadable
    BY <2>3 DEF LoadUnreadable, Exit
  <2>4. CASE LoadDone
    BY <2>4 DEF LoadDone, Goto
  <2>5. CASE LoadIOError
    BY <2>5 DEF LoadIOError, Exit, Fault
  <2>6. CASE SetContext
    BY <2>6 DEF SetContext, Exit
  <2>7. CASE Lookup
    BY <2>7 DEF Lookup, AfterLookup, Goto
  <2>8. ASSUME NEW failed \in BOOLEAN, RunFunc(failed) PROVE TypeOK'
    <3>1. PICK new \in [Regs -> Values] : Assign(new)
      BY <2>8 DEF RunFunc
    <3>2. mem' \in [Regs -> Values] /\ did' \in [Regs -> Values]
          /\ touched' \in SUBSET Regs
      BY <3>1 DEF Assign
    <3>3. CallList(hook)[k] \in Funcs
      BY <2>8, CallListTyped, ElementOfSeq DEF RunFunc
    <3>4. ran' \in Seq([func : Funcs, ok : BOOLEAN])
      <4>1. [func |-> CallList(hook)[k], ok |-> ~failed]
              \in [func : Funcs, ok : BOOLEAN]
        BY <3>3
      <4> QED BY <2>8, <4>1, AppendProperties DEF RunFunc
    <3>5. pc' \in {"funcs", "save"} /\ k' \in Nat \ {0}
          /\ (pc' = "save" => k' = 1)
      BY <2>8 DEF RunFunc, AfterFunc
    <3>6. err' \in BOOLEAN
      BY <2>8 DEF RunFunc
    <3>7. UNCHANGED <<hook, outcome, disk, faults, pre>>
      BY <2>8 DEF RunFunc
    <3> QED BY <3>2, <3>4, <3>5, <3>6, <3>7
  <2>9. CASE FuncsDone
    BY <2>9 DEF FuncsDone, Goto
  <2>10. CASE SaveOpen
    BY <2>10 DEF SaveOpen
  <2>11. CASE SaveWrite
    BY <2>11 DEF SaveWrite
  <2>12. CASE SaveError
    BY <2>12 DEF SaveError, Exit, Fault
  <2>13. CASE Crash
    BY <2>13 DEF Crash, Exit, Fault
  <2>14. CASE SaveDone
    BY <2>14 DEF SaveDone, Exit
  <2>15. CASE UNCHANGED vars
    BY <2>15 DEF vars, proc
  <2> QED BY <2>1, <2>2, <2>3, <2>4, <2>5, <2>6, <2>7, <2>8, <2>9, <2>10,
             <2>11, <2>12, <2>13, <2>14, <2>15 DEF Next, Process
<1> QED BY <1>1, <1>2, PTL DEF Spec

-----------------------------------------------------------------------------
(* While nothing has failed, the files and the values in the process follow  *)
(* what the functions did: the files between hooks and until the functions   *)
(* run, the values from then on, and file by file again during the save.     *)
DurableInv ==
  faults = 0 =>
    /\ pc \in {"idle", "load", "contexts"} =>
         \A n \in Regs : Loaded(disk[n]) = did[n]
    /\ pc = "load" =>
         \A n \in Regs : mem[n] = IF n < k THEN did[n] ELSE Zero
    /\ pc \in {"contexts", "funcs", "save", "write"} => mem = did
    /\ pc \in {"save", "write"} => \A n \in Regs : n < k => disk[n] = did[n]

(* Every step without a fault keeps the state in memory, or the files saved  *)
(* so far, equal to what the functions last did.                             *)
LEMMA DurableNext ==
  ASSUME TypeOK, DurableInv, [Next]_vars
  PROVE  DurableInv'
<1> SUFFICES ASSUME faults' = 0 PROVE DurableInv'
  BY DEF DurableInv
<1> USE ConstAssumption DEF DurableInv, TypeOK, Regs, File, Loaded
<1>1. ASSUME NEW h \in Hooks, StartHook(h) PROVE DurableInv'
  BY <1>1 DEF StartHook
<1>2. CASE LoadOne
  BY <1>2 DEF LoadOne, Readable, hist
<1>3. CASE LoadUnreadable
  BY <1>3 DEF LoadUnreadable, Readable, Exit, hist
<1>4. CASE LoadDone
  <2>1. mem = did
    BY <1>4 DEF LoadDone
  <2> QED BY <1>4, <2>1 DEF LoadDone, Goto, hist
<1>5. CASE SetContext
  BY <1>5 DEF SetContext, Exit, hist
<1>6. CASE Lookup
  BY <1>6 DEF Lookup, AfterLookup, Goto, hist
<1>7. ASSUME NEW failed \in BOOLEAN, RunFunc(failed) PROVE DurableInv'
  <2>1. mem = did /\ pc' \in {"funcs", "save"} /\ (pc' = "save" => k' = 1)
    BY <1>7 DEF RunFunc, AfterFunc
  <2>2. mem' = did'
    BY <1>7, <2>1 DEF RunFunc, Assign
  <2> QED BY <2>1, <2>2
<1>8. CASE FuncsDone
  BY <1>8 DEF FuncsDone, Goto, hist
<1>9. CASE SaveOpen
  BY <1>9 DEF SaveOpen, hist
<1>10. CASE SaveWrite
  BY <1>10 DEF SaveWrite, hist
<1>11. CASE LoadIOError \/ SaveError \/ Crash
  BY <1>11 DEF LoadIOError, SaveError, Crash, Fault
<1>12. CASE SaveDone
  BY <1>12 DEF SaveDone, Exit, hist
<1>13. CASE UNCHANGED vars
  BY <1>13 DEF vars, proc, hist
<1> QED BY <1>1, <1>2, <1>3, <1>4, <1>5, <1>6, <1>7, <1>8, <1>9, <1>10, <1>11,
           <1>12, <1>13 DEF Next, Process

(* Nothing a hook function did to the state is lost between hooks as long as *)
(* nothing crashed and no file operation failed, whatever functions failed.  *)
THEOREM Durable == Spec => []DurableUnlessFault
<1>1. Init => DurableInv
  BY ConstAssumption DEF Init, DurableInv, Loaded
<1>2. TypeOK /\ DurableInv /\ [Next]_vars => DurableInv'
  BY DurableNext
<1>3. DurableInv => DurableUnlessFault
  BY DEF DurableInv, DurableUnlessFault, Idle
<1> QED BY <1>1, <1>2, <1>3, TypeCorrect, PTL DEF Spec

-----------------------------------------------------------------------------
(* Where the files stand at each point of a run: as the run found them until *)
(* the save begins, and then new up to the one that is being saved.          *)
PrefixInv ==
  /\ SavedIsPrefix
  /\ pc \in {"load", "contexts", "funcs"} => disk = pre
  /\ pc \in {"save", "write"} =>
       \A n \in Regs : /\ n < k => disk[n] = mem[n]
                       /\ n > k => disk[n] = pre[n]
  /\ pc = "save" => \A n \in Regs : n = k => disk[n] = pre[n]
  /\ pc = "write" => disk[k] = Torn

(* A run that ends after the first j files were saved, and that may have     *)
(* opened the next one, leaves a prefix saved.                               *)
LEMMA PrefixAtExit ==
  ASSUME NEW j \in 0 .. NumRegs,
         \A n \in Regs : /\ n <= j => disk'[n] = mem'[n]
                         /\ n = j + 1 => disk'[n] \in {pre'[n], Torn}
                         /\ n > j + 1 => disk'[n] = pre'[n]
  PROVE  SavedIsPrefix'
BY DEF SavedIsPrefix

(* In particular one that saved nothing does.                                *)
LEMMA PrefixUntouched ==
  ASSUME disk' = pre'
  PROVE  SavedIsPrefix'
<1> USE ConstAssumption
<1>1. 0 \in 0 .. NumRegs
  OBVIOUS
<1>2. \A n \in Regs : ~(n <= 0)
  BY DEF Regs
<1> QED BY <1>1, <1>2, PrefixAtExit

(* So does one that saved every file.                                        *)
LEMMA PrefixComplete ==
  ASSUME \A n \in Regs : disk'[n] = mem'[n]
  PROVE  SavedIsPrefix'
<1> USE ConstAssumption
<1>1. NumRegs \in 0 .. NumRegs
  OBVIOUS
<1>2. \A n \in Regs : ~(n = NumRegs + 1) /\ ~(n > NumRegs + 1)
  BY DEF Regs
<1> QED BY <1>1, <1>2, PrefixAtExit

(* Every step keeps the files before the loop index new and the files after  *)
(* it as the run found them.                                                 *)
LEMMA PrefixNext ==
  ASSUME TypeOK, PrefixInv, [Next]_vars
  PROVE  PrefixInv'
<1> USE ConstAssumption DEF PrefixInv, TypeOK, Regs, Idle
<1>1. ASSUME NEW h \in Hooks, StartHook(h) PROVE PrefixInv'
  BY <1>1 DEF StartHook, SavedIsPrefix
<1>2. CASE LoadOne \/ LoadDone \/ Lookup \/ FuncsDone
  BY <1>2 DEF LoadOne, LoadDone, Lookup, AfterLookup, FuncsDone, Goto, hist,
              SavedIsPrefix
<1>3. ASSUME NEW failed \in BOOLEAN, RunFunc(failed) PROVE PrefixInv'
  <2>1. pc' \in {"funcs", "save"} /\ (pc' = "save" => k' = 1)
        /\ disk' = pre'
    BY <1>3 DEF RunFunc, AfterFunc
  <2> QED BY <2>1 DEF SavedIsPrefix
<1>4. CASE LoadUnreadable \/ LoadIOError \/ SetContext
  <2>1. disk' = pre' /\ pc' \in {"idle", "contexts"}
    BY <1>4 DEF LoadUnreadable, LoadIOError, SetContext, Exit, hist
  <2>2. SavedIsPrefix'
    BY <2>1, PrefixUntouched
  <2> QED BY <2>1, <2>2
<1>5. CASE SaveOpen
  BY <1>5 DEF SaveOpen, hist, SavedIsPrefix
<1>6. CASE SaveWrite
  BY <1>6 DEF SaveWrite, SavedIsPrefix, hist
<1>7. CASE SaveError \/ Crash
  <2>1. UNCHANGED <<disk, mem, pre>> /\ pc' = "idle"
    BY <1>7 DEF SaveError, Crash, Exit, hist
  <2>2. CASE pc \in {"save", "write"} /\ k <= NumRegs
    <3>1. k - 1 \in 0 .. NumRegs
      BY <2>2
    <3>2. \A n \in Regs : /\ n <= k - 1 => disk'[n] = mem'[n]
                          /\ n = (k - 1) + 1 => disk'[n] \in {pre'[n], Torn}
                          /\ n > (k - 1) + 1 => disk'[n] = pre'[n]
      BY <2>1, <2>2
    <3> QED BY <2>1, <3>1, <3>2, PrefixAtExit
  <2>3. CASE pc = "save" /\ k = NumRegs + 1
    <3>1. \A n \in Regs : disk'[n] = mem'[n]
      BY <2>1, <2>3
    <3> QED BY <2>1, <3>1, PrefixComplete
  <2>4. CASE disk = pre
    BY <2>1, <2>4, PrefixUntouched
  <2> QED BY <1>7, <2>2, <2>3, <2>4 DEF SaveError, Crash, Phases
<1>8. CASE SaveDone
  <2>1. UNCHANGED <<disk, mem>> /\ pc' = "idle"
    BY <1>8 DEF SaveDone, Exit, hist
  <2>2. \A n \in Regs : disk'[n] = mem'[n]
    BY <1>8, <2>1 DEF SaveDone
  <2>3. SavedIsPrefix'
    BY <2>2, PrefixComplete
  <2> QED BY <2>1, <2>3
<1>9. CASE UNCHANGED vars
  BY <1>9 DEF vars, proc, hist, SavedIsPrefix
<1> QED BY <1>1, <1>2, <1>3, <1>4, <1>5, <1>6, <1>7, <1>8, <1>9
        DEF Next, Process

LEMMA PrefixInvariant == Spec => []PrefixInv
<1> USE ConstAssumption
<1>1. Init => PrefixInv
  <2> SUFFICES ASSUME Init PROVE PrefixInv
    OBVIOUS
  <2>1. disk = pre /\ pc = "idle"
    BY DEF Init
  <2>2. 0 \in 0 .. NumRegs /\ \A n \in Regs : ~(n <= 0)
    BY DEF Regs
  <2>3. SavedIsPrefix
    BY <2>1, <2>2 DEF SavedIsPrefix
  <2> QED BY <2>1, <2>3 DEF PrefixInv
<1>2. TypeOK /\ PrefixInv /\ [Next]_vars => PrefixInv'
  BY PrefixNext
<1> QED BY <1>1, <1>2, TypeCorrect, PTL DEF Spec

(* However a run ends, the files it has saved are a prefix of them all in    *)
(* registration order, at most one file is torn by it, and no file after     *)
(* that one is touched.                                                      *)
THEOREM SavedPrefix == Spec => []SavedIsPrefix
<1>1. PrefixInv => SavedIsPrefix
  BY DEF PrefixInv
<1> QED BY <1>1, PrefixInvariant, PTL

-----------------------------------------------------------------------------
(* The load reads the files in order and stops at the first unreadable one:  *)
(* past it, every file was readable when the run found it.                   *)
KeptInv ==
  /\ UnreadableIsKept
  /\ pc = "load" => /\ disk = pre /\ ran = << >>
                    /\ \A n \in Regs : n < k => pre[n] # Torn
  /\ pc \notin {"idle", "load"} => \A n \in Regs : pre[n] # Torn

(* A run that has got past a file has found it readable, so that one that    *)
(* met a torn file is still loading.                                         *)
LEMMA KeptNext ==
  ASSUME TypeOK, KeptInv, [Next]_vars
  PROVE  KeptInv'
<1> USE ConstAssumption DEF KeptInv, TypeOK, Regs, UnreadableIsKept
<1>1. ASSUME NEW h \in Hooks, StartHook(h) PROVE KeptInv'
  BY <1>1 DEF StartHook
<1>2. CASE LoadOne
  <2>1. disk[k] # Torn /\ pc = "load" /\ pc' = "load" /\ k' = k + 1
        /\ UNCHANGED <<disk, pre, ran>>
    BY <1>2 DEF LoadOne, Readable, hist
  <2>2. \A n \in Regs : n < k' => pre'[n] # Torn
    BY <2>1
  <2> QED BY <2>1, <2>2
<1>3. CASE LoadDone
  BY <1>3 DEF LoadDone, Goto, hist
<1>4. CASE LoadUnreadable \/ LoadIOError
  BY <1>4 DEF LoadUnreadable, LoadIOError, Exit, hist
<1>5. CASE SetContext \/ Lookup \/ FuncsDone
  <2>1. pc \notin {"idle", "load"} /\ pc' # "load" /\ pre' = pre
    BY <1>5 DEF SetContext, Lookup, AfterLookup, FuncsDone, Goto, Exit, hist
  <2> QED BY <2>1
<1>6. ASSUME NEW failed \in BOOLEAN, RunFunc(failed) PROVE KeptInv'
  <2>1. pc \notin {"idle", "load"} /\ pc' # "load" /\ pre' = pre
    BY <1>6 DEF RunFunc, AfterFunc
  <2> QED BY <2>1
<1>7. CASE SaveOpen \/ SaveWrite \/ SaveDone
  <2>1. pc \notin {"idle", "load"} /\ pc' # "load" /\ pre' = pre
    BY <1>7 DEF SaveOpen, SaveWrite, SaveDone, Exit, hist
  <2> QED BY <2>1
<1>8. CASE SaveError \/ Crash
  BY <1>8 DEF SaveError, Crash, Exit, hist
<1>9. CASE UNCHANGED vars
  BY <1>9 DEF vars, proc, hist
<1> QED BY <1>1, <1>2, <1>3, <1>4, <1>5, <1>6, <1>7, <1>8, <1>9
        DEF Next, Process

(* A file that cannot be unmarshalled makes the whole run a no-op: no        *)
(* function runs on a state that was half loaded and no file is overwritten. *)
THEOREM UnreadableKept == Spec => []UnreadableIsKept
<1>1. Init => KeptInv
  BY ConstAssumption DEF Init, KeptInv, UnreadableIsKept
<1>2. TypeOK /\ KeptInv /\ [Next]_vars => KeptInv'
  BY KeptNext
<1>3. KeptInv => UnreadableIsKept
  BY DEF KeptInv
<1> QED BY <1>1, <1>2, <1>3, TypeCorrect, PTL DEF Spec
-----------------------------------------------------------------------------
(* What a process has loaded so far is what is on disk, all of it readable.  *)
LoadInv ==
  pc = "load" =>
    \A n \in Regs : IF n < k THEN disk[n] # Torn /\ mem[n] = Loaded(disk[n])
                              ELSE mem[n] = Zero

(* Only the load itself, one file at a time, happens during the load.        *)
LEMMA LoadNext ==
  ASSUME TypeOK, LoadInv, [Next]_vars
  PROVE  LoadInv'
<1> USE ConstAssumption DEF LoadInv, TypeOK, Regs, File, Loaded
<1>1. ASSUME NEW h \in Hooks, StartHook(h) PROVE LoadInv'
  BY <1>1 DEF StartHook
<1>2. CASE LoadOne
  BY <1>2 DEF LoadOne, Readable, hist
<1>3. ASSUME NEW failed \in BOOLEAN, RunFunc(failed) PROVE LoadInv'
  BY <1>3 DEF RunFunc, AfterFunc
<1>4. CASE LoadUnreadable \/ LoadIOError \/ LoadDone \/ SetContext \/ Lookup
  BY <1>4 DEF LoadUnreadable, LoadIOError, LoadDone, SetContext, Lookup,
              AfterLookup, Goto, Exit
<1>5. CASE FuncsDone \/ SaveOpen \/ SaveWrite \/ SaveError \/ SaveDone \/ Crash
  BY <1>5 DEF FuncsDone, SaveOpen, SaveWrite, SaveError, SaveDone, Crash, Goto,
              Exit
<1>6. CASE UNCHANGED vars
  BY <1>6 DEF vars, proc
<1> QED BY <1>1, <1>2, <1>3, <1>4, <1>5, <1>6 DEF Next, Process

LEMMA LoadInvariant == Spec => []LoadInv
<1>1. Init => LoadInv
  BY DEF Init, LoadInv
<1>2. TypeOK /\ LoadInv /\ [Next]_vars => LoadInv'
  BY LoadNext
<1> QED BY <1>1, <1>2, TypeCorrect, PTL DEF Spec

(* Leaving the process, from wherever it is and saying anything but "ok", is *)
(* an end of the session.                                                    *)
LEMMA ExitCloses ==
  ASSUME TypeOK, pc # "idle", NEW r \in {"failed", "unloadable", "crashed"},
         Exit(r), UNCHANGED disk
  PROVE  Store!Close
BY DEF TypeOK, Phases, Exit, Store!Close, Stage, View, Store!NoView,
       Store!Slots, Regs

(* A step that stays inside a phase and touches neither the files nor the    *)
(* values is none of the store's business.                                   *)
LEMMA QuietStutters ==
  ASSUME UNCHANGED <<disk, pc, mem, outcome>>, pc \notin {"save", "write"}
  PROVE  UNCHANGED Store!durable
BY DEF Store!durable, Stage, View

(* A hook executable is a durable store: every step of a hook process is a   *)
(* step of a session with the store, or none of it.                          *)
THEOREM ImplementsDurableStore == Spec => IsDurableStore
<1> USE ConstAssumption
<1>1. Init => Store!Init
  BY DEF Init, Store!Init, Stage, View, Store!NoView, Store!Slots, Regs
<1>2. TypeOK /\ LoadInv /\ [Next]_vars => [Store!Next]_(Store!durable)
  <2> SUFFICES ASSUME TypeOK, LoadInv, [Next]_vars
               PROVE  Store!Next \/ UNCHANGED Store!durable
    OBVIOUS
  <2> USE DEF Stage, View, Store!durable, Store!NoView, Store!Slots, Regs
  <2>1. ASSUME NEW h \in Hooks, StartHook(h) PROVE Store!Begin
    BY <2>1 DEF StartHook, Store!Begin
  <2>2. CASE LoadOne
    BY <2>2 DEF LoadOne
  <2>3. CASE LoadUnreadable \/ LoadIOError \/ SaveError \/ Crash
    <3>1. PICK r \in {"failed", "unloadable", "crashed"} : Exit(r)
      BY <2>3 DEF LoadUnreadable, LoadIOError, SaveError, Crash
    <3>2. pc # "idle" /\ UNCHANGED disk
      BY <2>3 DEF LoadUnreadable, LoadIOError, SaveError, Crash
    <3> QED BY <3>1, <3>2, ExitCloses DEF Store!Next
  <2>4. CASE LoadDone
    <3>1. pc = "load" /\ k = NumRegs + 1 /\ pc' = "contexts"
          /\ UNCHANGED <<mem, disk, outcome>>
      BY <2>4 DEF LoadDone, Goto
    <3>2. \A n \in Regs : disk[n] # Torn /\ mem[n] = Loaded(disk[n])
      BY <3>1 DEF LoadInv
    <3>3. mem = [n \in Regs |-> IF disk[n] = Absent THEN Zero ELSE disk[n]]
      BY <3>2 DEF Loaded, TypeOK
    <3> QED BY <3>1, <3>2, <3>3 DEF Store!Open, Store!Next
  <2>5. CASE SetContext
    <3>1. CASE Exit("failed")
      BY <2>5, <3>1, ExitCloses DEF SetContext, Store!Next
    <3>2. CASE UNCHANGED <<pc, hook, mem, err, outcome>>
      BY <2>5, <3>2, QuietStutters DEF SetContext
    <3> QED BY <2>5, <3>1, <3>2 DEF SetContext
  <2>6. CASE Lookup \/ FuncsDone
    <3>1. Store!Change
      BY <2>6 DEF Lookup, AfterLookup, FuncsDone, Goto, Store!Change, TypeOK
    <3> QED BY <3>1 DEF Store!Next
  <2>7. ASSUME NEW failed \in BOOLEAN, RunFunc(failed) PROVE Store!Next
    <3>1. mem' \in [Regs -> Values]
      BY <2>7 DEF RunFunc, Assign
    <3>2. pc = "funcs" /\ pc' \in {"funcs", "save"} /\ (pc' = "save" => k' = 1)
          /\ UNCHANGED <<disk, outcome>>
      BY <2>7 DEF RunFunc, AfterFunc
    <3>3. Store!Change
      BY <3>1, <3>2 DEF Store!Change
    <3> QED BY <3>3 DEF Store!Next
  <2>8. CASE SaveOpen
    <3>1. Store!Tear
      BY <2>8 DEF SaveOpen, Store!Tear, TypeOK
    <3> QED BY <3>1 DEF Store!Next
  <2>9. CASE SaveWrite
    <3>1. Store!Replace
      BY <2>9 DEF SaveWrite, Store!Replace
    <3> QED BY <3>1 DEF Store!Next
  <2>10. CASE SaveDone
    <3>1. Store!Close
      BY <2>10 DEF SaveDone, Exit, Store!Close
    <3> QED BY <3>1 DEF Store!Next
  <2>11. CASE UNCHANGED vars
    BY <2>11 DEF vars, proc
  <2> QED BY <2>1, <2>2, <2>3, <2>4, <2>5, <2>6, <2>7, <2>8, <2>9, <2>10, <2>11
          DEF Next, Process, Store!Next
<1> QED
  BY <1>1, <1>2, LoadInvariant, TypeCorrect, PTL
  DEF Spec, IsDurableStore, Store!Spec
-----------------------------------------------------------------------------
(* Where the functions of a hook are among those it calls.                   *)
LEMMA CallListIndex ==
  ASSUME NEW h \in Hooks
  PROVE  /\ Len(Registered[h]) \in Nat /\ Len(WildFuncs) \in Nat
         /\ Len(CallList(h)) = Len(Registered[h]) + Len(WildFuncs)
         /\ \A m \in 1 .. Len(Registered[h]) : CallList(h)[m] = Registered[h][m]
         /\ \A m \in 1 .. Len(WildFuncs) :
              CallList(h)[Len(Registered[h]) + m] = WildFuncs[m]
<1>1. Registered[h] \in Seq(Funcs) /\ WildFuncs \in Seq(Funcs)
  BY ConstAssumption
<1> QED BY <1>1 DEF CallList

AllSucceeded == \A n \in 1 .. Len(ran) : ran[n].ok

(* What a run has called is the beginning of what the hook has to call; only *)
(* the last of them can have failed, and when the run goes on to save        *)
(* without an error there is nothing left to call.                           *)
RunInv ==
  /\ Len(ran) <= Len(CallList(hook))
  /\ \A n \in 1 .. Len(ran) : ran[n].func = CallList(hook)[n]
  /\ \A n \in 1 .. Len(ran) : n < Len(ran) => ran[n].ok
  /\ pc \in {"load", "contexts"} => ran = << >>
  /\ pc = "funcs" => Len(ran) = k - 1 /\ ~err /\ AllSucceeded
  /\ pc \in {"save", "write"} /\ ~err =>
       AllSucceeded /\ Len(ran) = Len(CallList(hook))
  /\ outcome = "ok" =>
       pc = "idle" /\ AllSucceeded /\ Len(ran) = Len(CallList(hook))

(* Calling a function adds the next one of the hook to what was called, and  *)
(* no other step calls any.                                                  *)
LEMMA RunNext ==
  ASSUME TypeOK, RunInv, [Next]_vars
  PROVE  RunInv'
<1> USE ConstAssumption DEF RunInv, TypeOK, AllSucceeded
<1>0. \A h \in Hooks : Len(CallList(h)) \in Nat
  BY CallListTyped, LenProperties
<1>1. ASSUME NEW h \in Hooks, StartHook(h) PROVE RunInv'
  BY <1>0, <1>1 DEF StartHook
<1>2. CASE LoadOne \/ LoadUnreadable \/ LoadIOError \/ LoadDone \/ SetContext
  BY <1>2 DEF LoadOne, LoadUnreadable, LoadIOError, LoadDone, SetContext, Goto,
              Exit, hist
<1>3. CASE Lookup
  <2>1. /\ pc' \in {"funcs", "save"} /\ k' = 1 /\ ran = << >> /\ outcome # "ok"
        /\ err' = (pc' = "save")
        /\ UNCHANGED <<hook, ran, outcome>>
    BY <1>3 DEF Lookup, AfterLookup, Goto, hist
  <2>2. Len(ran') = 0 /\ ran' = << >> /\ Len(CallList(hook)) \in Nat
    BY <1>0, <2>1
  <2>3. AllSucceeded'
    BY <2>2
  <2>4. /\ pc' \in {"funcs", "save"} /\ outcome' # "ok"
        /\ pc' = "save" => err'
        /\ pc' = "funcs" => ~err' /\ Len(ran') = k' - 1
    <3>1. k' - 1 = 0
      BY <2>1
    <3> QED BY <2>1, <2>2, <3>1
  <2>5. \A n \in 1 .. Len(ran') : FALSE
    BY <2>2
  <2>6. Len(ran') <= Len(CallList(hook)') /\ hook' = hook
    BY <2>1, <2>2
  <2> HIDE DEF AllSucceeded
  <2> QED BY <2>2, <2>3, <2>4, <2>5, <2>6
<1>4. ASSUME NEW failed \in BOOLEAN, RunFunc(failed) PROVE RunInv'
  <2> DEFINE call == [func |-> CallList(hook)[k], ok |-> ~failed]
  <2>1. /\ ran' = Append(ran, call) /\ Len(ran) = k - 1 /\ AllSucceeded
        /\ k <= Len(CallList(hook)) /\ outcome # "ok"
        /\ err' = failed /\ pc' = (IF failed THEN "save" ELSE "funcs")
        /\ (pc' = "funcs" => k' = k + 1)
        /\ UNCHANGED <<hook, outcome>>
    BY <1>4 DEF RunFunc, AfterFunc
  <2>2. Len(ran') = k /\ ran'[k] = call /\ \A n \in 1 .. k - 1 : ran'[n] = ran[n]
    BY <2>1
  <2>3. Len(CallList(hook)) \in Nat
    BY <1>0
  <2>4. \A n \in 1 .. k : n # k => n \in 1 .. k - 1
    OBVIOUS
  <2>5. \A n \in 1 .. Len(ran') : ran'[n].func = CallList(hook)[n]
    BY <2>1, <2>2, <2>4
  <2>6. \A n \in 1 .. Len(ran') : n # k => ran'[n].ok
    BY <2>1, <2>2, <2>4
  <2>7. ~failed => AllSucceeded'
    <3>1. ~failed => ran'[k].ok
      <4>1. call.ok = ~failed
        OBVIOUS
      <4> HIDE DEF call
      <4> QED BY <2>2, <4>1
    <3> QED BY <3>1, <2>6
  <2> HIDE DEF call, AllSucceeded
  <2> QED BY <2>1, <2>2, <2>3, <2>5, <2>6, <2>7
<1>5. CASE FuncsDone
  BY <1>5 DEF FuncsDone, Goto, hist
<1>6. CASE SaveOpen \/ SaveWrite
  BY <1>6 DEF SaveOpen, SaveWrite, hist
<1>7. CASE SaveError \/ SaveDone \/ Crash
  BY <1>7 DEF SaveError, SaveDone, Crash, Exit, hist
<1>8. CASE UNCHANGED vars
  BY <1>8 DEF vars, proc, hist
<1> QED BY <1>1, <1>2, <1>3, <1>4, <1>5, <1>6, <1>7, <1>8 DEF Next, Process

LEMMA RunInvariant == Spec => []RunInv
<1>1. Init => RunInv
  <2> SUFFICES ASSUME Init PROVE RunInv
    OBVIOUS
  <2>1. hook \in Hooks /\ ran = << >> /\ pc = "idle" /\ outcome = "none"
    BY DEF Init
  <2>2. Len(CallList(hook)) \in Nat
    BY <2>1, CallListTyped, LenProperties
  <2> QED BY <2>1, <2>2 DEF RunInv
<1>2. TypeOK /\ RunInv /\ [Next]_vars => RunInv'
  BY RunNext
<1> QED BY <1>1, <1>2, TypeCorrect, PTL DEF Spec

(* The calls of a run are, one by one and in registration order, the first   *)
(* of the hook's own functions and then of the wildcard ones, until one      *)
(* fails.                                                                    *)
THEOREM InOrder == Spec => []RunOrder
<1>1. TypeOK /\ RunInv => RunOrder
  <2> SUFFICES ASSUME TypeOK, RunInv, NEW n \in 1 .. Len(ran)
               PROVE  /\ \A m \in 1 .. n - 1 : ran[m].ok
                      /\ \/ /\ n <= Len(Registered[hook])
                            /\ ran[n].func = Registered[hook][n]
                         \/ \E w \in 1 .. Len(WildFuncs) :
                              /\ n = Len(Registered[hook]) + w
                              /\ ran[n].func = WildFuncs[w]
    BY DEF RunOrder
  <2>1. Len(ran) \in Nat /\ hook \in Hooks
    BY LenProperties DEF TypeOK
  <2>2. \A m \in 1 .. n - 1 : m \in 1 .. Len(ran) /\ m < Len(ran)
    BY <2>1
  <2>3. /\ ran[n].func = CallList(hook)[n]
        /\ n <= Len(CallList(hook)) /\ n \in Nat \ {0}
    <3>1. Len(ran) <= Len(CallList(hook)) /\ Len(CallList(hook)) \in Nat
      BY <2>1, CallListTyped, LenProperties DEF RunInv
    <3> QED BY <2>1, <3>1 DEF RunInv
  <2>4. CASE n <= Len(Registered[hook])
    BY <2>1, <2>2, <2>3, <2>4, CallListIndex DEF RunInv
  <2>5. CASE n > Len(Registered[hook])
    <3> DEFINE w == n - Len(Registered[hook])
    <3>1. w \in 1 .. Len(WildFuncs) /\ n = Len(Registered[hook]) + w
      BY <2>1, <2>3, <2>5, CallListIndex
    <3>2. ran[n].func = WildFuncs[w]
      BY <2>1, <2>3, <3>1, CallListIndex
    <3>3. \A m \in 1 .. n - 1 : ran[m].ok
      BY <2>2 DEF RunInv
    <3> QED BY <3>1, <3>2, <3>3
  <2>6. Len(Registered[hook]) \in Nat
    BY <2>1, CallListIndex
  <2> QED BY <2>3, <2>4, <2>5, <2>6
<1> QED BY <1>1, RunInvariant, TypeCorrect, PTL

-----------------------------------------------------------------------------
(* What a registry's state is after the functions of a run: what one of them *)
(* gave to it, or what was loaded.                                           *)
Left(n) == IF n \in touched THEN did[n] ELSE Loaded(pre[n])

LeftInv ==
  /\ pc = "load" => touched = {}
  /\ pc \in {"contexts", "funcs", "save", "write"} =>
       \A n \in Regs : mem[n] = Left(n)
  /\ outcome = "ok" => pc = "idle" /\ \A n \in Regs : disk[n] = Left(n)

(* The load fills the values in, the functions change some, and a save that  *)
(* reaches the end has put them all on disk.                                 *)
LEMMA LeftNext ==
  ASSUME TypeOK, PrefixInv, LoadInv, LeftInv, [Next]_vars
  PROVE  LeftInv'
<1> USE ConstAssumption DEF LeftInv, TypeOK, Left
<1>1. ASSUME NEW h \in Hooks, StartHook(h) PROVE LeftInv'
  BY <1>1 DEF StartHook
<1>2. CASE LoadOne \/ LoadUnreadable \/ LoadIOError
  BY <1>2 DEF LoadOne, LoadUnreadable, LoadIOError, Exit, hist
<1>3. CASE LoadDone
  <2>1. pc = "load" /\ k = NumRegs + 1 /\ pc' = "contexts"
        /\ UNCHANGED <<mem, outcome, hist>>
    BY <1>3 DEF LoadDone, Goto
  <2>2. \A n \in Regs : mem[n] = Loaded(disk[n])
    BY <2>1 DEF LoadInv, Regs
  <2>3. disk = pre
    BY <2>1 DEF PrefixInv
  <2> QED BY <2>1, <2>2, <2>3 DEF hist
<1>4. CASE SetContext \/ Lookup \/ FuncsDone
  BY <1>4 DEF SetContext, Lookup, AfterLookup, FuncsDone, Goto, Exit, hist
<1>5. ASSUME NEW failed \in BOOLEAN, RunFunc(failed) PROVE LeftInv'
  <2>1. pc = "funcs" /\ pc' \in {"funcs", "save"} /\ UNCHANGED <<outcome, pre>>
    BY <1>5 DEF RunFunc, AfterFunc
  <2>2. PICK new \in [Regs -> Values] : Assign(new)
    BY <1>5 DEF RunFunc
  <2>3. \A n \in Regs : mem'[n] = Left(n)'
    BY <2>1, <2>2 DEF Assign
  <2> QED BY <2>1, <2>3
<1>6. CASE SaveOpen \/ SaveWrite
  BY <1>6 DEF SaveOpen, SaveWrite, hist
<1>7. CASE SaveDone
  <2>1. /\ pc = "save" /\ k = NumRegs + 1 /\ pc' = "idle"
        /\ UNCHANGED <<disk, mem, hist>>
    BY <1>7 DEF SaveDone, Exit
  <2>2. \A n \in Regs : disk[n] = mem[n]
    BY <2>1 DEF PrefixInv, Regs
  <2> QED BY <2>1, <2>2 DEF hist
<1>8. CASE SaveError \/ Crash
  BY <1>8 DEF SaveError, Crash, Exit
<1>9. CASE UNCHANGED vars
  BY <1>9 DEF vars, proc, hist
<1> QED BY <1>1, <1>2, <1>3, <1>4, <1>5, <1>6, <1>7, <1>8, <1>9
        DEF Next, Process

LEMMA LeftInvariant == Spec => []LeftInv
<1>1. Init => LeftInv
  BY DEF Init, LeftInv
<1>2. TypeOK /\ PrefixInv /\ LoadInv /\ LeftInv /\ [Next]_vars => LeftInv'
  BY LeftNext
<1> QED BY <1>1, <1>2, TypeCorrect, PrefixInvariant, LoadInvariant, PTL DEF Spec

(* A hook that Main reports as successful has done all there was to do and   *)
(* has it on disk, whatever crashed or failed in earlier ones.               *)
THEOREM Complete == Spec => []SuccessIsComplete
<1>1. TypeOK /\ RunInv /\ LeftInv => SuccessIsComplete
  <2> SUFFICES ASSUME TypeOK, RunInv, LeftInv, outcome = "ok"
               PROVE  /\ FuncSet(Registered[hook]) \cup FuncSet(WildFuncs)
                           \subseteq {ran[n].func : n \in 1 .. Len(ran)}
                      /\ \A n \in 1 .. Len(ran) : ran[n].ok
                      /\ \A n \in Regs : disk[n] = Left(n)
    BY DEF SuccessIsComplete, Left
  <2>1. hook \in Hooks /\ Len(ran) = Len(CallList(hook)) /\ AllSucceeded
    BY DEF TypeOK, RunInv
  <2>2. ASSUME NEW f \in FuncSet(Registered[hook])
        PROVE  f \in {ran[n].func : n \in 1 .. Len(ran)}
    <3>1. PICK m \in 1 .. Len(Registered[hook]) : f = Registered[hook][m]
      BY DEF FuncSet
    <3>2. m \in 1 .. Len(ran) /\ f = CallList(hook)[m]
      BY <2>1, <3>1, CallListIndex
    <3> QED BY <3>2 DEF RunInv
  <2>3. ASSUME NEW f \in FuncSet(WildFuncs)
        PROVE  f \in {ran[n].func : n \in 1 .. Len(ran)}
    <3>1. PICK m \in 1 .. Len(WildFuncs) : f = WildFuncs[m]
      BY DEF FuncSet
    <3>2. /\ Len(Registered[hook]) + m \in 1 .. Len(ran)
          /\ f = CallList(hook)[Len(Registered[hook]) + m]
      BY <2>1, <3>1, CallListIndex
    <3> QED BY <3>2 DEF RunInv
  <2>4. \A n \in Regs : disk[n] = Left(n)
    BY DEF LeftInv
  <2> QED BY <2>1, <2>2, <2>3, <2>4 DEF AllSucceeded
<1> QED BY <1>1, RunInvariant, LeftInvariant, TypeCorrect, PTL
=============================================================================
