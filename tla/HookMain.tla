------------------------------ MODULE HookMain ------------------------------
(* One charm's hook executable (hook/main.go, hook/state.go).                *)
(*                                                                           *)
(* Juju runs the hooks of a unit one at a time, each in a process of its     *)
(* own.  A process loads the state of every registry from its file, hands    *)
(* the context to the setters, runs the functions registered for the hook    *)
(* and then the wildcard ones until one returns an error, and saves every    *)
(* file in a deferred call whether the functions succeeded or not.  The      *)
(* machine may stop at any step, and reads and writes of a file may fail.    *)
(*                                                                           *)
(* Registries that registered state are numbered in registration order, the  *)
(* order in which loadState and saveState walk them.                         *)
EXTENDS Naturals, Sequences

CONSTANTS
  NumRegs,      \* how many registries registered a state value
  NumContexts,  \* how many context setters are registered
  Values,       \* what a state value may hold
  Zero,         \* the value a registry's state has before anything is loaded
  Hooks,        \* the hook names the process may be started with
  Funcs,        \* the registered functions
  Registered,   \* r.hooks: the functions of a hook name, in order
  WildFuncs,    \* r.hooks["*"]
  MaxFaults     \* bound on crashes and on failing reads and writes

Absent == "absent"   \* there is no file
Torn   == "torn"     \* the file is truncated: it does not unmarshal

ASSUME ConstAssumption ==
  /\ NumRegs \in Nat /\ NumContexts \in Nat /\ MaxFaults \in Nat
  /\ Zero \in Values
  /\ Absent \notin Values /\ Torn \notin Values
  /\ Registered \in [Hooks -> Seq(Funcs)]
  /\ WildFuncs \in Seq(Funcs)

Regs == 1 .. NumRegs
File == Values \cup {Absent, Torn}

VARIABLES
  disk,     \* the state files
  pc,       \* where the hook process is; "idle" when there is none
  k,        \* the index of the loop it is in
  hook,     \* ctxt.HookName
  mem,      \* the registered state values, in the process
  err,      \* Main's named result
  outcome,  \* how the last process ended
  faults,   \* crashes and I/O failures so far
  \* History, read by the properties and by no action:
  did,      \* the last value a function gave to a registry's state
  touched,  \* the registries whose state a function of this run assigned
  pre,      \* the files as this run found them
  ran       \* the functions this run has called, and whether each succeeded

proc == <<pc, k, hook, mem, err, outcome>>
hist == <<did, touched, pre, ran>>
vars == <<disk, proc, faults, hist>>

Phases   == {"idle", "load", "contexts", "funcs", "save", "write"}
Outcomes == {"none", "running", "ok", "failed", "unloadable", "crashed"}

TypeOK ==
  /\ disk \in [Regs -> File] /\ pre \in [Regs -> File]
  /\ pc \in Phases
  /\ k \in Nat \ {0}
  /\ pc \in {"load", "save"} => k <= NumRegs + 1
  /\ pc = "write" => k <= NumRegs
  /\ hook \in Hooks
  /\ mem \in [Regs -> Values] /\ did \in [Regs -> Values]
  /\ err \in BOOLEAN
  /\ outcome \in Outcomes
  /\ faults \in 0 .. MaxFaults
  /\ touched \in SUBSET Regs
  /\ ran \in Seq([func : Funcs, ok : BOOLEAN])

(* What a file holds once loaded into a fresh process: Load returns nil for  *)
(* a missing file and loadState then leaves the value as it is.              *)
Loaded(f) == IF f = Absent THEN Zero ELSE f

(* Can data read from the file be unmarshalled? A truncated file is not nil  *)
(* but empty, so that json.Unmarshal rejects it.                             *)
Readable(f) == f # Torn

(* append(r.hooks[name], r.hooks["*"]...): wildcard functions come last.     *)
CallListWildFirst(h) == WildFuncs \o Registered[h]      \* a mutant
CallList(h) == Registered[h] \o WildFuncs

Init ==
  /\ disk = [n \in Regs |-> Absent]
  /\ pc = "idle" /\ k = 1 /\ hook \in Hooks
  /\ mem = [n \in Regs |-> Zero]
  /\ err = FALSE /\ outcome = "none"
  /\ faults = 0
  /\ did = [n \in Regs |-> Zero]
  /\ touched = {} /\ pre = disk
  /\ ran = << >>

Fault == faults < MaxFaults /\ faults' = faults + 1

(* The process exits with the given result; what it leaves on disk is        *)
(* decided by the caller.                                                    *)
Exit(result) ==
  /\ pc' = "idle" /\ k' = 1 /\ outcome' = result
  /\ UNCHANGED <<hook, mem, err>>

Goto(phase) ==
  /\ pc' = phase /\ k' = 1
  /\ UNCHANGED <<hook, outcome>>

-----------------------------------------------------------------------------
(* Juju starts a hook: a new process, with zero state values.  Nothing is    *)
(* assumed of which hook follows which (Juju retries a failed one, but an    *)
(* operator may skip it).                                                    *)
StartHook(h) ==
  /\ pc = "idle"
  /\ pc' = "load" /\ k' = 1 /\ hook' = h
  /\ mem' = [n \in Regs |-> Zero]
  /\ err' = FALSE /\ outcome' = "running"
  /\ pre' = disk /\ touched' = {} /\ ran' = << >>
  /\ UNCHANGED <<disk, faults, did>>

(* One turn of the loop of loadState.                                        *)
LoadOneStuck ==                                          \* a mutant
  /\ pc = "load" /\ k <= NumRegs
  /\ Readable(disk[k])
  /\ mem' = [mem EXCEPT ![k] = IF disk[k] = Absent THEN @ ELSE disk[k]]
  /\ k' = IF disk[k] = Absent THEN k ELSE k + 1
  /\ UNCHANGED <<pc, hook, err, outcome, disk, faults, hist>>

LoadOneIgnoresTorn ==                                    \* a mutant
  /\ pc = "load" /\ k <= NumRegs
  /\ mem' = [mem EXCEPT ![k] = IF disk[k] \in {Absent, Torn} THEN @ ELSE disk[k]]
  /\ k' = k + 1
  /\ UNCHANGED <<pc, hook, err, outcome, disk, faults, hist>>

LoadOne ==
  /\ pc = "load" /\ k <= NumRegs
  /\ Readable(disk[k])
  /\ mem' = [mem EXCEPT ![k] = IF disk[k] = Absent THEN @ ELSE disk[k]]
  /\ k' = k + 1
  /\ UNCHANGED <<pc, hook, err, outcome, disk, faults, hist>>

(* loadState's errors: Main returns before its deferred save is set up.      *)
LoadUnreadable ==
  /\ pc = "load" /\ k <= NumRegs
  /\ ~Readable(disk[k])
  /\ Exit("unloadable")
  /\ UNCHANGED <<disk, faults, hist>>

LoadIOErrorSkips ==                                      \* a mutant
  /\ pc = "load" /\ k <= NumRegs
  /\ Fault
  /\ k' = k + 1
  /\ UNCHANGED <<pc, hook, mem, err, outcome, disk, hist>>

LoadIOError ==
  /\ pc = "load" /\ k <= NumRegs
  /\ Fault
  /\ Exit("failed")
  /\ UNCHANGED <<disk, hist>>

LoadDone ==
  /\ pc = "load" /\ k = NumRegs + 1
  /\ Goto("contexts")
  /\ UNCHANGED <<mem, err, disk, faults, hist>>

(* "Notify everyone about the context": setters keep the context and leave   *)
(* the state alone; an error returns before the deferred save too.           *)
SetContext ==
  /\ pc = "contexts" /\ k <= NumContexts
  /\ \/ /\ k' = k + 1
        /\ UNCHANGED <<pc, hook, mem, err, outcome>>
     \/ Exit("failed")
  /\ UNCHANGED <<disk, faults, hist>>

(* Where Main goes once the functions of the hook have been looked up.       *)
AfterLookup(h) == IF Registered[h] = << >> THEN "save" ELSE "funcs"

Lookup ==
  /\ pc = "contexts" /\ k > NumContexts
  /\ Goto(AfterLookup(hook))
  /\ err' = (Registered[hook] = << >>)      \* usageError
  /\ UNCHANGED <<mem, disk, faults, hist>>

(* What a function does to the state: through the values that the closures  *)
(* of the registries share it may assign any of them, or none, whether it    *)
(* then returns an error or not.                                             *)
Assign(new) ==
  /\ mem' = new
  /\ did' = [n \in Regs |-> IF new[n] # mem[n] THEN new[n] ELSE did[n]]
  /\ touched' = touched \cup {n \in Regs : new[n] # mem[n]}

(* Where Main goes after a function returned: the first error ends the loop. *)
AfterFuncGoesOn(failed) == "funcs"                       \* a mutant
AfterFunc(failed) == IF failed THEN "save" ELSE "funcs"

RunFunc(failed) ==
  /\ pc = "funcs" /\ k <= Len(CallList(hook))
  /\ \E new \in [Regs -> Values] : Assign(new)
  /\ ran' = Append(ran, [func |-> CallList(hook)[k], ok |-> ~failed])
  /\ err' = failed
  /\ pc' = AfterFunc(failed)
  /\ k' = IF pc' = "funcs" THEN k + 1 ELSE 1
  /\ UNCHANGED <<hook, outcome, disk, faults, pre>>

FuncsDone ==
  /\ pc = "funcs" /\ k = Len(CallList(hook)) + 1
  /\ Goto("save")
  /\ UNCHANGED <<mem, err, disk, faults, hist>>

(* saveState: WriteFile opens the file truncated ...                         *)
SaveOpen ==
  /\ pc = "save" /\ k <= NumRegs
  /\ disk' = [disk EXCEPT ![k] = Torn]
  /\ pc' = "write"
  /\ UNCHANGED <<k, hook, mem, err, outcome, faults, hist>>

(* ... and then writes the data.                                             *)
SaveWrite ==
  /\ pc = "write"
  /\ disk' = [disk EXCEPT ![k] = mem[k]]
  /\ pc' = "save" /\ k' = k + 1
  /\ UNCHANGED <<hook, mem, err, outcome, faults, hist>>

(* MkdirAll or the open fails, leaving the file alone, or the write fails,   *)
(* leaving it truncated.  The remaining files are not saved.                 *)
SaveErrorGoesOn ==                                       \* a mutant
  /\ pc = "write" \/ (pc = "save" /\ k <= NumRegs)
  /\ Fault
  /\ pc' = "save" /\ k' = k + 1 /\ err' = TRUE
  /\ UNCHANGED <<hook, mem, outcome, disk, hist>>

SaveError ==
  /\ pc = "write" \/ (pc = "save" /\ k <= NumRegs)
  /\ Fault
  /\ Exit("failed")
  /\ UNCHANGED <<disk, hist>>

SaveDoneIfFailed ==                                      \* a mutant
  /\ pc = "save" /\ (err \/ k = NumRegs + 1)
  /\ Exit(IF err THEN "failed" ELSE "ok")
  /\ UNCHANGED <<disk, faults, hist>>

SaveDone ==
  /\ pc = "save" /\ k = NumRegs + 1
  /\ Exit(IF err THEN "failed" ELSE "ok")
  /\ UNCHANGED <<disk, faults, hist>>

(* The machine stops or the process is killed: the files are as they are.    *)
Crash ==
  /\ pc # "idle"
  /\ Fault
  /\ Exit("crashed")
  /\ UNCHANGED <<disk, hist>>

Process ==
  \/ LoadOne \/ LoadUnreadable \/ LoadIOError \/ LoadDone
  \/ SetContext \/ Lookup
  \/ (\E failed \in BOOLEAN : RunFunc(failed)) \/ FuncsDone
  \/ SaveOpen \/ SaveWrite \/ SaveError \/ SaveDone

Next == (\E h \in Hooks : StartHook(h)) \/ Process \/ Crash

(* A started process keeps running.                                          *)
Spec == Init /\ [][Next]_vars /\ WF_vars(Process)

-----------------------------------------------------------------------------
Idle == pc = "idle"
FuncSet(seq) == {seq[i] : i \in 1 .. Len(seq)}

(* Without a crash or an I/O failure nothing a hook function did to a        *)
(* registry's state is lost between hooks, even when it or a later function  *)
(* failed, or the hook was not registered (the deferred save of Main).       *)
DurableUnlessFault ==
  Idle /\ faults = 0 => \A n \in Regs : Loaded(disk[n]) = did[n]

(* A hook that Main reports as successful has called every function          *)
(* registered for it and every wildcard function, all of them succeeded, and *)
(* every file holds what the functions left, or what it held before if they  *)
(* left it alone: whatever crashed or failed in earlier runs.                *)
SuccessIsComplete ==
  outcome = "ok" =>
    /\ FuncSet(Registered[hook]) \cup FuncSet(WildFuncs)
         \subseteq {ran[i].func : i \in 1 .. Len(ran)}
    /\ \A i \in 1 .. Len(ran) : ran[i].ok
    /\ \A n \in Regs :
         disk[n] = IF n \in touched THEN did[n] ELSE Loaded(pre[n])

(* A process that could not load some file runs nothing and overwrites       *)
(* nothing, however long the file stays unreadable.                          *)
UnreadableIsKept ==
  (\E n \in Regs : pre[n] = Torn) => disk = pre /\ ran = << >>

(* The files are saved in registration order and the first failure ends it:  *)
(* when a run is over, however it ended, a prefix of the files is new, at    *)
(* most the next one is torn, and the others are as the run found them.      *)
SavedIsPrefix ==
  Idle =>
    \E j \in 0 .. NumRegs :
      \A n \in Regs :
        /\ n <= j => disk[n] = mem[n]
        /\ n = j + 1 => disk[n] \in {pre[n], Torn}
        /\ n > j + 1 => disk[n] = pre[n]

(* Functions run "in order of registration until one returns an error", and  *)
(* wildcard functions after the hook's own: what a run has called is the     *)
(* beginning of the hook's own functions followed by the wildcard ones, each *)
(* called once and at its place, and all but the last succeeded.             *)
RunOrder ==
  \A i \in 1 .. Len(ran) :
    /\ \A j \in 1 .. i - 1 : ran[j].ok
    /\ \/ /\ i <= Len(Registered[hook])
          /\ ran[i].func = Registered[hook][i]
       \/ \E w \in 1 .. Len(WildFuncs) :
            i = Len(Registered[hook]) + w /\ ran[i].func = WildFuncs[w]

(* Every hook process ends.                                                  *)
HookEnds == ~Idle ~> Idle

(* A hook process is a session with the state files: it has them open from   *)
(* when all are loaded until it exits, and the save seals what it saw.       *)
Stage ==
  CASE pc = "idle" -> "closed"
    [] pc = "load" -> "reading"
    [] pc \in {"contexts", "funcs"} -> "open"
    [] pc = "save" -> "sealed"
    [] pc = "write" -> "torn"

View == IF pc \in {"idle", "load"} THEN [n \in Regs |-> Zero] ELSE mem

Store == INSTANCE DurableState WITH
  store  <- disk,
  stage  <- Stage,
  view   <- View,
  next   <- IF pc \in {"save", "write"} THEN k ELSE 1,
  result <- IF outcome = "ok" THEN "ok" ELSE "not"

(* The hook executable implements the store: its functions see all of the    *)
(* state or do not run, the files are replaced in order and one by one, and  *)
(* a success is reported only when all of them were.                         *)
IsDurableStore == Store!Spec
=============================================================================
