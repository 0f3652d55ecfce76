--------------------------- MODULE HookTestProofs ---------------------------
(* Proofs about HookTest for any capacity of the channel and any number of   *)
(* operations: a test can go by the events.                                  *)
EXTENDS HookTest, TLAPS

(* What an operation may still have to do.                                   *)
Todos == Operations \cup {<< >>, <<"remove">>}

(* Enough about sequences of one and of two.                                 *)
LEMMA Firsts ==
  ASSUME NEW a, NEW b
  PROVE  /\ Head(<<a>>) = a /\ Tail(<<a>>) = << >> /\ <<a>> # << >>
         /\ Head(<<a, b>>) = a /\ Tail(<<a, b>>) = <<b>> /\ <<a, b>> # << >>
<1>1. Head(<<a>>) = a /\ Tail(<<a>>) = << >> /\ <<a>> # << >>
  OBVIOUS
<1>2. Head(<<a, b>>) = a /\ Tail(<<a, b>>) = <<b>> /\ <<a, b>> # << >>
  OBVIOUS
<1>3. QED
  BY <1>1, <1>2

LEMMA TodoFacts ==
  ASSUME NEW t \in Todos, t # << >>
  PROVE  /\ Head(t) \in {"install", "start", "stop", "remove", "running"}
         /\ Tail(t) \in Todos
         /\ Head(t) = "install" => Tail(t) = <<"start">>
         /\ Head(t) = "stop" => Tail(t) \in {<< >>, <<"remove">>}
         /\ Head(t) \in {"start", "remove", "running"} => Tail(t) = << >>
<1>1. CASE t = <<"install", "start">>
  BY <1>1, Firsts DEF Todos, Operations
<1>2. CASE t = <<"stop", "remove">>
  BY <1>2, Firsts DEF Todos, Operations
<1>3. CASE t \in {<<"start">>, <<"stop">>, <<"running">>, <<"remove">>}
  BY <1>3, Firsts DEF Todos, Operations
<1>4. QED
  BY <1>1, <1>2, <1>3 DEF Todos, Operations

Parts == {"install", "start", "stop", "remove", "running"}

LEMMA TodosAreSeqs == Todos \subseteq Seq(Parts)
BY DEF Todos, Operations, Parts

(* What a part may still have to send, and what it has started or stopped,   *)
(* after what was sent last.                                                 *)
Off == {"Install", "Stop"}

SendingInstall ==
  /\ Head(op.todo) = "install" /\ installed /\ cmd = NoCmd /\ new = NoCmd
  /\ \/ send = <<"Install">> /\ Now = "Remove"
     \/ send = << >> /\ Now = "Install"

SendingStart ==
  /\ Head(op.todo) = "start" /\ installed /\ cmd = NoCmd
  /\ \/ send = <<"Error">> /\ Now \in Off /\ new = NoCmd
     \/ send = <<"Start", "Stop">> /\ Now \in Off /\ new = NoCmd
     \/ send = <<"Stop">> /\ Now = "Start" /\ new = NoCmd
     \/ send = <<"Start">> /\ Now \in Off /\ new = ops
     \/ send = << >> /\ Now = "Start" /\ new = ops
     \/ send = << >> /\ Now \in Off /\ new = NoCmd

SendingStop ==
  /\ Head(op.todo) = "stop" /\ installed /\ new = NoCmd
  /\ cmd \in Cmds /\ life[cmd] = "ended"
  /\ \/ send \in {<<"Error", "Stop">>, <<"Stop">>} /\ Now = "Start"
     \/ send = << >> /\ Now = "Stop"

SendingRemove ==
  /\ Head(op.todo) = "remove" /\ ~installed /\ cmd = NoCmd /\ new = NoCmd
  /\ \/ send = <<"Remove">> /\ Now \in Off
     \/ send = << >> /\ Now = "Remove"

(* Between the sends the service is what the last event says.                *)
Agreeing ==
  /\ send = << >> /\ new = NoCmd
  /\ installed <=> Now # "Remove"
  /\ cmd # NoCmd <=> Now = "Start"

PartInv ==
  /\ op.todo \in Todos
  /\ op.todo # << >> => ops \in Cmds
  /\ op.todo # << >> /\ Head(op.todo) = "remove" => cmd = NoCmd
  /\ op.pc = "wait" => Head(op.todo) = "stop" /\ cmd \in Cmds
  /\ op.pc # "send" => Agreeing
  /\ op.pc = "send" =>
       SendingInstall \/ SendingStart \/ SendingStop \/ SendingRemove

(* The mutex is held by the test inside a part, or by the goroutine that     *)
(* found its command current.                                                *)
MutexInv ==
  /\ mu = Test <=> op.pc # "lock"
  /\ op.todo = << >> => op.pc = "lock"
  /\ \A c \in Cmds : waiter[c] = "stop" => mu = c /\ cmd = c

(* Commands run that are current or just started; goroutines are of commands *)
(* that were started.                                                        *)
LifeInv ==
  /\ \A c \in Cmds : life[c] \in {"running", "killed"} => cmd = c \/ new = c
  /\ \A c \in Cmds : waiter[c] \in {"error", "lock", "stop"} => life[c] = "ended"
  /\ \A c \in Cmds :
       \/ c > ops
       \/ c = ops /\ op.todo # << >> /\ Head(op.todo) \in {"install", "start"}
       => waiter[c] = "none"

LogInv == \A i \in 1 .. Len(log) : <<Before(i), log[i]>> \in Follows

(* One more event.                                                           *)
LEMMA LogStep ==
  ASSUME TypeOK, LogInv, NEW e \in Event \ {"Error"}, log' = Append(log, e),
         <<Now, e>> \in Follows
  PROVE  LogInv' /\ Now' = e
<1> USE DEF TypeOK, Now, Before
<1>1. Len(log') = Len(log) + 1 /\ Len(log) \in Nat
  OBVIOUS
<1>2. log'[Len(log) + 1] = e
  OBVIOUS
<1>3. \A i \in 1 .. Len(log) : log'[i] = log[i]
  OBVIOUS
<1>4. Now' = e
  BY <1>1, <1>2
<1>5. ASSUME NEW i \in 1 .. Len(log')
      PROVE  <<Before(i)', log'[i]>> \in Follows
  <2>1. CASE i = Len(log) + 1
    BY <1>1, <1>2, <1>3, <2>1
  <2>2. CASE i \in 1 .. Len(log)
    <3>1. log'[i] = log[i] /\ (i # 1 => log'[i - 1] = log[i - 1])
      BY <1>3, <2>2
    <3>2. QED
      BY <2>2, <3>1 DEF LogInv
  <2>3. i = Len(log) + 1 \/ i \in 1 .. Len(log)
    BY <1>1
  <2>4. QED
    BY <2>1, <2>2, <2>3
<1>6. QED
  BY <1>4, <1>5 DEF LogInv

-----------------------------------------------------------------------------
(* Types.                                                                    *)

LEMMA CallCases ==
  ASSUME Next
  PROVE  \/ TestStep
         \/ \E o \in Operations : Call(o)
         \/ \E c \in Cmds : WaiterStep(c) \/ EndsOfItself(c)
BY DEF Next

LEMMA TypeInit == Init => TypeOK
<1> SUFFICES ASSUME Init PROVE TypeOK
  OBVIOUS
<1> USE HookTestAssumption DEF Init, TypeOK
<1>1. op \in [todo : Seq(Parts), pc : {"lock", "part", "wait", "send"}]
  BY DEF Parts
<1>2. /\ send \in Seq(Event) /\ events \in Seq(Event)
      /\ log \in Seq(Event \ {"Error"}) /\ Len(events) <= Cap
  OBVIOUS
<1>3. /\ 0 \in 0 .. MaxOps
      /\ life \in [Cmds -> {"none", "running", "killed", "ended"}]
      /\ failed \in [Cmds -> BOOLEAN]
      /\ waiter \in [Cmds -> {"none", "wait", "error", "lock", "stop", "done"}]
  OBVIOUS
<1>4. QED
  BY <1>1, <1>2, <1>3 DEF Parts

LEMMA NotifyTyped ==
  ASSUME TypeOK, NEW e \in Event, Notify(e)
  PROVE  /\ events' \in Seq(Event) /\ Len(events') <= Cap
         /\ log' \in Seq(Event \ {"Error"})
<1> USE HookTestAssumption DEF TypeOK, Notify
<1>1. events' \in Seq(Event) /\ Len(events') <= Cap
  OBVIOUS
<1>2. CASE e = "Error"
  BY <1>1, <1>2
<1>3. CASE e # "Error"
  <2>1. log' = Append(log, e) /\ e \in Event \ {"Error"}
    BY <1>3
  <2>2. log' \in Seq(Event \ {"Error"})
    BY <2>1
  <2>3. QED
    BY <1>1, <2>2
<1>4. QED
  BY <1>2, <1>3

LEMMA SendsAreSeqs ==
  /\ << >> \in Seq(Event)
  /\ \A e \in Event : <<e>> \in Seq(Event)
  /\ \A e, f \in Event : <<e, f>> \in Seq(Event)
OBVIOUS

LEMMA OpTyped ==
  ASSUME TypeOK,
         \/ \E o \in Operations : op' = [todo |-> o, pc |-> "lock"]
         \/ op.todo # << >> /\ op' = [todo |-> Tail(op.todo), pc |-> "lock"]
         \/ \E s \in {"part", "wait", "send"} : op' = [op EXCEPT !.pc = s]
         \/ op' = op
  PROVE  op' \in [todo : Seq(Parts), pc : {"lock", "part", "wait", "send"}]
<1> USE DEF TypeOK, Parts
<1>1. CASE \E o \in Operations : op' = [todo |-> o, pc |-> "lock"]
  BY <1>1, TodosAreSeqs DEF Todos
<1>2. CASE op.todo # << >> /\ op' = [todo |-> Tail(op.todo), pc |-> "lock"]
  <2>1. Tail(op.todo) \in Seq(Parts)
    BY <1>2
  <2>2. QED
    BY <1>2, <2>1
<1>3. CASE \E s \in {"part", "wait", "send"} : op' = [op EXCEPT !.pc = s]
  BY <1>3
<1>4. QED
  BY <1>1, <1>2, <1>3

LEMMA TestTyped == TypeOK /\ PartInv /\ TestStep => TypeOK'
<1> SUFFICES ASSUME TypeOK, PartInv, TestStep PROVE TypeOK'
  OBVIOUS
<1>1. op' \in [todo : Seq(Parts), pc : {"lock", "part", "wait", "send"}]
  <2>1. CASE Drain \/ Lock \/ Kill \/ Send
    BY <2>1, OpTyped DEF Drain, Lock, Kill, Send, test
  <2>2. CASE Installed \/ NothingToDo \/ Sent
    BY <2>2, OpTyped
    DEF Installed, NothingToDo, Sent, Part, Unlock, ThenSend, Idle
  <2>3. CASE RunCommandFails \/ RunCommandEnds \/ RunCommandRuns \/ Waited \/ Delete
    BY <2>3, OpTyped
    DEF RunCommandFails, RunCommandEnds, RunCommandRuns, Waited, Delete, ThenSend
  <2>4. QED
    BY <2>1, <2>2, <2>3 DEF TestStep
<1>2. /\ events' \in Seq(Event) /\ Len(events') <= Cap
      /\ log' \in Seq(Event \ {"Error"})
  <2>1. CASE Drain
    BY <2>1, HookTestAssumption DEF Drain, TypeOK
  <2>2. CASE Send
    <3>1. Head(send) \in Event
      BY <2>2 DEF Send, TypeOK
    <3>2. QED
      BY <2>2, <3>1, NotifyTyped DEF Send
  <2>3. CASE UNCHANGED <<events, log>>
    BY <2>3 DEF TypeOK
  <2>4. QED
    BY <2>1, <2>2, <2>3
    DEF TestStep, Lock, Installed, NothingToDo, RunCommandFails, RunCommandEnds,
        RunCommandRuns, Kill, Waited, Delete, Sent
<1>3. send' \in Seq(Event)
  <2> DEFINE Some == {<<"Install">>, <<"Error">>, <<"Start", "Stop">>, <<"Start">>,
                      <<"Error", "Stop">>, <<"Stop">>, <<"Remove">>}
  <2>1. \A es \in Some : es \in Seq(Event)
    BY SendsAreSeqs DEF Event
  <2>2. CASE Installed \/ RunCommandFails \/ RunCommandEnds \/ RunCommandRuns
             \/ Waited \/ Delete
    <3>1. send' = send \/ send' \in Some
      BY <2>2
      DEF Installed, RunCommandFails, RunCommandEnds, RunCommandRuns, Waited,
          Delete, ThenSend
    <3>2. QED
      BY <2>1, <3>1 DEF TypeOK
  <2>3. CASE Send
    BY <2>3 DEF Send, TypeOK
  <2>4. CASE send' = send
    BY <2>4 DEF TypeOK
  <2>5. QED
    BY <2>2, <2>3, <2>4
    DEF TestStep, Drain, Lock, NothingToDo, Kill, Sent, test
<1>4. /\ new' \in Cmds \cup {NoCmd} /\ cmd' \in Cmds \cup {NoCmd}
      /\ life' \in [Cmds -> {"none", "running", "killed", "ended"}]
      /\ waiter' \in [Cmds -> {"none", "wait", "error", "lock", "stop", "done"}]
  <2>1. CASE RunCommandRuns
    BY <2>1 DEF RunCommandRuns, Part, Idle, PartInv, TypeOK, manager
  <2>2. CASE Sent
    BY <2>2 DEF Sent, TypeOK, command
  <2>3. CASE Kill
    BY <2>3 DEF Kill, Part, TypeOK, manager
  <2>4. CASE UNCHANGED <<new, cmd, life, waiter>>
    BY <2>4 DEF TypeOK
  <2>5. QED
    BY <2>1, <2>2, <2>3, <2>4
    DEF TestStep, Drain, Lock, Installed, NothingToDo, RunCommandFails,
        RunCommandEnds, Waited, Delete, Send, test, manager, command
<1>5. /\ ops' \in 0 .. MaxOps /\ mu' \in {Free, Test} \cup Cmds
      /\ installed' \in BOOLEAN /\ failed' \in [Cmds -> BOOLEAN]
  BY DEF TestStep, Drain, Lock, Installed, NothingToDo, RunCommandFails,
         RunCommandEnds, RunCommandRuns, Kill, Waited, Delete, Send, Sent,
         Unlock, ThenSend, TypeOK, test, manager, command
<1>6. QED
  BY <1>1, <1>2, <1>3, <1>4, <1>5 DEF TypeOK, Parts

LEMMA WaiterTyped ==
  ASSUME TypeOK, NEW c \in Cmds, WaiterStep(c) \/ EndsOfItself(c)
  PROVE  TypeOK'
<1>1. UNCHANGED test
  BY DEF WaiterStep, EndsOfItself, KilledEnds, End, WaiterWakes, WaiterError,
         WaiterLock, WaiterStop
<1>2. /\ failed' \in [Cmds -> BOOLEAN]
      /\ life' \in [Cmds -> {"none", "running", "killed", "ended"}]
  <2>1. CASE End(c)
    BY <2>1 DEF End, TypeOK
  <2>2. CASE UNCHANGED command
    BY <2>2 DEF TypeOK, command
  <2>3. QED
    BY <2>1, <2>2
    DEF WaiterStep, EndsOfItself, KilledEnds, WaiterWakes, WaiterError,
        WaiterLock, WaiterStop
<1>3. /\ installed' \in BOOLEAN /\ cmd' \in Cmds \cup {NoCmd}
      /\ mu' \in {Free, Test} \cup Cmds
      /\ waiter' \in [Cmds -> {"none", "wait", "error", "lock", "stop", "done"}]
  <2>1. CASE WaiterLock(c)
    <3>1. UNCHANGED manager /\ mu' \in {mu, c}
            /\ \E s \in {"stop", "done"} : waiter' = [waiter EXCEPT ![c] = s]
      BY <2>1 DEF WaiterLock
    <3>2. QED
      BY <3>1 DEF TypeOK, manager
  <2>2. CASE WaiterStop(c)
    BY <2>2 DEF WaiterStop, TypeOK
  <2>3. CASE UNCHANGED manager /\ UNCHANGED mu
               /\ \E s \in {"error", "lock"} :
                    waiter' = waiter \/ waiter' = [waiter EXCEPT ![c] = s]
    BY <2>3 DEF TypeOK, manager
  <2>4. QED
    BY <2>1, <2>2, <2>3
    DEF WaiterStep, EndsOfItself, KilledEnds, End, WaiterWakes, WaiterError
<1>4. /\ events' \in Seq(Event) /\ Len(events') <= Cap
      /\ log' \in Seq(Event \ {"Error"})
  <2>1. CASE WaiterError(c) \/ WaiterStop(c)
    BY <2>1, NotifyTyped DEF WaiterError, WaiterStop, Event
  <2>2. CASE UNCHANGED <<events, log>>
    BY <2>2 DEF TypeOK
  <2>3. QED
    BY <2>1, <2>2
    DEF WaiterStep, EndsOfItself, KilledEnds, End, WaiterWakes, WaiterLock
<1>5. QED
  BY <1>1, <1>2, <1>3, <1>4 DEF TypeOK, test

-----------------------------------------------------------------------------
(* What each step does to the parts, the mutex and the commands.             *)

Inv == TypeOK /\ PartInv /\ MutexInv /\ LifeInv /\ LogInv

LEMMA InvInit == Init => Inv
<1> SUFFICES ASSUME Init PROVE Inv
  OBVIOUS
<1>1. PartInv
  BY DEF Init, PartInv, Agreeing, Todos, Now, Before, NoCmd
<1>2. MutexInv /\ LifeInv
  BY HookTestAssumption DEF Init, MutexInv, LifeInv
<1>3. LogInv
  BY DEF Init, LogInv
<1>4. QED
  BY <1>1, <1>2, <1>3, TypeInit DEF Inv

(* A step that leaves the log alone leaves what is said of it alone.         *)
LEMMA Silent ==
  ASSUME LogInv, log' = log
  PROVE  LogInv' /\ Now' = Now
BY DEF LogInv, Now, Before

(* The start of an operation, its locking and its draining.                  *)
LEMMA CallStep ==
  ASSUME Inv, NEW o \in Operations, Call(o)
  PROVE  Inv'
<1> USE DEF Inv, Call
<1>1. o \in Todos /\ o # << >> /\ Head(o) # "remove"
  BY Firsts DEF Operations, Todos
<1>2. ops' \in Cmds
  BY HookTestAssumption DEF TypeOK, Cmds
<1>3. LogInv' /\ Now' = Now
  BY Silent
<1>4. TypeOK'
  BY <1>2, OpTyped DEF TypeOK, Parts, Cmds, manager, command
<1>5. PartInv'
  BY <1>1, <1>2, <1>3 DEF PartInv, Agreeing, MutexInv, Idle, manager
<1>6. MutexInv'
  BY DEF MutexInv, Idle, manager
<1>7. LifeInv'
  BY <1>2 DEF LifeInv, TypeOK, Cmds, manager, command, Idle
<1>8. QED
  BY <1>3, <1>4, <1>5, <1>6, <1>7

LEMMA DrainOrLock ==
  ASSUME Inv, Drain \/ Lock \/ UNCHANGED vars
  PROVE  Inv'
<1> USE DEF Inv
<1>1. log' = log /\ UNCHANGED <<send, new, ops, manager, command, waiter>>
      /\ op'.todo = op.todo
      /\ \/ mu' = mu /\ op' = op
         \/ /\ mu = Free /\ mu' = Test /\ op.todo # << >>
            /\ op.pc = "lock" /\ op'.pc = "part"
  BY DEF Drain, Lock, vars, test, TypeOK, Idle
<1>2. LogInv' /\ Now' = Now
  BY <1>1, Silent
<1>3. PartInv'
  BY <1>1, <1>2 DEF PartInv, Agreeing, SendingInstall, SendingStart, SendingStop,
     SendingRemove, manager, command
<1>4. MutexInv'
  BY <1>1, HookTestAssumption DEF MutexInv, manager, Cmds
<1>5. LifeInv'
  BY <1>1 DEF LifeInv, manager, command
<1>6. TypeOK'
  <2>1. CASE Drain \/ Lock
    BY <2>1, TestTyped DEF TestStep
  <2>2. CASE UNCHANGED vars
    BY <2>2 DEF TypeOK, vars, test, manager, command
  <2>3. QED
    BY <2>1, <2>2
<1>7. QED
  BY <1>2, <1>3, <1>4, <1>5, <1>6

(* The steps that end a part without an event.                               *)
LEMMA Nothing ==
  ASSUME Inv, NothingToDo \/ (Installed /\ installed)
  PROVE  Inv'
<1> USE DEF Inv
<1>1. /\ log' = log /\ UNCHANGED <<send, new, ops, manager, command, waiter>>
      /\ op.todo # << >> /\ op.pc = "part" /\ mu' = Free
      /\ op' = [todo |-> Tail(op.todo), pc |-> "lock"]
      /\ Head(op.todo) = "stop" => ~installed \/ cmd = NoCmd
  BY DEF NothingToDo, Installed, Part, Unlock, Idle, manager
<1>2. LogInv' /\ Now' = Now
  BY <1>1, Silent
<1>3. op.todo \in Todos /\ Agreeing
  BY <1>1 DEF PartInv
<1>4. PartInv'
  <2>1. op'.todo \in Todos /\ (op'.todo # << >> => ops' \in Cmds)
    BY <1>1, <1>3, TodoFacts DEF PartInv
  <2>2. op'.todo # << >> /\ Head(op'.todo) = "remove" => cmd' = NoCmd
    <3>1. op'.todo # << >> /\ Head(op'.todo) = "remove" => Head(op.todo) = "stop"
      BY <1>1, <1>3, TodoFacts, Firsts
    <3>2. cmd # NoCmd => installed
      BY <1>3 DEF Agreeing
    <3>3. QED
      BY <1>1, <3>1, <3>2 DEF manager
  <2>3. QED
    BY <1>1, <1>2, <1>3, <2>1, <2>2 DEF PartInv, Agreeing, manager
<1>5. MutexInv'
  <2>1. \A c \in Cmds : waiter[c] # "stop"
    BY <1>1, HookTestAssumption DEF MutexInv, Cmds
  <2>2. QED
    BY <1>1, <2>1, HookTestAssumption DEF MutexInv
<1>6. LifeInv'
  <2>1. op'.todo # << >> /\ Head(op'.todo) \in {"install", "start"}
          => op.todo # << >> /\ Head(op.todo) \in {"install", "start"}
    BY <1>1, <1>3, TodoFacts, Firsts
  <2>2. QED
    BY <1>1, <2>1 DEF LifeInv, manager, command
<1>7. TypeOK'
  BY TestTyped DEF TestStep
<1>8. QED
  BY <1>2, <1>4, <1>5, <1>6, <1>7

(* The steps within a part that send nothing yet.                            *)
LEMMA Within ==
  ASSUME Inv,
         \/ Installed /\ ~installed
         \/ RunCommandFails \/ RunCommandEnds \/ RunCommandRuns
         \/ Kill \/ Waited \/ Delete
  PROVE  Inv'
<1> USE DEF Inv
<1>1. /\ log' = log /\ UNCHANGED <<ops, mu, cmd, waiter>>
      /\ op.todo # << >> /\ op'.todo = op.todo
      /\ op.pc \in {"part", "wait"} /\ op'.pc \in {"wait", "send"}
  BY DEF Installed, RunCommandFails, RunCommandEnds, RunCommandRuns, Kill, Waited,
         Delete, Part, ThenSend, Idle, manager, TypeOK
<1>2. LogInv' /\ Now' = Now
  BY <1>1, Silent
<1>3. op.todo \in Todos /\ Agreeing /\ ops \in Cmds
  BY <1>1 DEF PartInv
<1>4. Now \in {"Remove", "Install", "Start", "Stop"}
  <2>1. CASE Len(log) = 0
    BY <2>1 DEF Now, Before
  <2>2. CASE Len(log) # 0
    BY <2>2 DEF Now, Before, TypeOK, Event
  <2>3. QED
    BY <2>1, <2>2
<1>5. PartInv'
  <2>1. CASE Installed /\ ~installed
    BY <1>1, <1>2, <1>3, <2>1
    DEF PartInv, Agreeing, SendingInstall, Installed, Part, ThenSend, TypeOK
  <2>2. CASE RunCommandFails \/ RunCommandEnds \/ RunCommandRuns
    BY <1>1, <1>2, <1>3, <1>4, <2>2
    DEF PartInv, Agreeing, SendingStart, Off, RunCommandFails, RunCommandEnds,
        RunCommandRuns, Part, ThenSend, TypeOK, manager
  <2>3. CASE Kill
    BY <1>1, <1>2, <1>3, <2>3
    DEF PartInv, Agreeing, Kill, Part, TypeOK, manager
  <2>4. CASE Waited
    BY <1>1, <1>2, <1>3, <2>4
    DEF PartInv, Agreeing, SendingStop, Waited, ThenSend, TypeOK, manager, command,
        Cmds, NoCmd
  <2>5. CASE Delete
    BY <1>1, <1>2, <1>3, <1>4, <2>5
    DEF PartInv, Agreeing, SendingRemove, Off, Delete, Part, ThenSend, TypeOK
  <2>6. QED
    BY <2>1, <2>2, <2>3, <2>4, <2>5
<1>6. MutexInv'
  BY <1>1 DEF MutexInv
<1>7. LifeInv'
  <2>1. CASE UNCHANGED <<life, new>>
    BY <1>1, <2>1 DEF LifeInv
  <2>2. CASE RunCommandRuns
    <3>1. /\ new' = ops /\ life' = [life EXCEPT ![ops] = "running"]
          /\ cmd = NoCmd /\ new = NoCmd /\ Head(op.todo) = "start"
      BY <1>3, <2>2 DEF RunCommandRuns, Part, Agreeing
    <3>2. \A c \in Cmds : life[c] \notin {"running", "killed"}
      BY <3>1 DEF LifeInv, Cmds, NoCmd
    <3>3. waiter[ops] = "none"
      BY <1>1, <1>3, <3>1 DEF LifeInv
    <3>4. QED
      BY <1>1, <1>3, <3>1, <3>2, <3>3 DEF LifeInv, TypeOK
  <2>3. CASE Kill
    <3>1. /\ UNCHANGED new /\ cmd \in Cmds
          /\ life' = [life EXCEPT ![cmd] = IF @ = "ended" THEN @ ELSE "killed"]
      BY <2>3 DEF Kill, TypeOK
    <3>2. QED
      BY <1>1, <3>1 DEF LifeInv, TypeOK
  <2>4. QED
    BY <2>1, <2>2, <2>3
    DEF Installed, RunCommandFails, RunCommandEnds, Waited, Delete, command
<1>8. TypeOK'
  BY TestTyped DEF TestStep
<1>9. QED
  BY <1>2, <1>5, <1>6, <1>7, <1>8

(* Sending an event of a part.                                               *)
LEMMA SendStep ==
  ASSUME Inv, Send
  PROVE  Inv'
<1> USE DEF Inv
<1> DEFINE e == Head(send)
<1>1. /\ op.todo # << >> /\ op.pc = "send" /\ send # << >> /\ send' = Tail(send)
      /\ Notify(e) /\ UNCHANGED <<op, new, ops, mu, manager, command, waiter>>
  BY DEF Send, Idle
<1>2. SendingInstall \/ SendingStart \/ SendingStop \/ SendingRemove
  BY <1>1 DEF PartInv
<1>3. TypeOK'
  BY TestTyped DEF TestStep
<1>4. MutexInv' /\ LifeInv'
  BY <1>1 DEF MutexInv, LifeInv, manager, command
<1>5. e = "Error" => LogInv' /\ Now' = Now
  BY <1>1, Silent DEF Notify
<1>6. e \in Event \ {"Error"} /\ <<Now, e>> \in Follows => LogInv' /\ Now' = e
  BY <1>1, LogStep DEF Notify
<1> USE DEF Event, Off, Follows
<1>7. /\ LogInv'
      /\ SendingInstall' \/ SendingStart' \/ SendingStop' \/ SendingRemove'
  <2>1. CASE SendingInstall
    BY <1>1, <1>6, <2>1, Firsts DEF SendingInstall, manager
  <2>2. CASE SendingStart
    <3>1. CASE send = <<"Error">>
      BY <1>1, <1>5, <2>2, <3>1, Firsts DEF SendingStart, manager
    <3>2. CASE send = <<"Start", "Stop">>
      BY <1>1, <1>6, <2>2, <3>2, Firsts DEF SendingStart, manager
    <3>3. CASE send = <<"Stop">>
      BY <1>1, <1>6, <2>2, <3>3, Firsts DEF SendingStart, manager
    <3>4. CASE send = <<"Start">>
      BY <1>1, <1>6, <2>2, <3>4, Firsts DEF SendingStart, manager
    <3>5. QED
      BY <1>1, <2>2, <3>1, <3>2, <3>3, <3>4 DEF SendingStart
  <2>3. CASE SendingStop
    <3>1. CASE send = <<"Error", "Stop">>
      BY <1>1, <1>5, <2>3, <3>1, Firsts DEF SendingStop, manager, command
    <3>2. CASE send = <<"Stop">>
      BY <1>1, <1>6, <2>3, <3>2, Firsts DEF SendingStop, manager, command
    <3>3. QED
      BY <1>1, <2>3, <3>1, <3>2 DEF SendingStop
  <2>4. CASE SendingRemove
    BY <1>1, <1>6, <2>4, Firsts DEF SendingRemove, manager
  <2>5. QED
    BY <1>2, <2>1, <2>2, <2>3, <2>4
<1>8. PartInv'
  BY <1>1, <1>7 DEF PartInv, manager
<1>9. QED
  BY <1>3, <1>4, <1>7, <1>8

(* The end of a part whose events have been sent.                            *)
LEMMA SentStep ==
  ASSUME Inv, Sent
  PROVE  Inv'
<1> USE DEF Inv
<1>1. /\ op.todo # << >> /\ op.pc = "send" /\ send = << >> /\ send' = << >>
      /\ new' = NoCmd /\ mu' = Free /\ log' = log
      /\ op' = [todo |-> Tail(op.todo), pc |-> "lock"]
      /\ UNCHANGED <<ops, installed, life>>
      /\ waiter' = IF new = NoCmd THEN waiter ELSE [waiter EXCEPT ![new] = "wait"]
  BY DEF Sent, Idle, Unlock, command
<1>2. LogInv' /\ Now' = Now
  BY <1>1, Silent
<1>3. op.todo \in Todos /\ ops \in Cmds /\ NoCmd \notin Cmds
  BY <1>1 DEF PartInv, Cmds, NoCmd
<1>4. SendingInstall \/ SendingStart \/ SendingStop \/ SendingRemove
  BY <1>1 DEF PartInv
<1>5. /\ new # NoCmd => cmd' = new
      /\ new = NoCmd /\ Head(op.todo) = "stop" => cmd' = NoCmd
      /\ new = NoCmd /\ Head(op.todo) # "stop" => cmd' = cmd
  BY DEF Sent
<1>6. send # <<"Install">> /\ send # <<"Error">> /\ send # <<"Start", "Stop">>
        /\ send # <<"Stop">> /\ send # <<"Start">> /\ send # <<"Error", "Stop">>
        /\ send # <<"Remove">>
  BY <1>1, Firsts
<1>7. Agreeing'
  BY <1>1, <1>2, <1>3, <1>4, <1>5, <1>6
  DEF Agreeing, SendingInstall, SendingStart, SendingStop, SendingRemove, Off
<1>8. /\ op'.todo \in Todos
      /\ op'.todo # << >> /\ Head(op'.todo) = "remove" => Head(op.todo) = "stop"
      /\ op'.todo # << >> /\ Head(op'.todo) \in {"install", "start"}
           => Head(op.todo) = "install"
  BY <1>1, <1>3, TodoFacts, Firsts
<1>9. Head(op.todo) = "stop" => new = NoCmd
  BY <1>4 DEF SendingInstall, SendingStart, SendingStop, SendingRemove
<1>10. PartInv'
  BY <1>1, <1>3, <1>5, <1>7, <1>8, <1>9 DEF PartInv
<1>11. \A c \in Cmds : waiter[c] # "stop"
  BY <1>1, HookTestAssumption DEF MutexInv, Cmds
<1>12. new \in {ops, NoCmd} /\ (new = ops => Head(op.todo) = "start" /\ cmd = NoCmd)
  BY <1>3, <1>4 DEF SendingInstall, SendingStart, SendingStop, SendingRemove
<1>13. MutexInv'
  BY <1>1, <1>3, <1>11, <1>12, HookTestAssumption DEF MutexInv, TypeOK
<1>14. LifeInv'
  <2>1. ASSUME NEW c \in Cmds, life[c] \in {"running", "killed"}
        PROVE  cmd' = c
    <3>1. cmd = c \/ new = c
      BY <2>1 DEF LifeInv
    <3>2. CASE Head(op.todo) = "stop"
      <4>1. life[cmd] = "ended" /\ new = NoCmd
        BY <1>4, <3>2
        DEF SendingInstall, SendingStart, SendingStop, SendingRemove
      <4>2. QED
        BY <1>3, <2>1, <3>1, <4>1
    <3>3. CASE Head(op.todo) # "stop"
      BY <1>3, <1>5, <1>12, <3>1, <3>3
    <3>4. QED
      BY <3>2, <3>3
  <2>2. \A c \in Cmds : waiter'[c] \in {"error", "lock", "stop"} => life'[c] = "ended"
    BY <1>1, <1>3, <1>12 DEF LifeInv, TypeOK
  <2>3. ASSUME NEW c \in Cmds,
               \/ c > ops'
               \/ /\ c = ops' /\ op'.todo # << >>
                  /\ Head(op'.todo) \in {"install", "start"}
        PROVE  waiter'[c] = "none"
    <3>1. waiter[c] = "none"
      BY <1>1, <1>8, <2>3 DEF LifeInv
    <3>2. new # c
      BY <1>1, <1>3, <1>8, <1>12, <2>3 DEF Cmds
    <3>3. QED
      BY <1>1, <1>3, <1>12, <3>1, <3>2 DEF TypeOK
  <2>4. QED
    BY <1>1, <2>1, <2>2, <2>3 DEF LifeInv
<1>15. TypeOK'
  BY TestTyped DEF TestStep
<1>16. QED
  BY <1>2, <1>10, <1>13, <1>14, <1>15

(* The ends of commands, and goroutines that hold no mutex.                  *)
LEMMA EndOrWake ==
  ASSUME Inv, NEW c \in Cmds,
         KilledEnds(c) \/ EndsOfItself(c) \/ WaiterWakes(c) \/ WaiterError(c)
  PROVE  Inv'
<1> USE DEF Inv
<1>1. log' = log /\ UNCHANGED <<test, mu, manager>>
  BY DEF KilledEnds, EndsOfItself, End, WaiterWakes, WaiterError, Notify
<1>2. LogInv' /\ Now' = Now
  BY <1>1, Silent
<1>3. \/ UNCHANGED life /\ waiter[c] \in {"wait", "error"} /\ life[c] = "ended"
          /\ \E s \in {"error", "lock"} : waiter' = [waiter EXCEPT ![c] = s]
      \/ UNCHANGED waiter /\ life[c] \in {"running", "killed"}
          /\ life' = [life EXCEPT ![c] = "ended"]
  BY DEF KilledEnds, EndsOfItself, End, WaiterWakes, WaiterError, command, LifeInv
<1>4. PartInv'
  <2>1. life[cmd] = "ended" /\ cmd \in Cmds => life'[cmd] = "ended"
    BY <1>3 DEF TypeOK
  <2>2. QED
    BY <1>1, <1>2, <2>1
    DEF PartInv, Agreeing, SendingInstall, SendingStart, SendingStop, SendingRemove,
        test, manager
<1>5. MutexInv'
  BY <1>1, <1>3 DEF MutexInv, TypeOK, test, manager
<1>6. LifeInv'
  BY <1>1, <1>3 DEF LifeInv, TypeOK, test, manager
<1>7. TypeOK'
  BY WaiterTyped DEF WaiterStep
<1>8. QED
  BY <1>2, <1>4, <1>5, <1>6, <1>7

LEMMA WaiterLocks ==
  ASSUME Inv, NEW c \in Cmds, WaiterLock(c)
  PROVE  Inv'
<1> USE DEF Inv
<1>1. /\ log' = log /\ UNCHANGED <<test, manager, command>>
      /\ waiter[c] = "lock" /\ mu = Free
      /\ \/ cmd = c /\ mu' = c /\ waiter' = [waiter EXCEPT ![c] = "stop"]
         \/ mu' = mu /\ waiter' = [waiter EXCEPT ![c] = "done"]
  BY DEF WaiterLock
<1>2. LogInv' /\ Now' = Now
  BY <1>1, Silent
<1>3. PartInv'
  BY <1>1, <1>2
  DEF PartInv, Agreeing, SendingInstall, SendingStart, SendingStop, SendingRemove,
      test, manager, command
<1>4. MutexInv'
  <2>1. \A d \in Cmds : waiter[d] # "stop"
    BY <1>1, HookTestAssumption DEF MutexInv, Cmds
  <2>2. op.pc = "lock" /\ mu' # Test /\ UNCHANGED op
    BY <1>1, HookTestAssumption DEF MutexInv, Cmds, test
  <2>3. \A d \in Cmds : waiter'[d] = "stop" => mu' = d /\ cmd = d
    BY <1>1, <2>1 DEF TypeOK
  <2>4. QED
    BY <1>1, <2>2, <2>3 DEF MutexInv, manager
<1>5. LifeInv'
  BY <1>1 DEF LifeInv, TypeOK, test, manager, command
<1>6. TypeOK'
  BY WaiterTyped DEF WaiterStep
<1>7. QED
  BY <1>2, <1>3, <1>4, <1>5, <1>6

LEMMA WaiterStops ==
  ASSUME Inv, NEW c \in Cmds, WaiterStop(c)
  PROVE  Inv'
<1> USE DEF Inv
<1>1. /\ waiter[c] = "stop" /\ Notify("Stop") /\ cmd' = NoCmd /\ mu' = Free
      /\ waiter' = [waiter EXCEPT ![c] = "done"]
      /\ UNCHANGED <<test, installed, command>>
  BY DEF WaiterStop
<1>2. mu = c /\ cmd = c /\ life[c] = "ended" /\ op.pc = "lock" /\ cmd # NoCmd
  BY <1>1, HookTestAssumption DEF MutexInv, LifeInv, Cmds, NoCmd
<1>3. Agreeing /\ Now = "Start"
  BY <1>2 DEF PartInv, Agreeing
<1>4. LogInv' /\ Now' = "Stop"
  BY <1>1, <1>3, LogStep DEF Notify, Event, Follows
<1>5. PartInv'
  BY <1>1, <1>2, <1>3, <1>4 DEF PartInv, Agreeing, test
<1>6. MutexInv'
  BY <1>1, <1>2, HookTestAssumption DEF MutexInv, TypeOK, test
<1>7. LifeInv'
  BY <1>1, <1>2, <1>3 DEF LifeInv, Agreeing, TypeOK, test, command
<1>8. TypeOK'
  BY WaiterTyped DEF WaiterStep
<1>9. QED
  BY <1>4, <1>5, <1>6, <1>7, <1>8

LEMMA InvNext == Inv /\ [Next]_vars => Inv'
<1> SUFFICES ASSUME Inv, [Next]_vars PROVE Inv'
  OBVIOUS
<1>1. CASE \E o \in Operations : Call(o)
  BY <1>1, CallStep
<1>2. CASE TestStep
  BY <1>2, DrainOrLock, Nothing, Within, SendStep, SentStep DEF TestStep
<1>3. CASE \E c \in Cmds : WaiterStep(c) \/ EndsOfItself(c)
  BY <1>3, EndOrWake, WaiterLocks, WaiterStops DEF WaiterStep
<1>4. CASE UNCHANGED vars
  BY <1>4, DrainOrLock
<1>5. QED
  BY <1>1, <1>2, <1>3, <1>4 DEF Next

LEMMA InvTells == Inv => EventsTellTheState
<1> SUFFICES ASSUME Inv PROVE EventsTellTheState
  OBVIOUS
<1>1. CASE mu = Free
  <2>1. op.pc = "lock" /\ Agreeing
    BY <1>1, HookTestAssumption DEF Inv, MutexInv, PartInv, TypeOK
  <2>2. \A c \in Cmds : life[c] \in {"running", "killed"} => cmd = c
    BY <2>1 DEF Inv, LifeInv, Agreeing, Cmds, NoCmd
  <2>3. QED
    BY <2>1, <2>2 DEF Inv, LogInv, Agreeing, EventsTellTheState
<1>2. CASE mu # Free
  BY <1>2 DEF Inv, LogInv, EventsTellTheState
<1>3. QED
  BY <1>1, <1>2

(* Every reachable state of the fake service manager is well typed.          *)
THEOREM TypeCorrect == Spec => []TypeOK
<1>1. Inv => TypeOK
  BY DEF Inv
<1>2. QED
  BY <1>1, InvInit, InvNext, PTL DEF Spec

(* Whichever operations a test calls, whoever notices the end of a command   *)
(* and however small the channel is, the events are those of the service.    *)
THEOREM EventsAreTrue == Spec => []EventsTellTheState
  BY InvInit, InvNext, InvTells, PTL DEF Spec
=============================================================================
