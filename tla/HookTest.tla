------------------------------ MODULE HookTest ------------------------------
(* The fake service manager of hook/hooktest/service.go.  A test calls the   *)
(* operations of one service, each with the mutex held; every command that   *)
(* was started has a goroutine that waits for its end; both send events on a *)
(* buffered channel that the test reads between the operations, and block    *)
(* when it is full, the operations and a goroutine that found its command    *)
(* current with the mutex held.                                              *)
EXTENDS Integers, Sequences

CONSTANTS
  Cap,         \* capacity of the channel
  MaxOps,      \* bound on the operations a test calls
  Free, Test   \* holders of the mutex: nobody, the test; else a goroutine

ASSUME HookTestAssumption ==
  /\ Cap \in Nat \ {0} /\ MaxOps \in Nat
  /\ Free # Test /\ {Free, Test} \cap 1 .. MaxOps = {}

NoCmd == 0
Cmds  == 1 .. MaxOps   \* each by the number of the operation that started it

(* Install is install and then Start, StopAndRemove is Stop and then its own *)
(* part; between the parts the mutex is free.                                *)
Operations ==
  {<<"install", "start">>, <<"start">>, <<"stop">>, <<"stop", "remove">>,
   <<"running">>}

VARIABLES
  op,        \* the parts to be done, and where the test is in the first
  send,      \* the events still to be sent by this part
  new,       \* the command that this part has started
  ops,       \* operations called so far
  mu,        \* the holder of services.mu
  installed, \* is there an installedOSService ...
  cmd,       \* ... and its cmd
  life,      \* each command: not started, running, being killed, ended
  failed,    \* did its Wait return an error?
  waiter,    \* where the goroutine of each command is
  events,    \* the channel
  log        \* every event so far but the errors; read by no action

test    == <<op, send, new, ops>>
manager == <<installed, cmd>>
command == <<life, failed>>
vars    == <<test, mu, manager, command, waiter, events, log>>

Event == {"Install", "Start", "Error", "Stop", "Remove"}

TypeOK ==
  /\ op \in [todo : Seq({"install", "start", "stop", "remove", "running"}),
             pc : {"lock", "part", "wait", "send"}]
  /\ send \in Seq(Event) /\ new \in Cmds \cup {NoCmd} /\ ops \in 0 .. MaxOps
  /\ mu \in {Free, Test} \cup Cmds
  /\ installed \in BOOLEAN /\ cmd \in Cmds \cup {NoCmd}
  /\ life \in [Cmds -> {"none", "running", "killed", "ended"}]
  /\ failed \in [Cmds -> BOOLEAN]
  /\ waiter \in [Cmds -> {"none", "wait", "error", "lock", "stop", "done"}]
  /\ events \in Seq(Event) /\ Len(events) <= Cap
  /\ log \in Seq(Event \ {"Error"})

Init ==
  /\ op = [todo |-> << >>, pc |-> "lock"] /\ send = << >> /\ new = NoCmd
  /\ ops = 0 /\ mu = Free /\ installed = FALSE /\ cmd = NoCmd
  /\ life = [c \in Cmds |-> "none"] /\ failed = [c \in Cmds |-> FALSE]
  /\ waiter = [c \in Cmds |-> "none"]
  /\ events = << >> /\ log = << >>

Idle == op.todo = << >>

(* A send on the channel waits until there is room.                          *)
Notify(e) ==
  /\ Len(events) < Cap
  /\ events' = Append(events, e)
  /\ log' = IF e = "Error" THEN log ELSE Append(log, e)

-----------------------------------------------------------------------------
(* The test.                                                                 *)

(* The test reads what there is to read before it goes on.                   *)
Drain ==
  /\ Idle /\ events # << >>
  /\ events' = Tail(events)
  /\ UNCHANGED <<test, mu, manager, command, waiter, log>>

Call(o) ==
  /\ Idle /\ events = << >> /\ ops < MaxOps
  /\ ops' = ops + 1 /\ op' = [todo |-> o, pc |-> "lock"]
  /\ UNCHANGED <<send, new, mu, manager, command, waiter, events, log>>

Lock ==
  /\ ~Idle /\ op.pc = "lock" /\ mu = Free
  /\ mu' = Test /\ op' = [op EXCEPT !.pc = "part"]
  /\ UNCHANGED <<send, new, ops, manager, command, waiter, events, log>>

Part(p) == ~Idle /\ op.pc = "part" /\ Head(op.todo) = p

(* The part is over: unlock and go on with the next.                         *)
Unlock == mu' = Free /\ op' = [todo |-> Tail(op.todo), pc |-> "lock"]

ThenSend(es) == send' = es /\ op' = [op EXCEPT !.pc = "send"] /\ UNCHANGED mu

Installed ==
  /\ Part("install")
  /\ IF installed THEN Unlock /\ UNCHANGED <<send, installed>>
                  ELSE installed' = TRUE /\ ThenSend(<<"Install">>)
  /\ UNCHANGED <<new, ops, cmd, command, waiter, events, log>>

(* Running reads isvc.cmd; nothing to start or to stop, or not installed.    *)
NothingToDo ==
  /\ \/ Part("running")
     \/ Part("start") /\ (~installed \/ cmd # NoCmd)
     \/ Part("stop") /\ (~installed \/ cmd = NoCmd)
     \/ Part("remove") /\ ~installed
  /\ Unlock
  /\ UNCHANGED <<send, new, ops, manager, command, waiter, events, log>>

(* Runner.RunCommand may return an error, no command or a running command.   *)
RunCommandFails ==
  /\ Part("start") /\ installed /\ cmd = NoCmd
  /\ ThenSend(<<"Error">>)
  /\ UNCHANGED <<new, ops, manager, command, waiter, events, log>>

RunCommandEnds ==
  /\ Part("start") /\ installed /\ cmd = NoCmd
  /\ ThenSend(<<"Start", "Stop">>)
  /\ UNCHANGED <<new, ops, manager, command, waiter, events, log>>

RunCommandRuns ==
  /\ Part("start") /\ installed /\ cmd = NoCmd
  /\ new' = ops
  /\ life' = [life EXCEPT ![ops] = "running"]
  /\ ThenSend(<<"Start">>)
  /\ UNCHANGED <<ops, manager, failed, waiter, events, log>>

(* Stop kills the command and waits for it with the mutex held.              *)
Kill ==
  /\ Part("stop") /\ installed /\ cmd # NoCmd
  /\ life' = [life EXCEPT ![cmd] = IF @ = "ended" THEN @ ELSE "killed"]
  /\ op' = [op EXCEPT !.pc = "wait"]
  /\ UNCHANGED <<send, new, ops, mu, manager, failed, waiter, events, log>>

Waited ==
  /\ ~Idle /\ op.pc = "wait" /\ life[cmd] = "ended"
  /\ ThenSend(IF failed[cmd] THEN <<"Error", "Stop">> ELSE <<"Stop">>)
  /\ UNCHANGED <<new, ops, manager, command, waiter, events, log>>

Delete ==
  /\ Part("remove") /\ installed
  /\ installed' = FALSE
  /\ ThenSend(<<"Remove">>)
  /\ UNCHANGED <<new, ops, cmd, command, waiter, events, log>>

Send ==
  /\ ~Idle /\ op.pc = "send" /\ send # << >>
  /\ Notify(Head(send)) /\ send' = Tail(send)
  /\ UNCHANGED <<op, new, ops, mu, manager, command, waiter>>

(* isvc.cmd is set or cleared after the events have been sent.               *)
Sent ==
  /\ ~Idle /\ op.pc = "send" /\ send = << >>
  /\ cmd' = IF new # NoCmd THEN new
            ELSE IF Head(op.todo) = "stop" THEN NoCmd ELSE cmd
  /\ waiter' = IF new = NoCmd THEN waiter
               ELSE [waiter EXCEPT ![new] = "wait"]
  /\ new' = NoCmd
  /\ Unlock
  /\ UNCHANGED <<send, ops, installed, command, events, log>>

-----------------------------------------------------------------------------
(* The commands and the goroutines that wait for them.                       *)

(* A command ends because it was killed, or of itself.                       *)
End(c) ==
  /\ \E e \in BOOLEAN : failed' = [failed EXCEPT ![c] = e]
  /\ life' = [life EXCEPT ![c] = "ended"]
  /\ UNCHANGED <<test, mu, manager, waiter, events, log>>

KilledEnds(c) == life[c] = "killed" /\ End(c)
EndsOfItself(c) == life[c] = "running" /\ End(c)

WaiterWakes(c) ==
  /\ waiter[c] = "wait" /\ life[c] = "ended"
  /\ waiter' = [waiter EXCEPT ![c] = IF failed[c] THEN "error" ELSE "lock"]
  /\ UNCHANGED <<test, mu, manager, command, events, log>>

(* The error is sent without the mutex.                                      *)
WaiterError(c) ==
  /\ waiter[c] = "error"
  /\ Notify("Error")
  /\ waiter' = [waiter EXCEPT ![c] = "lock"]
  /\ UNCHANGED <<test, mu, manager, command>>

WaiterLockUnchecked(c) ==                                \* a mutant
  /\ waiter[c] = "lock" /\ mu = Free
  /\ mu' = c /\ waiter' = [waiter EXCEPT ![c] = "stop"]
  /\ UNCHANGED <<test, manager, command, events, log>>

WaiterLockKept(c) ==                                     \* a mutant
  /\ waiter[c] = "lock" /\ mu = Free
  /\ mu' = c
  /\ waiter' = [waiter EXCEPT ![c] = IF cmd = c THEN "stop" ELSE "done"]
  /\ UNCHANGED <<test, manager, command, events, log>>

WaiterLock(c) ==
  /\ waiter[c] = "lock" /\ mu = Free
  /\ IF cmd = c
       THEN mu' = c /\ waiter' = [waiter EXCEPT ![c] = "stop"]
       ELSE mu' = mu /\ waiter' = [waiter EXCEPT ![c] = "done"]
  /\ UNCHANGED <<test, manager, command, events, log>>

WaiterStop(c) ==
  /\ waiter[c] = "stop"
  /\ Notify("Stop")
  /\ cmd' = NoCmd /\ mu' = Free
  /\ waiter' = [waiter EXCEPT ![c] = "done"]
  /\ UNCHANGED <<test, installed, command>>

TestStep ==
  \/ Drain \/ Lock \/ Installed \/ NothingToDo
  \/ RunCommandFails \/ RunCommandEnds \/ RunCommandRuns
  \/ Kill \/ Waited \/ Delete \/ Send \/ Sent

WaiterStep(c) ==
  \/ KilledEnds(c) \/ WaiterWakes(c) \/ WaiterError(c)
  \/ WaiterLock(c) \/ WaiterStop(c)

Next ==
  \/ TestStep
  \/ \E o \in Operations : Call(o)
  \/ \E c \in Cmds : WaiterStep(c) \/ EndsOfItself(c)

(* The test reads the events and the goroutines run; sync.Mutex and the      *)
(* channel let nobody wait for ever who waits among others that come and go. *)
Spec ==
  /\ Init /\ [][Next]_vars
  /\ SF_vars(TestStep) /\ \A c \in Cmds : SF_vars(WaiterStep(c))

-----------------------------------------------------------------------------
(* What the events say: nothing was installed before the first.             *)
Before(i) == IF i = 1 THEN "Remove" ELSE log[i - 1]
Now       == Before(Len(log) + 1)

Follows ==
  {<<"Remove", "Install">>, <<"Install", "Start">>, <<"Install", "Remove">>,
   <<"Start", "Stop">>, <<"Stop", "Start">>, <<"Stop", "Remove">>}

(* A test can go by the events: each Start is followed by one Stop, "the     *)
(* service will always be stopped first" when it is removed                  *)
(* (hooktest/service.go:127), whoever notices the end of the command first;  *)
(* and when nobody holds the mutex they agree with what Running would say    *)
(* and no command runs that the service manager has forgotten.               *)
EventsTellTheState ==
  /\ \A i \in 1 .. Len(log) : <<Before(i), log[i]>> \in Follows
  /\ mu = Free =>
       /\ installed <=> Now # "Remove"
       /\ cmd # NoCmd <=> Now = "Start"
       /\ \A c \in Cmds : life[c] \in {"running", "killed"} => cmd = c

(* With a channel of the size that hooktest/service.go:20 asks for ("at      *)
(* least 2") every operation returns, and the goroutines of ended commands   *)
(* end, although they compete for the mutex and for the room in the channel. *)
OperationsReturn ==
  /\ (~Idle) ~> Idle
  /\ \A c \in Cmds : (life[c] = "ended") ~> (waiter[c] = "done")

(* They do so whatever the size, but for one reason: an operation and a      *)
(* goroutine may send more than the channel has room for, and the test that  *)
(* waits for the operation cannot read it.  No order in which they take the  *)
(* mutex leaves anyone waiting for anything else.                            *)
ChannelFull == ~Idle /\ Len(events) = Cap

OnlyTheChannelBlocks ==
  /\ (~Idle) ~> (Idle \/ []ChannelFull)
  /\ \A c \in Cmds :
       (life[c] = "ended") ~> (waiter[c] = "done" \/ []ChannelFull)
=============================================================================
