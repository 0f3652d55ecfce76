---------------------------- MODULE DurableState ----------------------------
(* What hook/main.go and hook/state.go promise of persistent state, with no  *)
(* loops, registries, functions or crashes in sight: a store of one value    *)
(* per registry and one session with it at a time.  A session sees all of    *)
(* the store at once or none of it, changes what it sees as it likes, and    *)
(* puts it back in place, value by value and in order; it may be cut off at  *)
(* any moment, and says "ok" only if everything was put back.                *)
EXTENDS Naturals

CONSTANTS
  NumRegs,   \* how many values are stored
  Values,
  Zero,      \* what a session sees of a value that was never stored
  Absent,    \* a value that was never stored
  Torn       \* a value that was being replaced when its session was cut off

Slots == 1 .. NumRegs

VARIABLES
  store,     \* the stored values
  stage,     \* the session: "closed", "reading", "open", "sealed" or "torn"
  view,      \* the values as the session sees them
  next,      \* the first value that is not yet put back
  result     \* what the last session said

durable == <<store, stage, view, next, result>>

NoView == [n \in Slots |-> Zero]

Init ==
  /\ store = [n \in Slots |-> Absent]
  /\ stage = "closed" /\ view = NoView /\ next = 1 /\ result = "not"

Begin ==
  /\ stage = "closed"
  /\ stage' = "reading" /\ result' = "not"
  /\ UNCHANGED <<store, view, next>>

(* A session opens only when every stored value can be read.                 *)
Open ==
  /\ stage = "reading"
  /\ \A n \in Slots : store[n] # Torn
  /\ stage' = "open"
  /\ view' = [n \in Slots |-> IF store[n] = Absent THEN Zero ELSE store[n]]
  /\ UNCHANGED <<store, next, result>>

Change ==
  /\ stage = "open"
  /\ view' \in [Slots -> Values]
  /\ stage' \in {"open", "sealed"}
  /\ UNCHANGED <<store, next, result>>

(* A value is unreadable while it is replaced.                               *)
Tear ==
  /\ stage = "sealed" /\ next \in Slots
  /\ store' = [store EXCEPT ![next] = Torn]
  /\ stage' = "torn"
  /\ UNCHANGED <<view, next, result>>

Replace ==
  /\ stage = "torn"
  /\ store' = [store EXCEPT ![next] = view[next]]
  /\ stage' = "sealed" /\ next' = next + 1
  /\ UNCHANGED <<view, result>>

(* The end of a session, cut off or not, leaves the store as it is.          *)
Close ==
  /\ stage # "closed"
  /\ stage' = "closed" /\ view' = NoView /\ next' = 1
  /\ result' \in {"not"} \cup
       (IF stage = "sealed" /\ next = NumRegs + 1 THEN {"ok"} ELSE {})
  /\ UNCHANGED store

Next == Begin \/ Open \/ Change \/ Tear \/ Replace \/ Close

Spec == Init /\ [][Next]_durable
=============================================================================
