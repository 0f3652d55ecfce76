---------------------------- MODULE ServerFront ----------------------------
(* What the server of httpservice (charmbits/httpservice/server.go) promises *)
(* to those who call it and to those who connect to it, with no relations,   *)
(* handlers, setters or warnings in sight.  Calls are taken one at a time,   *)
(* and a call is answered once the front is made of doors that it asked for, *)
(* all of them or some.  In between, the front goes from the old doors to    *)
(* none and from none to new ones: the old and the new are never open        *)
(* together, and the old are never opened again.  A server that starts takes *)
(* what is on disk for its first call, which is what the last call asked for *)
(* that was saved.                                                           *)

CONSTANTS
  Callers, Requests,
  ZeroState,   \* what a server with nothing on disk starts with
  Boot,        \* who asks for what is on disk
  NoPort, NoListener, Nil, Torn, Absent

VARIABLES
  phase,    \* "off", "idle", "work" at a call, or "save" what it asked for
  admits,   \* may there be new calls?
  calls,    \* what each caller waits for
  by, aim,  \* whose call is worked at, or was last, and what it asks for
  front,    \* the doors that are open, and what is served behind them
  disk      \* what the next start takes

asked == <<calls, admits>>
task  == <<by, aim>>
faced == <<phase, asked, task, front, disk>>

Shut == [http |-> NoPort, https |-> NoListener, arg |-> Nil]

TLSDoor(s) == [port |-> s.https, cert |-> s.cert]

(* A front with no door but those that state s asks for.                     *)
PartOf(f, s) ==
  \/ f = Shut
  \/ /\ f.http \in {NoPort, s.http} /\ f.https \in {NoListener, TLSDoor(s)}
     /\ f.arg = s.arg

Init ==
  /\ phase = "off" /\ admits = FALSE
  /\ calls = [c \in Callers |-> Nil]
  /\ by = Boot /\ aim = ZeroState
  /\ front = Shut /\ disk = Absent

Start ==
  /\ phase = "off" /\ disk # Torn
  /\ phase' = "work" /\ by' = Boot
  /\ aim' = IF disk = Absent THEN ZeroState ELSE disk
  /\ UNCHANGED <<asked, front, disk>>

Call(c, s) ==
  /\ admits /\ calls[c] = Nil
  /\ calls' = [calls EXCEPT ![c] = s]
  /\ UNCHANGED <<phase, admits, task, front, disk>>

Take(c) ==
  /\ phase = "idle" /\ calls[c] # Nil
  /\ phase' = "work" /\ by' = c /\ aim' = calls[c]
  /\ UNCHANGED <<asked, front, disk>>

(* Doors are closed all together, the new ones are opened one by one.        *)
ShutDoors ==
  /\ phase = "work" /\ front' = Shut
  /\ UNCHANGED <<phase, asked, task, disk>>

OpenHTTP ==
  /\ phase = "work" /\ front = Shut /\ aim.http # NoPort
  /\ front' = [http |-> aim.http, https |-> NoListener, arg |-> aim.arg]
  /\ UNCHANGED <<phase, asked, task, disk>>

OpenHTTPS ==
  /\ phase = "work" /\ PartOf(front, aim) /\ front.https = NoListener
  /\ aim.https # NoPort /\ aim.cert # Nil
  /\ front' = [http |-> front.http, https |-> TLSDoor(aim), arg |-> aim.arg]
  /\ UNCHANGED <<phase, asked, task, disk>>

(* The first call is answered by nobody waiting: calls are let in.           *)
Ready ==
  /\ phase = "work" /\ by = Boot /\ PartOf(front, aim)
  /\ phase' = "idle" /\ admits' = TRUE
  /\ UNCHANGED <<calls, task, front, disk>>

Settled == phase = "work" /\ by # Boot /\ PartOf(front, aim)

Tear ==
  /\ Settled
  /\ phase' = "save" /\ disk' = Torn
  /\ UNCHANGED <<asked, task, front>>

Answer ==
  /\ phase' = "idle" /\ calls' = [calls EXCEPT ![by] = Nil]
  /\ UNCHANGED <<admits, task, front>>

Save == phase = "save" /\ disk' = aim /\ Answer

SaveFails == (Settled \/ phase = "save") /\ Answer /\ UNCHANGED disk

Refuse ==
  /\ admits /\ admits' = FALSE
  /\ UNCHANGED <<phase, calls, task, front, disk>>

(* A server that was told to stop answers every call that it let in.         *)
Stop ==
  /\ phase = "idle" /\ ~admits /\ \A c \in Callers : calls[c] = Nil
  /\ phase' = "off" /\ front' = Shut
  /\ UNCHANGED <<asked, task, disk>>

Die ==
  /\ phase # "off"
  /\ phase' = "off" /\ admits' = FALSE /\ calls' = [c \in Callers |-> Nil]
  /\ front' = Shut
  /\ UNCHANGED <<task, disk>>

Next ==
  \/ Start \/ ShutDoors \/ OpenHTTP \/ OpenHTTPS \/ Ready
  \/ Tear \/ Save \/ SaveFails \/ Refuse \/ Stop \/ Die
  \/ \E c \in Callers : Take(c) \/ \E s \in Requests : Call(c, s)

Spec == Init /\ [][Next]_faced
=============================================================================
