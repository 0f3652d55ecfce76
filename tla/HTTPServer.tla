----------------------------- MODULE HTTPServer -----------------------------
(* The server process of httpservice (charmbits/httpservice/server.go) with  *)
(* the field setter of mongodbrelation.                                      *)
(*                                                                           *)
(* The process is started by the operating system.  It sets itself up from   *)
(* serverstate.json and then serves one RPC, Set, by which the hooks of the  *)
(* charm tell it the ports, the certificate, the argument and the relation   *)
(* values to serve with.  Set holds a mutex for all of its steps; the steps  *)
(* are apart here because HTTP requests are served, the process may be       *)
(* killed and the file may be read again between any two of them.            *)
EXTENDS Naturals, FiniteSets

CONSTANTS
  NumFields,  \* fields of the handler's relation struct, all *mgo.Session
  Urls,       \* what a relation's data says
  Args,       \* values of Start's argument
  Certs,      \* certificates, of which
  BadCerts,   \* these do not parse
  Ports,      \* ports a charm may be configured with
  Requests,   \* the server states that hooks ask for
  Callers,    \* the RPC connections that may be open together
  Faults,     \* which operations may fail: "dial", "handler", "listen", "save"
  Nil,        \* no session, no handler, no request, no certificate, no data
  Torn,       \* a serverstate.json that is truncated
  Absent      \* no serverstate.json

NoPort == 0
Fields == 1 .. NumFields

ServerState ==
  [http : Ports \cup {NoPort}, https : Ports \cup {NoPort},
   cert : Certs \cup {Nil}, arg : Args \cup {Nil},
   rels : [Fields -> Urls \cup {Nil}]]

ZeroState ==
  [http |-> NoPort, https |-> NoPort, cert |-> Nil, arg |-> Nil,
   rels |-> [i \in Fields |-> Nil]]

(* What a handler is started with.                                           *)
Handlers == [arg : Args \cup {Nil}, rels : [Fields -> Urls \cup {Nil}]]

Boot == "boot"      \* set is called by startServer, not by an RPC

ASSUME ServerAssumption ==
  /\ NumFields \in Nat
  /\ Ports \subseteq Nat \ {NoPort}
  /\ Nil \notin Handlers \cup ServerState /\ Boot \notin Callers
  /\ Nil \notin Urls \cup Args \cup Certs \cup Callers
  /\ BadCerts \subseteq Certs
  /\ Requests \subseteq ServerState
  /\ Torn \notin ServerState /\ Absent \notin ServerState /\ Torn # Absent
  /\ Faults \subseteq {"dial", "handler", "listen", "save"}

VARIABLES
  life,      \* the process: "down", "starting", "up" or "dying"
  file,      \* serverstate.json
  pending,   \* the Set each connection waits for
  \* Inside Set, with srv.mu held:
  pc,        \* the next step; "idle" when srv.mu is free
  by,        \* who called
  cur,       \* the state asked for
  i,         \* the field whose setter is next
  restart,   \* has a setter returned ErrRestartNeeded?
  warned,    \* has the feedback got a warning?
  \* The server:
  st,        \* srv.state
  relValid,  \* srv.relationState.IsValid()
  rel,       \* the sessions in srv.relationState's fields
  handler,   \* srv.handler: the argument and sessions it was started with
  hl, sl,    \* srv.httpListener's port, srv.httpsListener's port and cert
  \* History, read by the properties and by no action:
  quiet,     \* the last set ended with no warning and was saved
  open,      \* sessions dialled and not closed
  live,      \* handlers started and not closed
  stranded,  \* the relation struct was left filled by a handler's failure
  refused    \* the last start failed because of the file

inset  == <<by, cur, i, restart, warned>>
server == <<st, relValid, rel, handler, hl, sl, open, live, stranded>>
vars   == <<life, file, pending, pc, inset, server, quiet, refused>>

NoListener == [port |-> NoPort, cert |-> Nil]
NoSessions == [f \in Fields |-> Nil]

TypeOK ==
  /\ life \in {"down", "starting", "up", "dying"}
  /\ file \in ServerState \cup {Torn, Absent}
  /\ pending \in [Callers -> ServerState \cup {Nil}]
  /\ pc \in {"idle", "set", "fields", "decide", "refill", "handler",
             "http", "https", "store", "write"}
  /\ by \in Callers \cup {Boot}
  /\ cur \in ServerState /\ st \in ServerState
  /\ i \in 1 .. NumFields + 1
  /\ restart \in BOOLEAN /\ warned \in BOOLEAN
  /\ relValid \in BOOLEAN
  /\ rel \in [Fields -> Urls \cup {Nil}]
  /\ handler \in Handlers \cup {Nil}
  /\ hl \in Ports \cup {NoPort}
  /\ sl \in [port : Ports \cup {NoPort}, cert : Certs \cup {Nil}]
  /\ quiet \in BOOLEAN /\ refused \in BOOLEAN /\ stranded \in BOOLEAN
  /\ open \in Nat /\ live \in 0 .. 1

Init ==
  /\ life = "down" /\ file = Absent
  /\ pending = [c \in Callers |-> Nil]
  /\ pc = "idle" /\ by = Boot /\ cur = ZeroState /\ i = 1
  /\ restart = FALSE /\ warned = FALSE
  /\ st = ZeroState /\ relValid = FALSE /\ rel = NoSessions
  /\ handler = Nil /\ hl = NoPort /\ sl = NoListener
  /\ quiet = FALSE /\ open = 0 /\ live = 0
  /\ stranded = FALSE /\ refused = FALSE

-----------------------------------------------------------------------------
(* Conditions of the code.                                                   *)

HttpOK(s)  == s.http # NoPort
HttpsOK(s) == s.https # NoPort /\ s.cert # Nil
Serveable(s) == HttpOK(s) \/ HttpsOK(s)

Incomplete(s) == \E f \in Fields : s.rels[f] = Nil

NeedsRestart(s) ==
  \/ s.http # st.http
  \/ s.https # st.https
  \/ s.cert # st.cert
  \/ s.arg # st.arg

(* srv.relationState.Field(0).Addr(): whatever the field, the setter is      *)
(* given the first one.                                                      *)
FieldSlot(f) == 1

(* finalizeFields: every setter is called with no data, which closes the     *)
(* session in the slot it is given.                                          *)
Finalized == {f \in {FieldSlot(g) : g \in Fields} : rel[f] # Nil}

(* Listeners first, then the handler, then the relation values.              *)
CloseResourcesNoFinalize ==                              \* a mutant
  /\ hl' = NoPort /\ sl' = NoListener
  /\ handler' = Nil
  /\ live' = IF handler # Nil THEN live - 1 ELSE live
  /\ open' = open /\ rel' = NoSessions /\ relValid' = FALSE
  /\ stranded' = FALSE

CloseResources ==
  /\ hl' = NoPort /\ sl' = NoListener
  /\ handler' = Nil
  /\ live' = IF handler # Nil THEN live - 1 ELSE live
  /\ open' = open - Cardinality(Finalized)
  /\ rel' = NoSessions /\ relValid' = FALSE
  /\ stranded' = FALSE

Warn == warned' = TRUE

-----------------------------------------------------------------------------
(* The process and its callers.                                              *)

Begin(caller, s) ==
  /\ pc' = "set" /\ by' = caller /\ cur' = s
  /\ i' = 1 /\ restart' = FALSE /\ warned' = FALSE
  /\ quiet' = FALSE

(* startServer: load the state and set it before the RPC socket listens.     *)
Start ==
  /\ life = "down" /\ file # Torn
  /\ life' = "starting" /\ refused' = FALSE
  /\ Begin(Boot, IF file = Absent THEN ZeroState ELSE file)
  /\ UNCHANGED <<file, pending, server>>

(* "cannot load state": the process exits at once.                           *)
StartUnreadable ==
  /\ life = "down" /\ file = Torn
  /\ refused' = TRUE
  /\ UNCHANGED <<life, file, pending, pc, inset, server, quiet>>

(* A hook calls Set.  The hook may be killed before it is answered, and the  *)
(* next hook call Set while the first is still at work.                      *)
CallSetWhileDying(c, s) ==                               \* a mutant
  /\ life \in {"up", "dying"} /\ pending[c] = Nil
  /\ pending' = [pending EXCEPT ![c] = s]
  /\ UNCHANGED <<life, file, pc, inset, server, quiet, refused>>

CallSet(c, s) ==
  /\ life = "up" /\ pending[c] = Nil
  /\ pending' = [pending EXCEPT ![c] = s]
  /\ UNCHANGED <<life, file, pc, inset, server, quiet, refused>>

LockSetUnlocked(c) ==                                    \* a mutant
  /\ life \in {"up", "dying"} /\ pending[c] # Nil
  /\ Begin(c, pending[c])
  /\ UNCHANGED <<life, file, pending, server, refused>>

LockSet(c) ==
  /\ life \in {"up", "dying"} /\ pc = "idle" /\ pending[c] # Nil
  /\ Begin(c, pending[c])
  /\ UNCHANGED <<life, file, pending, server, refused>>

(* Kill: the RPC listener is closed, so that there are no new calls ...      *)
Kill ==
  /\ life = "up"
  /\ life' = "dying"
  /\ UNCHANGED <<file, pending, pc, inset, server, quiet, refused>>

(* ... and once the calls in progress have been answered all is closed.      *)
ShutdownEarly ==                                         \* a mutant
  /\ life = "dying" /\ pc = "idle"
  /\ CloseResources
  /\ life' = "down"
  /\ st' = ZeroState
  /\ UNCHANGED <<file, pending, pc, inset, quiet, refused>>

Shutdown ==
  /\ life = "dying" /\ pc = "idle"
  /\ \A c \in Callers : pending[c] = Nil
  /\ CloseResources
  /\ life' = "down"
  /\ st' = ZeroState
  /\ UNCHANGED <<file, pending, pc, inset, quiet, refused>>

(* The operating system stops the process, or the machine crashes: nothing   *)
(* in memory survives, and callers see their connection close.               *)
Terminate ==
  /\ life # "down"
  /\ life' = "down" /\ pc' = "idle"
  /\ pending' = [c \in Callers |-> Nil]
  /\ st' = ZeroState /\ relValid' = FALSE /\ rel' = NoSessions
  /\ handler' = Nil /\ hl' = NoPort /\ sl' = NoListener
  /\ open' = 0 /\ live' = 0 /\ stranded' = FALSE /\ quiet' = FALSE
  /\ UNCHANGED <<file, inset, refused>>

-----------------------------------------------------------------------------
(* set                                                                       *)

Local == UNCHANGED <<life, file, pending, by, cur, quiet, refused>>

SetNothingToServe ==
  /\ pc = "set" /\ ~Serveable(cur)
  /\ CloseResources
  /\ pc' = "store"
  /\ Local /\ UNCHANGED <<i, restart, warned, st>>

(* setRelations makes a new struct if there is none, and gives up if a       *)
(* relation has no data.                                                     *)
SetIncompleteKeepsServing ==                             \* a mutant
  /\ pc = "set" /\ Serveable(cur) /\ Incomplete(cur)
  /\ Warn /\ pc' = "store"
  /\ Local
  /\ UNCHANGED <<i, restart, st, relValid, rel, handler, hl, sl, open, live,
                 stranded>>

SetIncomplete ==
  /\ pc = "set" /\ Serveable(cur) /\ Incomplete(cur)
  /\ CloseResources
  /\ Warn /\ pc' = "store"
  /\ Local /\ UNCHANGED <<i, restart, st>>

SetRelations ==
  /\ pc = "set" /\ Serveable(cur) /\ ~Incomplete(cur)
  /\ relValid' = (NumFields > 0)
  /\ pc' = "fields"
  /\ Local
  /\ UNCHANGED <<i, restart, warned, st, rel, handler, hl, sl, open, live,
                 stranded>>

(* setFieldValue of mongodbrelation on a field that holds a session.         *)
SetterCloses ==
  /\ pc \in {"fields", "refill"} /\ i <= NumFields
  /\ rel[FieldSlot(i)] # Nil
  /\ rel' = [rel EXCEPT ![FieldSlot(i)] = Nil]
  /\ open' = open - 1
  /\ restart' = TRUE /\ i' = i + 1
  /\ Local
  /\ UNCHANGED <<pc, warned, st, relValid, handler, hl, sl, live, stranded>>

SetterDials ==
  /\ pc \in {"fields", "refill"} /\ i <= NumFields
  /\ rel[FieldSlot(i)] = Nil
  /\ rel' = [rel EXCEPT ![FieldSlot(i)] = cur.rels[i]]
  /\ open' = open + 1 /\ i' = i + 1
  /\ Local
  /\ UNCHANGED <<pc, restart, warned, st, relValid, handler, hl, sl, live,
                 stranded>>

(* A dial that fails ends setRelations; set closes everything if it was the  *)
(* first call and just warns if it was the second.                           *)
DialFailsQuietly ==                                      \* a mutant
  /\ "dial" \in Faults
  /\ pc \in {"fields", "refill"} /\ i <= NumFields
  /\ rel[FieldSlot(i)] = Nil
  /\ \/ pc = "fields" /\ CloseResources
     \/ /\ pc = "refill"
        /\ UNCHANGED <<relValid, rel, handler, hl, sl, open, live, stranded>>
  /\ pc' = "store"
  /\ Local /\ UNCHANGED <<i, restart, warned, st>>

DialFails ==
  /\ "dial" \in Faults
  /\ pc \in {"fields", "refill"} /\ i <= NumFields
  /\ rel[FieldSlot(i)] = Nil
  /\ \/ pc = "fields" /\ CloseResources
     \/ /\ pc = "refill"
        /\ UNCHANGED <<relValid, rel, handler, hl, sl, open, live, stranded>>
  /\ Warn /\ pc' = "store"
  /\ Local /\ UNCHANGED <<i, restart, st>>

NothingToDo == ~restart /\ ~NeedsRestart(cur) /\ handler # Nil

SetUnchanged ==
  /\ pc = "fields" /\ i = NumFields + 1
  /\ NothingToDo
  /\ pc' = "store"
  /\ Local /\ UNCHANGED <<i, restart, warned, server>>

(* Close a running handler with all its resources.                           *)
SetRestarts ==
  /\ pc = "fields" /\ i = NumFields + 1
  /\ ~NothingToDo
  /\ pc' = "decide"
  /\ IF handler # Nil THEN CloseResources
     ELSE UNCHANGED <<relValid, rel, handler, hl, sl, open, live, stranded>>
  /\ Local /\ UNCHANGED <<i, restart, warned, st>>

(* Fill in a new relation struct if the old one was just destroyed.          *)
Refill ==
  /\ pc = "decide"
  /\ \/ relValid /\ pc' = "handler" /\ UNCHANGED <<i, restart, relValid>>
     \/ /\ ~relValid
        /\ pc' = "refill" /\ i' = 1 /\ restart' = FALSE
        /\ relValid' = (NumFields > 0)
  /\ Local
  /\ UNCHANGED <<warned, st, rel, handler, hl, sl, open, live, stranded>>

RefillDone ==
  /\ pc = "refill" /\ i = NumFields + 1
  /\ \/ ~restart /\ pc' = "handler" /\ UNCHANGED warned
     \/ restart /\ pc' = "store" /\ Warn
  /\ Local /\ UNCHANGED <<i, restart, server>>

(* handlerInfo.handler calls the charm's handler function.                   *)
HandlerStarts ==
  /\ pc = "handler"
  /\ pc' = "http" /\ live' = live + 1
  /\ Local
  /\ UNCHANGED <<i, restart, warned, st, relValid, rel, handler, hl, sl, open,
                 stranded>>

(* It fails, and set returns: the struct stays filled, and there is no       *)
(* handler to close it with.                                                 *)
HandlerFails ==
  /\ "handler" \in Faults
  /\ pc = "handler"
  /\ Warn /\ pc' = "store"
  /\ stranded' = (NumFields > 0)
  /\ Local
  /\ UNCHANGED <<i, restart, st, relValid, rel, handler, hl, sl, open, live>>

(* A listener is started when the state asks for one and there is none.      *)
HttpWanted  == HttpOK(cur) /\ hl = NoPort
HttpsWanted == HttpsOK(cur) /\ sl = NoListener

ListenHTTP ==
  /\ pc = "http"
  /\ pc' = "https"
  /\ \/ HttpWanted /\ hl' = cur.http /\ UNCHANGED warned
     \/ HttpWanted /\ "listen" \in Faults /\ Warn /\ UNCHANGED hl
     \/ ~HttpWanted /\ UNCHANGED <<hl, warned>>
  /\ Local
  /\ UNCHANGED <<i, restart, st, relValid, rel, handler, sl, open, live,
                 stranded>>

(* The certificate is parsed before the port is bound, and a port that the   *)
(* HTTP listener has just bound cannot be bound again.  Whether or not the   *)
(* listeners are there, set ends by recording the handler and the state.     *)
ListenHTTPS ==
  /\ pc = "https"
  /\ pc' = "store"
  /\ \/ /\ HttpsWanted /\ cur.cert \notin BadCerts /\ cur.https # hl
        /\ sl' = [port |-> cur.https, cert |-> cur.cert] /\ UNCHANGED warned
     \/ /\ HttpsWanted
        /\ cur.cert \in BadCerts \/ cur.https = hl \/ "listen" \in Faults
        /\ Warn /\ UNCHANGED sl
     \/ ~HttpsWanted /\ UNCHANGED <<sl, warned>>
  /\ handler' = [arg |-> cur.arg, rels |-> rel]
  /\ st' = cur
  /\ Local
  /\ UNCHANGED <<i, restart, relValid, rel, hl, open, live, stranded>>

-----------------------------------------------------------------------------
(* What the callers of set do once it has returned.                          *)

Answer(ok) ==
  /\ pc' = "idle"
  /\ pending' = IF by = Boot THEN pending ELSE [pending EXCEPT ![by] = Nil]
  /\ quiet' = (ok /\ ~warned)

(* startServer shows the warnings and opens the RPC socket.                  *)
BootDone ==
  /\ pc = "store" /\ by = Boot
  /\ life' = "up" /\ Answer(TRUE)
  /\ UNCHANGED <<file, inset, server, refused>>

(* Set records the state, whatever set made of it, and saves it.             *)
StoreOpen ==
  /\ pc = "store" /\ by # Boot
  /\ st' = cur /\ file' = Torn /\ pc' = "write"
  /\ UNCHANGED <<life, pending, inset, relValid, rel, handler, hl, sl, open,
                 live, stranded, quiet, refused>>

StoreWrite ==
  /\ pc = "write"
  /\ file' = cur /\ Answer(TRUE)
  /\ UNCHANGED <<life, inset, server, refused>>

(* The file cannot be opened, or cannot be written.                          *)
StoreFails ==
  /\ "save" \in Faults
  /\ \/ pc = "store" /\ by # Boot /\ st' = cur
     \/ pc = "write" /\ UNCHANGED st
  /\ Answer(FALSE)
  /\ UNCHANGED <<life, file, inset, relValid, rel, handler, hl, sl, open, live,
                 stranded, refused>>

SetStep ==
  \/ SetNothingToServe \/ SetIncomplete \/ SetRelations
  \/ SetterCloses \/ SetterDials \/ DialFails
  \/ SetUnchanged \/ SetRestarts \/ Refill \/ RefillDone
  \/ HandlerStarts \/ HandlerFails \/ ListenHTTP \/ ListenHTTPS
  \/ BootDone \/ StoreOpen \/ StoreWrite \/ StoreFails

Next ==
  \/ Start \/ StartUnreadable
  \/ (\E c \in Callers, s \in Requests : CallSet(c, s))
  \/ (\E c \in Callers : LockSet(c))
  \/ Kill \/ Shutdown \/ Terminate
  \/ SetStep

(* The goroutine that holds the mutex keeps running, a goroutine that waits  *)
(* for it gets it in the end (sync.Mutex hands it over to a waiter that has  *)
(* waited too long), and so does the one that shuts down.                    *)
Fairness ==
  /\ WF_vars(SetStep)
  /\ \A c \in Callers : SF_vars(LockSet(c))
  /\ WF_vars(Shutdown)

Spec == Init /\ [][Next]_vars /\ Fairness

-----------------------------------------------------------------------------
AtRest == life = "up" /\ pc = "idle"
Listening == hl # NoPort \/ sl # NoListener

(* The server is doing what state s asks for, no more and no less.           *)
Serving(s) ==
  /\ hl = s.http
  /\ sl = IF HttpsOK(s) THEN [port |-> s.https, cert |-> s.cert] ELSE NoListener
  /\ handler = IF Serveable(s) THEN [arg |-> s.arg, rels |-> s.rels] ELSE Nil
  /\ handler # Nil => rel = s.rels

(* A Set answered without a warning or an error has left the server serving  *)
(* exactly the state it asked for, and that state in the file; a start       *)
(* without warnings has left it serving the state in the file.  Not so while *)
(* the struct that a failed handler left filled has not been closed, which   *)
(* is what HandlerGetsRelations is about.                                    *)
QuietSetServes ==
  AtRest /\ quiet =>
    /\ ~stranded => Serving(cur)
    /\ file = cur \/ (by = Boot /\ file = Absent /\ cur = ZeroState)

(* Whatever failed on the way, nothing goes on being served that the last    *)
(* Set did not ask for: no old port, certificate, argument or session (the   *)
(* sessions, with the exception of QuietSetServes).                          *)
NothingStaleServed ==
  AtRest /\ Listening =>
    /\ hl \in {NoPort, cur.http}
    /\ sl \in {NoListener, [port |-> cur.https, cert |-> cur.cert]}
    /\ handler.arg = cur.arg
    /\ ~stranded => handler.rels = cur.rels /\ rel = cur.rels

(* Every session that was dialled is either in a field or closed, every      *)
(* handler that was started is either the current one or closed, listeners   *)
(* have a handler, and a process that was killed has released everything.    *)
ResourcesAccounted ==
  pc = "idle" =>
    /\ open = Cardinality({f \in Fields : rel[f] # Nil})
    /\ live = IF handler # Nil THEN 1 ELSE 0
    /\ Listening => handler # Nil
    /\ life = "down" => open = 0 /\ live = 0

(* Setting the state the server already has does not close the handler, if   *)
(* that has no relations; for the others it is what "setFieldValue ... will  *)
(* be called ... whenever the value returned by getVal changes"              *)
(* (service.go:96-98) says.                                                  *)
UnchangedSetKeepsHandler ==
  [][handler # Nil /\ handler' = Nil /\ life' # "down" => cur # st]_vars

(* Every caller of Set is answered, or sees its connection close.            *)
SetAnswered == \A c \in Callers : pending[c] # Nil ~> pending[c] = Nil

(* Kill brings the process down.                                             *)
KillEnds == life = "dying" ~> life = "down"

(* The handler function is called with "any R argument filled in with the    *)
(* values for any current relations" (service.go:179-182).                   *)
HandlerGetsRelations == pc = "http" => rel = cur.rels

-----------------------------------------------------------------------------
(* What the server shows: a listener serves with the handler that it was     *)
(* started for, which set records only when both listeners have had their    *)
(* turn.                                                                     *)
Phase ==
  CASE life = "down" -> "off"
    [] life # "down" /\ pc = "idle" -> "idle"
    [] life # "down" /\ pc = "write" -> "save"
    [] OTHER -> "work"

Front ==
  [http  |-> hl, https |-> sl,
   arg   |-> IF ~Listening THEN Nil
             ELSE IF pc = "https" THEN cur.arg ELSE handler.arg]

Facade == INSTANCE ServerFront WITH
  phase  <- Phase,
  admits <- life = "up",
  calls  <- pending,
  aim    <- cur,
  front  <- Front,
  disk   <- file

(* The server implements the abstract one: whatever fails, and whoever calls *)
(* in the middle of it, every Set ends with listeners of the state it asked  *)
(* for or with none, no listener of an older state is ever open beside one   *)
(* of a newer or opened again, no call is dropped by Kill, and a start takes *)
(* up the last state that was saved.                                         *)
IsServerFront == Facade!Spec
=============================================================================
