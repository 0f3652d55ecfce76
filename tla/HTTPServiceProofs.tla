------------------------- MODULE HTTPServiceProofs -------------------------
(* Proofs about HTTPServer and about HTTPService, which extends it.          *)
(*                                                                           *)
(* The server: types and the account of the resources hold for every value   *)
(* of the constants; what is served is proved for handlers with at most one  *)
(* relation, since all setters share the first field.  The lemmas are about  *)
(* ServerSafety, the server without its fairness, for the hooks to use.      *)
(*                                                                           *)
(* The hooks: they drive the server only in ways that it allows, so that all *)
(* that is proved of the server holds with them, and once they are done the  *)
(* last state that the server was set to is the wanted one.                  *)
EXTENDS HTTPService, FiniteSetTheorems, TLAPS

ServerSafety == Init /\ [][Next]_vars

(* The steps of set with a complete state, and those after the old handler   *)
(* is gone.                                                                  *)
Rebuilding == {"decide", "refill", "handler", "http", "https"}
Working    == Rebuilding \cup {"fields"}

(* Only the first field ever holds a session, and that one is open; a        *)
(* handler is running when srv.handler says so or set has just started it;   *)
(* there are listeners only for a handler, but for the HTTP one that set     *)
(* starts before it records the handler; a process that is down has nothing. *)
ResInv ==
  /\ \A f \in Fields : f # 1 => rel[f] = Nil
  /\ open = IF 1 \in Fields /\ rel[1] # Nil THEN 1 ELSE 0
  /\ live = IF handler # Nil \/ pc \in {"http", "https"} THEN 1 ELSE 0
  /\ pc \in Rebuilding => handler = Nil
  /\ handler = Nil /\ pc # "https" => hl = NoPort
  /\ handler = Nil => sl = NoListener
  /\ pc \in Working => Serveable(cur) /\ ~Incomplete(cur)
  /\ life = "down" => pc = "idle" /\ handler = Nil /\ rel = NoSessions

(* The session that closing everything closes is the one in the first field. *)
LEMMA FinalizedCounts ==
  ASSUME TypeOK
  PROVE  Cardinality(Finalized) = IF 1 \in Fields /\ rel[1] # Nil THEN 1 ELSE 0
<1>1. CASE 1 \in Fields /\ rel[1] # Nil
  <2>1. Finalized = {1}
    BY <1>1 DEF Finalized, FieldSlot
  <2> QED BY <1>1, <2>1, FS_Singleton
<1>2. CASE ~(1 \in Fields /\ rel[1] # Nil)
  <2>1. \A g \in Fields : 1 \in Fields
    BY ServerAssumption DEF Fields
  <2>2. Finalized = {}
    BY <1>2, <2>1 DEF Finalized, FieldSlot
  <2> QED BY <1>2, <2>2, FS_EmptySet
<1> QED BY <1>1, <1>2

(* The sessions in fields are those of the account: none but the first.      *)
LEMMA HeldCounts ==
  ASSUME TypeOK, ResInv
  PROVE  open = Cardinality({f \in Fields : rel[f] # Nil})
<1> DEFINE held == {f \in Fields : rel[f] # Nil}
<1>1. CASE 1 \in Fields /\ rel[1] # Nil
  <2>1. held = {1}
    BY <1>1 DEF ResInv
  <2> QED BY <1>1, <2>1, FS_Singleton DEF ResInv
<1>2. CASE ~(1 \in Fields /\ rel[1] # Nil)
  <2>1. held = {}
    BY <1>2 DEF ResInv
  <2> QED BY <1>2, <2>1, FS_EmptySet DEF ResInv
<1> QED BY <1>1, <1>2

(* Closing everything outside of the moment in which a handler is started    *)
(* leaves nothing open.                                                      *)
LEMMA CloseLeavesNothing ==
  ASSUME TypeOK, ResInv, CloseResources, pc \notin {"http", "https"}
  PROVE  /\ hl' = NoPort /\ sl' = NoListener
         /\ handler' = Nil /\ live' = 0
         /\ rel' = NoSessions /\ relValid' = FALSE /\ open' = 0
<1>1. open' = open - Cardinality(Finalized)
  BY DEF CloseResources
<1>2. open' = 0
  BY <1>1, FinalizedCounts DEF ResInv
<1> QED BY <1>2 DEF CloseResources, ResInv

(* ... which is a state that the account allows wherever set goes on.        *)
LEMMA NothingIsAccounted ==
  ASSUME hl' = NoPort, sl' = NoListener, handler' = Nil, live' = 0,
         rel' = NoSessions, open' = 0, pc' \notin {"http", "https"},
         pc' \in Working => Serveable(cur') /\ ~Incomplete(cur'),
         life' = "down" => pc' = "idle"
  PROVE  ResInv'
BY DEF ResInv, NoSessions, Serveable, HttpOK, HttpsOK, Incomplete

(* Every step keeps the account right.                                       *)
LEMMA ResNext ==
  ASSUME TypeOK, ResInv, [Next]_vars
  PROVE  ResInv'
<1> USE DEF Working, Rebuilding
<1>1. CASE Start \/ \E c \in Callers : LockSet(c)
  <2>1. /\ pc = "idle" /\ pc' = "set" /\ life' # "down"
        /\ UNCHANGED server
    BY <1>1 DEF Start, LockSet, Begin, ResInv
  <2> QED BY <2>1 DEF ResInv, server
<1>2. CASE StartUnreadable \/ Kill \/ \E c \in Callers, s \in Requests : CallSet(c, s)
  <2>1. UNCHANGED <<pc, cur, server>> /\ (life' = "down" => life = "down")
    BY <1>2 DEF StartUnreadable, CallSet, Kill, inset
  <2> QED BY <2>1 DEF ResInv, server, Serveable, HttpOK, HttpsOK, Incomplete
<1>3. CASE Shutdown
  <2>1. pc = "idle" /\ CloseResources /\ pc' = "idle"
    BY <1>3 DEF Shutdown
  <2> QED BY <2>1, CloseLeavesNothing, NothingIsAccounted
<1>4. CASE Terminate
  <2>1. /\ hl' = NoPort /\ sl' = NoListener /\ handler' = Nil /\ live' = 0
        /\ rel' = NoSessions /\ open' = 0 /\ pc' = "idle"
    BY <1>4 DEF Terminate
  <2> QED BY <2>1, NothingIsAccounted
<1>5. CASE SetNothingToServe \/ SetIncomplete
  <2>1. pc = "set" /\ CloseResources /\ pc' = "store" /\ life' = life
    BY <1>5 DEF SetNothingToServe, SetIncomplete, Local
  <2>2. life' # "down"
    BY <2>1 DEF ResInv
  <2> QED BY <2>1, <2>2, CloseLeavesNothing, NothingIsAccounted
<1>6. CASE SetRelations
  <2>1. /\ pc = "set" /\ pc' = "fields" /\ Serveable(cur) /\ ~Incomplete(cur)
        /\ UNCHANGED <<rel, open, handler, live, hl, sl, cur, life>>
    BY <1>6 DEF SetRelations, Local
  <2> QED BY <2>1 DEF ResInv, Serveable, HttpOK, HttpsOK, Incomplete
<1>7. CASE SetterCloses
  <2>1. /\ pc \in {"fields", "refill"} /\ rel[1] # Nil /\ 1 \in Fields
        /\ rel' = [rel EXCEPT ![1] = Nil] /\ open' = open - 1
        /\ UNCHANGED <<pc, handler, live, hl, sl, cur, life>>
    BY <1>7, ServerAssumption DEF SetterCloses, Local, FieldSlot, Fields, TypeOK
  <2>2. rel'[1] = Nil /\ \A f \in Fields : f # 1 => rel'[f] = Nil
    BY <2>1 DEF ResInv, TypeOK
  <2>3. open' = 0
    BY <2>1 DEF ResInv
  <2> QED BY <2>1, <2>2, <2>3
          DEF ResInv, Serveable, HttpOK, HttpsOK, Incomplete
<1>8. CASE SetterDials
  <2>1. /\ pc \in {"fields", "refill"} /\ rel[1] = Nil /\ 1 \in Fields
        /\ i \in Fields
        /\ rel' = [rel EXCEPT ![1] = cur.rels[i]] /\ open' = open + 1
        /\ UNCHANGED <<pc, handler, live, hl, sl, cur, life>>
    BY <1>8, ServerAssumption DEF SetterDials, Local, FieldSlot, Fields, TypeOK
  <2>2. rel'[1] # Nil /\ \A f \in Fields : f # 1 => rel'[f] = Nil
    BY <2>1 DEF ResInv, TypeOK, Incomplete
  <2>3. open' = 1
    BY <2>1 DEF ResInv
  <2> QED BY <2>1, <2>2, <2>3
          DEF ResInv, Serveable, HttpOK, HttpsOK, Incomplete
<1>9. CASE DialFails
  <2>1. pc \in {"fields", "refill"} /\ pc' = "store" /\ UNCHANGED life
    BY <1>9 DEF DialFails, Local
  <2>2. CASE pc = "fields"
    <3>1. CloseResources /\ life' # "down"
      BY <1>9, <2>1, <2>2 DEF DialFails, ResInv
    <3> QED BY <2>1, <2>2, <3>1, CloseLeavesNothing, NothingIsAccounted
  <2>3. CASE pc = "refill"
    <3>1. UNCHANGED <<rel, handler, hl, sl, open, live>>
      BY <1>9, <2>3 DEF DialFails
    <3> QED BY <2>1, <2>3, <3>1 DEF ResInv
  <2> QED BY <2>1, <2>2, <2>3
<1>10. CASE SetUnchanged
  BY <1>10 DEF SetUnchanged, Local, server, ResInv
<1>11. CASE SetRestarts
  <2>1. pc = "fields" /\ pc' = "decide" /\ UNCHANGED <<cur, life>>
    BY <1>11 DEF SetRestarts, Local
  <2>2. /\ Serveable(cur') /\ ~Incomplete(cur') /\ life' # "down"
    BY <2>1 DEF ResInv, Serveable, HttpOK, HttpsOK, Incomplete
  <2>3. CASE handler # Nil
    <3>1. CloseResources
      BY <1>11, <2>3 DEF SetRestarts
    <3> QED BY <2>1, <2>2, <3>1, CloseLeavesNothing, NothingIsAccounted
  <2>4. CASE handler = Nil
    <3>1. UNCHANGED <<rel, handler, hl, sl, open, live>>
      BY <1>11, <2>4 DEF SetRestarts
    <3> QED BY <2>1, <2>2, <2>4, <3>1 DEF ResInv
  <2> QED BY <2>3, <2>4
<1>12. CASE Refill
  <2>1. /\ pc = "decide" /\ pc' \in {"handler", "refill"}
        /\ UNCHANGED <<rel, handler, hl, sl, open, live, cur, life>>
    BY <1>12 DEF Refill, Local
  <2> QED BY <2>1 DEF ResInv, Serveable, HttpOK, HttpsOK, Incomplete
<1>13. CASE RefillDone
  <2>1. /\ pc = "refill" /\ pc' \in {"handler", "store"}
        /\ UNCHANGED <<rel, handler, hl, sl, open, live, cur, life>>
    BY <1>13 DEF RefillDone, Local, server
  <2> QED BY <2>1 DEF ResInv, Serveable, HttpOK, HttpsOK, Incomplete
<1>14. CASE HandlerStarts
  <2>1. /\ pc = "handler" /\ pc' = "http" /\ live' = live + 1
        /\ UNCHANGED <<rel, handler, hl, sl, open, cur, life>>
    BY <1>14 DEF HandlerStarts, Local
  <2> QED BY <2>1 DEF ResInv, Serveable, HttpOK, HttpsOK, Incomplete
<1>15. CASE HandlerFails
  BY <1>15 DEF HandlerFails, Local, server, ResInv
<1>16. CASE ListenHTTP
  <2>1. /\ pc = "http" /\ pc' = "https"
        /\ UNCHANGED <<rel, handler, sl, open, live, cur, life>>
    BY <1>16 DEF ListenHTTP, Local
  <2> QED BY <2>1 DEF ResInv, Serveable, HttpOK, HttpsOK, Incomplete
<1>17. CASE ListenHTTPS
  <2>1. /\ pc = "https" /\ pc' = "store"
        /\ handler' = [arg |-> cur.arg, rels |-> rel]
        /\ UNCHANGED <<rel, hl, open, live, cur, life>>
    BY <1>17 DEF ListenHTTPS, Local
  <2>2. handler' # Nil
    BY <2>1, ServerAssumption DEF TypeOK, ServerState, Handlers
  <2> QED BY <2>1, <2>2 DEF ResInv
<1>18. CASE BootDone \/ StoreOpen \/ StoreWrite \/ StoreFails
  <2>1. /\ pc \in {"store", "write"} /\ pc' \in {"idle", "write"}
        /\ life' # "down"
        /\ UNCHANGED <<rel, handler, hl, sl, open, live>>
    BY <1>18 DEF BootDone, StoreOpen, StoreWrite, StoreFails, Answer, ResInv,
                 server
  <2> QED BY <2>1 DEF ResInv
<1>19. CASE UNCHANGED vars
  BY <1>19 DEF vars, inset, server, ResInv, Serveable, HttpOK, HttpsOK,
               Incomplete
<1> QED BY <1>1, <1>2, <1>3, <1>4, <1>5, <1>6, <1>7, <1>8, <1>9, <1>10, <1>11,
           <1>12, <1>13, <1>14, <1>15, <1>16, <1>17, <1>18, <1>19
        DEF Next, SetStep

(* A struct is left filled, or is not.                                       *)
LEMMA StrandedTyped ==
  ASSUME TypeOK, [Next]_vars
  PROVE  stranded' \in BOOLEAN
<1>1. CASE UNCHANGED stranded
  BY <1>1 DEF TypeOK
<1>2. CASE stranded' = FALSE
  BY <1>2, Zenon
<1>3. CASE HandlerFails
  BY <1>3 DEF HandlerFails
<1>4. CASE Shutdown \/ Terminate \/ SetNothingToServe \/ SetIncomplete
  BY <1>2, <1>4
     DEF Shutdown, Terminate, SetNothingToServe, SetIncomplete, CloseResources
<1>5. CASE DialFails \/ SetRestarts
  BY <1>1, <1>2, <1>5 DEF DialFails, SetRestarts, CloseResources
<1>6. CASE \/ Start \/ StartUnreadable \/ Kill
           \/ (\E c \in Callers, s \in Requests : CallSet(c, s))
           \/ (\E c \in Callers : LockSet(c))
  BY <1>1, <1>6 DEF Start, StartUnreadable, Kill, CallSet, LockSet, server
<1>7. CASE \/ SetRelations \/ SetterCloses \/ SetterDials \/ SetUnchanged
           \/ Refill \/ RefillDone \/ HandlerStarts \/ ListenHTTP \/ ListenHTTPS
  BY <1>1, <1>7
     DEF SetRelations, SetterCloses, SetterDials, SetUnchanged, Refill,
         RefillDone, HandlerStarts, ListenHTTP, ListenHTTPS, server
<1>8. CASE \/ BootDone \/ StoreOpen \/ StoreWrite \/ StoreFails
           \/ UNCHANGED vars
  BY <1>1, <1>8 DEF BootDone, StoreOpen, StoreWrite, StoreFails, vars, server
<1> QED BY <1>3, <1>4, <1>5, <1>6, <1>7, <1>8 DEF Next, SetStep

(* Every step keeps the state well typed: what set works with is what a hook *)
(* asked for or the file held, and its loop stays within the fields.         *)
LEMMA TypeNext ==
  ASSUME TypeOK, ResInv, ResInv', [Next]_vars
  PROVE  TypeOK'
<1> USE DEF TypeOK
<1>0. open' \in Nat /\ live' \in 0 .. 1 /\ stranded' \in BOOLEAN
  BY StrandedTyped DEF ResInv
<1>a. 1 \in 1 .. NumFields + 1 /\ i \in Nat
  BY ServerAssumption
<1>b. /\ NoPort \in Ports \cup {NoPort}
      /\ NoListener \in [port : Ports \cup {NoPort}, cert : Certs \cup {Nil}]
  BY ServerAssumption DEF NoListener
<1>c. NoSessions \in [Fields -> Urls \cup {Nil}]
  BY DEF NoSessions
<1>d. ZeroState \in ServerState
  BY ServerAssumption DEF ServerState, ZeroState
<1>e. ASSUME hl' \in {hl, NoPort}, sl' \in {sl, NoListener},
             handler' \in {handler, Nil}, rel' \in {rel, NoSessions}
      PROVE  /\ hl' \in Ports \cup {NoPort}
             /\ sl' \in [port : Ports \cup {NoPort}, cert : Certs \cup {Nil}]
             /\ handler' \in Handlers \cup {Nil}
             /\ rel' \in [Fields -> Urls \cup {Nil}]
  BY <1>b, <1>c, <1>e
<1>1. CASE Start
  <2>1. cur' \in ServerState /\ pc' = "set" /\ by' = Boot
        /\ i' = 1
    BY <1>d, <1>1 DEF Start, Begin
  <2>2. life' = "starting"
        /\ UNCHANGED <<file, pending, st, relValid, rel, handler, hl, sl>>
    BY <1>1 DEF Start, server
  <2>4. /\ restart' \in BOOLEAN /\ warned' \in BOOLEAN /\ quiet' \in BOOLEAN
        /\ refused' \in BOOLEAN
    BY <1>1, Zenon DEF Start, Begin
  <2>3. i' \in 1 .. NumFields + 1
    BY <1>a, <2>1
  <2> QED BY <1>0, <2>1, <2>2, <2>3, <2>4
<1>2. CASE StartUnreadable \/ Kill
  <2>1. /\ life' \in {"down", "starting", "up", "dying"} /\ refused' \in BOOLEAN
        /\ UNCHANGED <<file, pending, pc, inset, server, quiet>>
    BY <1>2 DEF StartUnreadable, Kill
  <2> QED BY <2>1 DEF inset, server
<1>3. ASSUME NEW c \in Callers, NEW s \in Requests, CallSet(c, s) PROVE TypeOK'
  <2>1. pending' \in [Callers -> ServerState \cup {Nil}]
    BY <1>3, ServerAssumption DEF CallSet
  <2>2. UNCHANGED <<life, file, pc, inset, server, quiet, refused>>
    BY <1>3 DEF CallSet
  <2> QED BY <2>1, <2>2 DEF inset, server
<1>4. ASSUME NEW c \in Callers, LockSet(c) PROVE TypeOK'
  <2>1. cur' \in ServerState /\ pc' = "set" /\ by' \in Callers
        /\ i' = 1
    BY <1>4 DEF LockSet, Begin
  <2>4. restart' \in BOOLEAN /\ warned' \in BOOLEAN /\ quiet' \in BOOLEAN
    BY <1>4, Zenon DEF LockSet, Begin
  <2>2. UNCHANGED <<life, file, pending, st, relValid, rel, handler, hl, sl,
                    refused>>
    BY <1>4 DEF LockSet, server
  <2>3. i' \in 1 .. NumFields + 1
    BY <1>a, <2>1
  <2> QED BY <1>0, <2>1, <2>2, <2>3, <2>4
<1>5. CASE Shutdown
  <2>1. /\ hl' = NoPort /\ sl' = NoListener /\ handler' = Nil
        /\ rel' = NoSessions
    BY <1>5 DEF Shutdown, CloseResources
  <2>2. /\ life' = "down" /\ st' = ZeroState
        /\ UNCHANGED <<file, pending, pc, by, cur, i, restart, warned, quiet,
                       refused>>
    BY <1>5 DEF Shutdown, inset
  <2>3. st' \in ServerState
    BY <1>d, <2>2
  <2>4. relValid' \in BOOLEAN
    BY <1>5, Zenon DEF Shutdown, CloseResources
  <2> QED BY <1>0, <1>e, <2>1, <2>2, <2>3, <2>4
<1>6. CASE Terminate
  <2>1. /\ hl' = NoPort /\ sl' = NoListener /\ handler' = Nil
        /\ rel' = NoSessions
    BY <1>6 DEF Terminate
  <2>2. /\ life' = "down" /\ st' = ZeroState /\ pc' = "idle"
        /\ pending' = [c \in Callers |-> Nil]
        /\ UNCHANGED <<file, by, cur, i, restart, warned, refused>>
    BY <1>6 DEF Terminate, inset
  <2>3. st' \in ServerState /\ pending' \in [Callers -> ServerState \cup {Nil}]
    BY <1>d, <2>2
  <2>4. relValid' \in BOOLEAN /\ quiet' \in BOOLEAN
    BY <1>6, Zenon DEF Terminate
  <2> QED BY <1>0, <1>e, <2>1, <2>2, <2>3, <2>4
<1>7. CASE SetNothingToServe \/ SetIncomplete
  <2>1. /\ hl' = NoPort /\ sl' = NoListener /\ handler' = Nil
        /\ rel' = NoSessions
    BY <1>7 DEF SetNothingToServe, SetIncomplete, CloseResources
  <2>2. pc' = "store" /\ warned' \in BOOLEAN /\ UNCHANGED <<i, restart, st>>
    BY <1>7 DEF SetNothingToServe, SetIncomplete, Warn
  <2>4. relValid' \in BOOLEAN
    BY <1>7, Zenon DEF SetNothingToServe, SetIncomplete, CloseResources
  <2>3. UNCHANGED <<life, file, pending, by, cur, quiet, refused>>
    BY <1>7 DEF SetNothingToServe, SetIncomplete, Local
  <2> QED BY <1>0, <1>e, <2>1, <2>2, <2>3, <2>4
<1>8. CASE SetRelations
  BY <1>8 DEF SetRelations, Local
<1>9. CASE SetterCloses \/ SetterDials
  <2>1. /\ restart' \in BOOLEAN
        /\ UNCHANGED <<pc, warned, st, relValid, handler, hl, sl>> /\ Local
    BY <1>9 DEF SetterCloses, SetterDials
  <2>3. rel' \in [Fields -> Urls \cup {Nil}]
    <3>1. CASE SetterCloses
      BY <3>1 DEF SetterCloses
    <3>2. CASE SetterDials
      <4>1. i \in Fields
        BY <1>a, <3>2 DEF SetterDials, Fields
      <4>2. cur.rels[i] \in Urls \cup {Nil}
        BY <4>1 DEF ServerState
      <4> QED BY <3>2, <4>2 DEF SetterDials
    <3> QED BY <1>9, <3>1, <3>2
  <2>2. i' \in 1 .. NumFields + 1
    BY <1>a, <1>9, ServerAssumption DEF SetterCloses, SetterDials
  <2> QED BY <1>0, <2>1, <2>2, <2>3 DEF Local
<1>10. CASE DialFails
  <2>1. /\ hl' \in {hl, NoPort} /\ sl' \in {sl, NoListener}
        /\ handler' \in {handler, Nil} /\ rel' \in {rel, NoSessions}
    BY <1>10 DEF DialFails, CloseResources
  <2>2. /\ relValid' \in BOOLEAN /\ pc' = "store" /\ warned' = TRUE
        /\ UNCHANGED <<i, restart, st>>
    BY <1>10 DEF DialFails, CloseResources, Warn
  <2>3. UNCHANGED <<life, file, pending, by, cur, quiet, refused>>
    BY <1>10 DEF DialFails, Local
  <2> QED BY <1>0, <1>e, <2>1, <2>2, <2>3
<1>11. CASE SetUnchanged \/ HandlerFails
  <2>1. /\ pc' = "store" /\ warned' \in BOOLEAN
        /\ UNCHANGED <<i, restart, st, relValid, rel, handler, hl, sl>> /\ Local
    BY <1>11 DEF SetUnchanged, HandlerFails, Warn, server
  <2> QED BY <1>0, <2>1 DEF Local
<1>12. CASE SetRestarts
  <2>1. /\ hl' \in {hl, NoPort} /\ sl' \in {sl, NoListener}
        /\ handler' \in {handler, Nil} /\ rel' \in {rel, NoSessions}
    BY <1>12 DEF SetRestarts, CloseResources
  <2>2. /\ relValid' \in BOOLEAN /\ pc' = "decide"
        /\ UNCHANGED <<i, restart, warned, st>>
    BY <1>12 DEF SetRestarts, CloseResources
  <2>3. UNCHANGED <<life, file, pending, by, cur, quiet, refused>>
    BY <1>12 DEF SetRestarts, Local
  <2> QED BY <1>0, <1>e, <2>1, <2>2, <2>3
<1>13. CASE Refill
  <2>1. /\ pc' \in {"handler", "refill"} /\ i' \in {i, 1}
        /\ UNCHANGED <<warned, st, rel, handler, hl, sl>> /\ Local
    BY <1>13 DEF Refill
  <2>2. restart' \in BOOLEAN
    BY <1>13 DEF Refill
  <2>3. relValid' \in BOOLEAN
    <3>1. CASE relValid' = relValid
      BY <3>1
    <3>2. CASE relValid' = (NumFields > 0)
      BY <3>2
    <3> QED BY <1>13, <3>1, <3>2 DEF Refill
  <2>4. i' \in 1 .. NumFields + 1
    BY <1>a, <2>1
  <2> QED BY <1>0, <2>1, <2>2, <2>3, <2>4 DEF Local
<1>14. CASE RefillDone
  <2>1. /\ pc' \in {"handler", "store"} /\ warned' \in BOOLEAN
        /\ UNCHANGED <<i, restart, server>> /\ Local
    BY <1>14 DEF RefillDone, Warn
  <2> QED BY <2>1 DEF Local, server
<1>15. CASE HandlerStarts
  BY <1>0, <1>15, ServerAssumption DEF HandlerStarts, Local
<1>16. CASE ListenHTTP
  <2>1. /\ hl' \in {hl, cur.http} /\ warned' \in BOOLEAN /\ pc' = "https"
        /\ UNCHANGED <<i, restart, st, relValid, rel, handler, sl>> /\ Local
    BY <1>16 DEF ListenHTTP, Warn
  <2> QED BY <1>0, <2>1 DEF Local, ServerState
<1>17. CASE ListenHTTPS
  <2>1. /\ sl' \in {sl, [port |-> cur.https, cert |-> cur.cert]}
        /\ warned' \in BOOLEAN /\ pc' = "store" /\ st' = cur
        /\ handler' = [arg |-> cur.arg, rels |-> rel]
        /\ UNCHANGED <<i, restart, relValid, rel, hl>> /\ Local
    BY <1>17 DEF ListenHTTPS, Warn
  <2>2. /\ handler' \in Handlers
        /\ sl' \in [port : Ports \cup {NoPort}, cert : Certs \cup {Nil}]
    BY <2>1 DEF ServerState, Handlers
  <2> QED BY <1>0, <2>1, <2>2 DEF Local
<1>18. CASE BootDone \/ StoreOpen \/ StoreWrite \/ StoreFails
  <2>1. /\ life' \in {life, "up"} /\ file' \in {file, Torn, cur}
        /\ st' \in {st, cur} /\ pc' \in {"idle", "write"}
        /\ quiet' \in BOOLEAN
        /\ UNCHANGED <<inset, relValid, rel, handler, hl, sl, refused>>
    BY <1>18 DEF BootDone, StoreOpen, StoreWrite, StoreFails, Answer, server
  <2>2. pending' \in [Callers -> ServerState \cup {Nil}]
    BY <1>18 DEF BootDone, StoreOpen, StoreWrite, StoreFails, Answer
  <2> QED BY <1>0, <2>1, <2>2 DEF inset
<1>19. CASE UNCHANGED vars
  BY <1>19 DEF vars, inset, server
<1> QED BY <1>1, <1>2, <1>3, <1>4, <1>5, <1>6, <1>7, <1>8, <1>9, <1>10, <1>11,
           <1>12, <1>13, <1>14, <1>15, <1>16, <1>17, <1>18, <1>19
        DEF Next, SetStep

LEMMA ResInit ==
  ASSUME Init
  PROVE  TypeOK /\ ResInv
<1> USE ServerAssumption DEF Init
<1>1. /\ NoListener \in [port : Ports \cup {NoPort}, cert : Certs \cup {Nil}]
      /\ NoSessions \in [Fields -> Urls \cup {Nil}]
      /\ ZeroState \in ServerState
  BY DEF NoListener, NoSessions, ServerState, ZeroState
<1>2. 1 \in 1 .. NumFields + 1 /\ pending \in [Callers -> ServerState \cup {Nil}]
  OBVIOUS
<1>3. relValid \in BOOLEAN /\ restart \in BOOLEAN /\ warned \in BOOLEAN
      /\ quiet \in BOOLEAN /\ refused \in BOOLEAN /\ stranded \in BOOLEAN
  OBVIOUS
<1>4. TypeOK
  BY <1>1, <1>2, <1>3 DEF TypeOK
<1>5. ResInv
  BY DEF ResInv, Working, Rebuilding, NoSessions
<1> QED BY <1>4, <1>5

LEMMA ResInvariant == ServerSafety => [](TypeOK /\ ResInv)
<1>1. Init => TypeOK /\ ResInv
  BY ResInit
<1>2. TypeOK /\ ResInv /\ [Next]_vars => (TypeOK /\ ResInv)'
  BY ResNext, TypeNext
<1> QED BY <1>1, <1>2, PTL DEF ServerSafety

(* The state is well typed; no more than one handler ever runs, and no       *)
(* session is closed that was not open.                                      *)
THEOREM TypeCorrect == Spec => []TypeOK
BY ResInvariant, PTL DEF Spec, ServerSafety

(* Sessions, handlers and listeners are never leaked, whatever failed and in *)
(* whatever state the process was told to die.                               *)
THEOREM Accounted == Spec => []ResourcesAccounted
<1>1. TypeOK /\ ResInv => ResourcesAccounted
  <2> SUFFICES ASSUME TypeOK, ResInv PROVE ResourcesAccounted
    OBVIOUS
  <2>1. open = Cardinality({f \in Fields : rel[f] # Nil})
    BY HeldCounts
  <2>2. life = "down" => open = 0
    BY DEF ResInv, NoSessions
  <2> QED BY <2>1, <2>2 DEF ResourcesAccounted, ResInv, Listening
<1> QED BY <1>1, ResInvariant, PTL DEF Spec, ServerSafety

-----------------------------------------------------------------------------
(* What is served, when the handler has at most one relation (with two       *)
(* fields the setters of both are given the first), and for as long as no    *)
(* handler that failed to start has left the struct filled:                  *)
(* MCHTTPServer_relations shows what follows then.                           *)
OneRelation == NumFields <= 1

(* The server serves nothing that state s does not ask for.                  *)
OnlyFor(s) ==
  /\ Serveable(s) /\ ~Incomplete(s)
  /\ handler = [arg |-> s.arg, rels |-> s.rels] /\ rel = s.rels
  /\ hl \in {NoPort, s.http}
  /\ sl \in {NoListener, [port |-> s.https, cert |-> s.cert]}

Holds(s) == IF handler = Nil THEN rel = NoSessions ELSE OnlyFor(s)

(* Where set has not yet looked at the relation or is done with it, a server *)
(* without a handler holds no session and one with a handler serves only     *)
(* srv.state; in between, the field holds what the step before left in it.   *)
Served ==
  /\ pc \in {"idle", "set", "store", "write"} => Holds(st)
  /\ pc \in {"idle", "store", "write"} /\ handler # Nil => st = cur
  /\ pc = "fields" => (relValid <=> NumFields > 0)
  /\ pc = "fields" /\ i = 1 => Holds(st)
  /\ pc = "fields" /\ i = 2 =>
       IF handler = Nil THEN rel = cur.rels ELSE restart
  /\ pc = "decide" => rel = IF relValid THEN cur.rels ELSE NoSessions
  /\ pc = "refill" => ~restart /\ rel = IF i = 1 THEN NoSessions ELSE cur.rels
  /\ pc \in {"handler", "http", "https"} => rel = cur.rels
  /\ pc = "https" => hl \in {NoPort, cur.http}

ServeInv ==
  /\ pc = "set" => i = 1
  /\ NumFields = 0 => ~stranded
  /\ ~stranded => Served

(* With at most one field, relation values agree when their first ones do.   *)
LEMMA OneValue ==
  ASSUME OneRelation, NEW f \in [Fields -> Urls \cup {Nil}],
         NEW g \in [Fields -> Urls \cup {Nil}], 1 \in Fields => f[1] = g[1]
  PROVE  f = g
<1>1. \A x \in Fields : x = 1
  BY ServerAssumption DEF OneRelation, Fields
<1>2. \A x \in Fields : f[x] = g[x]
  BY <1>1
<1> QED BY <1>2

(* ... and without fields there is just one of them.                         *)
LEMMA NoValue ==
  ASSUME TypeOK, OneRelation, NumFields = 0
  PROVE  rel = NoSessions /\ rel = cur.rels /\ rel = st.rels
<1>1. 1 \notin Fields
  BY DEF Fields
<1>2. /\ rel \in [Fields -> Urls \cup {Nil}]
      /\ cur.rels \in [Fields -> Urls \cup {Nil}]
      /\ st.rels \in [Fields -> Urls \cup {Nil}]
      /\ NoSessions \in [Fields -> Urls \cup {Nil}]
  BY DEF TypeOK, ServerState, NoSessions
<1> QED BY <1>1, <1>2, OneValue

(* The loop over the fields is at the only one or past it.                   *)
LEMMA LoopIndex ==
  ASSUME TypeOK, OneRelation
  PROVE  /\ i <= NumFields => i = 1 /\ NumFields = 1 /\ 1 \in Fields
         /\ i = NumFields + 1 => i = 2 \/ (i = 1 /\ NumFields = 0)
         /\ i \in {1, 2}
BY ServerAssumption DEF TypeOK, OneRelation, Fields

(* A set that finds nothing to do was asked for the state there is.          *)
LEMMA UnchangedIsEqual ==
  ASSUME TypeOK, NumFields = 0, OneRelation, ~NeedsRestart(cur)
  PROVE  cur = st
<1>1. cur.rels = st.rels
  BY NoValue
<1> QED BY <1>1 DEF NeedsRestart, TypeOK, ServerState

(* A struct that was left filled is closed with everything else.             *)
LEMMA Unstranded ==
  ASSUME TypeOK, ServeInv, [Next]_vars, stranded, ~stranded'
  PROVE  /\ handler' = Nil /\ rel' = NoSessions /\ relValid' = FALSE
         /\ pc' \in {"idle", "store", "decide"}
<1>1. CASE Shutdown \/ Terminate
  BY <1>1 DEF Shutdown, Terminate, CloseResources
<1>2. CASE SetNothingToServe \/ SetIncomplete
  BY <1>2 DEF SetNothingToServe, SetIncomplete, CloseResources
<1>3. CASE DialFails
  BY <1>3 DEF DialFails, CloseResources
<1>4. CASE SetRestarts
  BY <1>4 DEF SetRestarts, CloseResources
<1>5. ~HandlerFails
  <2>1. NumFields > 0
    BY ServerAssumption DEF ServeInv
  <2> QED BY <2>1 DEF HandlerFails
<1>6. ~(Start \/ StartUnreadable \/ Kill)
  BY DEF Start, StartUnreadable, Kill, server
<1>7. /\ ~\E c \in Callers, s \in Requests : CallSet(c, s)
      /\ ~\E c \in Callers : LockSet(c)
  BY DEF CallSet, LockSet, server
<1>8. ~(\/ SetRelations \/ SetterCloses \/ SetterDials \/ SetUnchanged \/ Refill
        \/ RefillDone \/ HandlerStarts \/ ListenHTTP \/ ListenHTTPS)
  BY DEF SetRelations, SetterCloses, SetterDials, SetUnchanged, Refill,
         RefillDone, HandlerStarts, ListenHTTP, ListenHTTPS, server
<1>9. ~(BootDone \/ StoreOpen \/ StoreWrite \/ StoreFails)
  BY DEF BootDone, StoreOpen, StoreWrite, StoreFails, server
<1>10. ~UNCHANGED vars
  BY DEF vars, server
<1> QED BY <1>1, <1>2, <1>3, <1>4, <1>5, <1>6, <1>7, <1>8, <1>9, <1>10
        DEF Next, SetStep

(* The loop starts at the first field, and only a struct with fields can be  *)
(* left filled.                                                              *)
LEMMA LoopNext ==
  ASSUME TypeOK, ServeInv, [Next]_vars
  PROVE  (pc = "set" => i = 1)' /\ (NumFields = 0 => ~stranded)'
<1>2. CASE Start \/ \E c \in Callers : LockSet(c)
  <2>1. pc' = "set" /\ i' = 1 /\ stranded' = stranded
    BY <1>2 DEF Start, LockSet, Begin, server
  <2> QED BY <2>1 DEF ServeInv
<1>3. CASE StartUnreadable \/ Kill \/ \E c \in Callers, s \in Requests : CallSet(c, s)
  BY <1>3 DEF StartUnreadable, CallSet, Kill, inset, server, ServeInv
<1>4. CASE Shutdown \/ Terminate
  BY <1>4 DEF Shutdown, Terminate, CloseResources, ServeInv
<1>5. CASE \/ SetNothingToServe \/ SetIncomplete \/ SetRelations \/ SetUnchanged
           \/ SetRestarts \/ Refill \/ RefillDone
  <2>1. pc' # "set" /\ (stranded' = stranded \/ stranded' = FALSE)
    BY <1>5 DEF SetNothingToServe, SetIncomplete, SetRelations, SetUnchanged,
                SetRestarts, Refill, RefillDone, CloseResources, server
  <2> QED BY <2>1 DEF ServeInv
<1>6. CASE DialFails \/ SetterCloses \/ SetterDials
  <2>1. pc' # "set" /\ (stranded' = stranded \/ stranded' = FALSE)
    BY <1>6 DEF DialFails, SetterCloses, SetterDials, CloseResources
  <2> QED BY <2>1 DEF ServeInv
<1>7. CASE HandlerFails
  <2>1. pc' # "set"
    BY <1>7 DEF HandlerFails
  <2>2. stranded' <=> NumFields > 0
    BY <1>7 DEF HandlerFails
  <2> QED BY <2>1, <2>2
<1>8. CASE \/ HandlerStarts \/ ListenHTTP \/ ListenHTTPS
           \/ BootDone \/ StoreOpen \/ StoreWrite \/ StoreFails
  <2>1. pc' # "set" /\ stranded' = stranded
    BY <1>8 DEF HandlerStarts, ListenHTTP, ListenHTTPS, BootDone, StoreOpen,
                StoreWrite, StoreFails, Answer, server
  <2> QED BY <2>1 DEF ServeInv
<1>9. CASE UNCHANGED vars
  BY <1>9 DEF vars, inset, server, ServeInv
<1> QED BY <1>2, <1>3, <1>4, <1>5, <1>6, <1>7, <1>8, <1>9 DEF Next, SetStep

(* Every step keeps to what the last Set asked for.                          *)
LEMMA ServedNext ==
  ASSUME OneRelation, TypeOK, TypeOK', ResInv, ServeInv, [Next]_vars,
         ~stranded, ~stranded'
  PROVE  Served'
<1> USE DEF ServeInv, Served, Holds, OnlyFor, Serveable, HttpOK, HttpsOK,
            Incomplete
<1>0. ASSUME handler' = Nil, rel' = NoSessions, pc' \in {"idle", "store"}
      PROVE  Served'
  BY <1>0
<1>1. CASE Start
  <2>1. /\ pc' = "set" /\ i' = 1 /\ UNCHANGED server
        /\ handler = Nil /\ rel = NoSessions
    BY <1>1 DEF Start, Begin, ResInv
  <2> QED BY <2>1 DEF server
<1>2. CASE \E c \in Callers : LockSet(c)
  <2>1. pc = "idle" /\ pc' = "set" /\ i' = 1 /\ UNCHANGED server
    BY <1>2 DEF LockSet, Begin
  <2> QED BY <2>1 DEF server
<1>3. CASE StartUnreadable \/ Kill \/ \E c \in Callers, s \in Requests : CallSet(c, s)
  <2>1. UNCHANGED <<pc, cur, i, restart, server>>
    BY <1>3 DEF StartUnreadable, CallSet, Kill, inset
  <2> QED BY <2>1 DEF server
<1>4. CASE Shutdown \/ Terminate
  <2>1. pc' = "idle" /\ handler' = Nil /\ rel' = NoSessions
    BY <1>4 DEF Shutdown, Terminate, CloseResources
  <2> QED BY <1>0, <2>1
<1>5. CASE SetNothingToServe \/ SetIncomplete
  <2>1. pc' = "store" /\ handler' = Nil /\ rel' = NoSessions
    BY <1>5 DEF SetNothingToServe, SetIncomplete, CloseResources
  <2> QED BY <1>0, <2>1
<1>6. CASE SetRelations
  <2>1. /\ pc = "set" /\ pc' = "fields" /\ relValid' = (NumFields > 0)
        /\ UNCHANGED <<i, cur, st, rel, handler, hl, sl>>
    BY <1>6 DEF SetRelations, Local
  <2>2. i = 1 /\ Holds(st)
    BY <2>1
  <2>3. Holds(st)'
    BY <2>1, <2>2
  <2>4. relValid' <=> NumFields > 0
    BY <2>1
  <2> HIDE DEF Holds
  <2> QED BY <2>1, <2>2, <2>3, <2>4
<1>7. CASE SetterCloses
  <2>1. /\ pc \in {"fields", "refill"} /\ i = 1 /\ rel[1] # Nil /\ 1 \in Fields
        /\ restart' = TRUE /\ i' = 2
        /\ UNCHANGED <<pc, cur, st, relValid, handler, hl, sl>>
    BY <1>7, LoopIndex DEF SetterCloses, Local, FieldSlot
  <2>2. rel # NoSessions
    BY <2>1 DEF NoSessions
  <2>3. pc = "fields" /\ handler # Nil
    BY <2>1, <2>2
  <2> QED BY <2>1, <2>3
<1>8. CASE SetterDials
  <2>1. /\ pc \in {"fields", "refill"} /\ i = 1 /\ rel[1] = Nil /\ 1 \in Fields
        /\ rel' = [rel EXCEPT ![1] = cur.rels[1]] /\ i' = 2
        /\ UNCHANGED <<pc, restart, cur, st, relValid, handler, hl, sl>>
    BY <1>8, LoopIndex DEF SetterDials, Local, FieldSlot
  <2>2. rel' = cur.rels
    <3>1. rel'[1] = cur.rels[1] /\ rel' \in [Fields -> Urls \cup {Nil}]
      BY <2>1 DEF TypeOK
    <3>2. cur.rels \in [Fields -> Urls \cup {Nil}]
      BY DEF TypeOK, ServerState
    <3> QED BY <3>1, <3>2, OneValue
  <2>3. pc = "fields" => handler = Nil
    BY <2>1
  <2>4. pc = "fields" => (relValid <=> NumFields > 0)
    OBVIOUS
  <2>5. pc = "refill" => ~restart
    OBVIOUS
  <2> HIDE DEF ServeInv, Served, Holds, OnlyFor
  <2>6. CASE pc = "fields"
    <3>1. pc' = "fields" /\ handler' = Nil /\ (relValid' <=> NumFields > 0)
      BY <2>1, <2>3, <2>4, <2>6
    <3>2. i' = 2 /\ rel' = cur'.rels
      BY <2>1, <2>2
    <3> QED BY <3>1, <3>2 DEF Served
  <2>7. CASE pc = "refill"
    <3>1. pc' = "refill" /\ i' = 2 /\ ~restart' /\ rel' = cur'.rels
      BY <2>1, <2>2, <2>5, <2>7
    <3> QED BY <3>1 DEF Served
  <2> QED BY <2>1, <2>6, <2>7
<1>9. CASE DialFails
  <2>1. pc \in {"fields", "refill"} /\ pc' = "store" /\ i = 1
    BY <1>9, LoopIndex DEF DialFails
  <2>2. handler' = Nil /\ rel' = NoSessions
    <3>1. CASE pc = "fields"
      BY <1>9, <3>1 DEF DialFails, CloseResources
    <3>2. CASE pc = "refill"
      BY <1>9, <2>1, <3>2 DEF DialFails, ResInv, Rebuilding
    <3> QED BY <2>1, <3>1, <3>2
  <2> QED BY <1>0, <2>1, <2>2
<1>10. CASE SetUnchanged
  <2>1. /\ pc = "fields" /\ pc' = "store" /\ i = NumFields + 1
        /\ ~restart /\ ~NeedsRestart(cur) /\ handler # Nil
        /\ UNCHANGED <<cur, server>>
    BY <1>10 DEF SetUnchanged, NothingToDo, Local
  <2>2. i = 1 /\ NumFields = 0
    BY <2>1, LoopIndex
  <2>3. cur = st
    BY <2>1, <2>2, UnchangedIsEqual
  <2> QED BY <2>1, <2>2, <2>3 DEF server
<1>11. CASE SetRestarts
  <2>1. pc = "fields" /\ pc' = "decide" /\ i = NumFields + 1 /\ UNCHANGED cur
    BY <1>11 DEF SetRestarts, Local
  <2>2. CASE handler # Nil
    BY <1>11, <2>1, <2>2 DEF SetRestarts, CloseResources
  <2>3. CASE handler = Nil
    <3>1. UNCHANGED <<rel, relValid>>
      BY <1>11, <2>3 DEF SetRestarts
    <3>2. CASE i = 2
      <4>1. NumFields > 0
        BY <2>1, <3>2, ServerAssumption
      <4>2. relValid /\ rel = cur.rels
        BY <2>1, <2>3, <3>2, <4>1
      <4> QED BY <2>1, <3>1, <4>2
    <3>3. CASE NumFields = 0
      BY <2>1, <3>1, <3>3, NoValue
    <3> QED BY <2>1, <3>2, <3>3, LoopIndex
  <2> QED BY <2>2, <2>3
<1>12. CASE Refill
  <2>1. pc = "decide" /\ UNCHANGED <<cur, rel>>
    BY <1>12 DEF Refill, Local
  <2>2. \/ pc' = "handler" /\ relValid
        \/ pc' = "refill" /\ ~relValid /\ i' = 1 /\ restart' = FALSE
    BY <1>12 DEF Refill
  <2> QED BY <2>1, <2>2
<1>13. CASE RefillDone
  <2>1. /\ pc = "refill" /\ i = NumFields + 1 /\ ~restart /\ pc' = "handler"
        /\ UNCHANGED <<cur, rel>>
    BY <1>13 DEF RefillDone, Local, server
  <2>2. rel = cur.rels
    BY <2>1, LoopIndex, NoValue
  <2> QED BY <2>1, <2>2
<1>14. CASE HandlerStarts
  BY <1>14 DEF HandlerStarts, Local
<1>15. CASE HandlerFails
  <2>0. stranded' <=> NumFields > 0
    BY <1>15 DEF HandlerFails
  <2>1. /\ pc = "handler" /\ pc' = "store" /\ NumFields = 0
        /\ UNCHANGED <<handler, rel>>
    BY <1>15, <2>0, ServerAssumption DEF HandlerFails
  <2>2. handler = Nil /\ rel = NoSessions
    BY <2>1, NoValue DEF ResInv, Rebuilding
  <2> QED BY <1>0, <2>1, <2>2
<1>16. CASE ListenHTTP
  <2>1. /\ pc = "http" /\ pc' = "https" /\ hl' \in {hl, cur.http}
        /\ UNCHANGED <<cur, rel>>
    BY <1>16 DEF ListenHTTP, Local
  <2>2. hl = NoPort
    BY <2>1 DEF ResInv, Rebuilding
  <2> QED BY <2>1, <2>2
<1>17. CASE ListenHTTPS
  <2>1. /\ pc = "https" /\ pc' = "store" /\ st' = cur
        /\ handler' = [arg |-> cur.arg, rels |-> rel]
        /\ sl' \in {sl, [port |-> cur.https, cert |-> cur.cert]}
        /\ UNCHANGED <<cur, rel, hl>>
    BY <1>17 DEF ListenHTTPS, Local
  <2>2. /\ sl = NoListener /\ Serveable(cur) /\ ~Incomplete(cur)
    BY <2>1 DEF ResInv, Rebuilding, Working
  <2>3. OnlyFor(st)' /\ Holds(st)'
    <3>1. OnlyFor(st)'
      BY <2>1, <2>2
    <3>2. handler' # Nil
      BY <2>1, ServerAssumption DEF TypeOK, ServerState, Handlers
    <3> QED BY <3>1, <3>2
  <2> HIDE DEF Holds, OnlyFor
  <2> QED BY <2>1, <2>3
<1>18. CASE BootDone \/ StoreOpen \/ StoreWrite \/ StoreFails
  <2>1. /\ pc \in {"store", "write"} /\ pc' \in {"idle", "write"}
        /\ st' \in {st, cur}
        /\ UNCHANGED <<cur, rel, handler, hl, sl>>
    BY <1>18 DEF BootDone, StoreOpen, StoreWrite, StoreFails, Answer, inset,
                 server
  <2> QED BY <2>1
<1>19. CASE UNCHANGED vars
  BY <1>19 DEF vars, inset, server
<1> QED BY <1>1, <1>2, <1>3, <1>4, <1>5, <1>6, <1>7, <1>8, <1>9, <1>10, <1>11,
           <1>12, <1>13, <1>14, <1>15, <1>16, <1>17, <1>18, <1>19
        DEF Next, SetStep

LEMMA ServeNext ==
  ASSUME OneRelation, TypeOK, TypeOK', ResInv, ServeInv, [Next]_vars
  PROVE  ServeInv'
<1>1. ASSUME stranded, ~stranded' PROVE Served'
  BY <1>1, Unstranded DEF Served, Holds
<1>2. ASSUME ~stranded, ~stranded' PROVE Served'
  BY <1>2, ServedNext
<1>3. ~stranded' => Served'
  BY <1>1, <1>2
<1> QED BY <1>3, LoopNext DEF ServeInv

LEMMA ServeInvariant ==
  ASSUME OneRelation
  PROVE  ServerSafety => []ServeInv
<1>1. Init => ServeInv
  BY DEF Init, ServeInv, Served, Holds
<1>2. /\ TypeOK /\ ResInv /\ (TypeOK /\ ResInv)' /\ ServeInv /\ [Next]_vars
      => ServeInv'
  BY ServeNext
<1> QED BY <1>1, <1>2, ResInvariant, PTL DEF ServerSafety

-----------------------------------------------------------------------------
(* What set works with was asked for by a hook or is what the file held, and *)
(* a set that ended quietly has its state in the file.                       *)
AskedInv ==
  /\ \A c \in Callers : pending[c] \in Requests \cup {Nil}
  /\ file \in Requests \cup {Torn, Absent}
  /\ cur \in Requests \cup {ZeroState}
  /\ by = Boot => file = cur \/ (file = Absent /\ cur = ZeroState)
  /\ by # Boot => cur \in Requests
  /\ pc = "write" => by # Boot
  /\ quiet => pc = "idle" /\ (file = cur \/ by = Boot)

LEMMA AskedNext ==
  ASSUME TypeOK, AskedInv, [Next]_vars
  PROVE  AskedInv'
<1> USE ServerAssumption DEF AskedInv, TypeOK
<1>1. CASE Start
  BY <1>1 DEF Start, Begin
<1>2. CASE StartUnreadable \/ Kill \/ Shutdown
  BY <1>2 DEF StartUnreadable, Kill, Shutdown, inset
<1>3. ASSUME NEW c \in Callers, NEW s \in Requests, CallSet(c, s) PROVE AskedInv'
  BY <1>3 DEF CallSet, inset
<1>4. ASSUME NEW c \in Callers, LockSet(c) PROVE AskedInv'
  BY <1>4 DEF LockSet, Begin
<1>5. CASE Terminate
  BY <1>5 DEF Terminate, inset
<1>6. CASE \/ SetNothingToServe \/ SetIncomplete \/ SetRelations \/ SetterCloses
           \/ SetterDials \/ DialFails \/ SetUnchanged \/ SetRestarts
           \/ Refill \/ RefillDone \/ HandlerStarts \/ HandlerFails
           \/ ListenHTTP \/ ListenHTTPS
  <2>1. /\ pc \in {"set", "fields", "decide", "refill", "handler", "http", "https"}
        /\ pc' # "write" /\ Local
    BY <1>6 DEF SetNothingToServe, SetIncomplete, SetRelations, SetterCloses,
                SetterDials, DialFails, SetUnchanged, SetRestarts, Refill,
                RefillDone, HandlerStarts, HandlerFails, ListenHTTP, ListenHTTPS
  <2> QED BY <2>1 DEF Local
<1>7. CASE BootDone
  BY <1>7 DEF BootDone, Answer, inset
<1>8. CASE StoreOpen
  BY <1>8 DEF StoreOpen, inset
<1>9. CASE StoreWrite
  <2>1. pc = "write" /\ file' = cur /\ by # Boot /\ pc' = "idle" /\ UNCHANGED inset
    BY <1>9 DEF StoreWrite, Answer
  <2>2. pending' = [pending EXCEPT ![by] = Nil]
    BY <1>9, <2>1 DEF StoreWrite, Answer
  <2> QED BY <2>1, <2>2 DEF inset
<1>10. CASE StoreFails
  <2>1. by # Boot /\ pc' = "idle" /\ quiet' = FALSE /\ UNCHANGED <<file, inset>>
    BY <1>10 DEF StoreFails, Answer
  <2>2. pending' = [pending EXCEPT ![by] = Nil]
    BY <1>10, <2>1 DEF StoreFails, Answer
  <2> QED BY <2>1, <2>2 DEF inset
<1>11. CASE UNCHANGED vars
  BY <1>11 DEF vars, inset
<1> QED BY <1>1, <1>2, <1>3, <1>4, <1>5, <1>6, <1>7, <1>8, <1>9, <1>10, <1>11
        DEF Next, SetStep

LEMMA AskedInit == Init => AskedInv
BY ServerAssumption DEF Init, AskedInv

LEMMA AskedInvariant == ServerSafety => []AskedInv
<1>1. Init => AskedInv
  BY AskedInit
<1>2. TypeOK /\ AskedInv /\ [Next]_vars => AskedInv'
  BY AskedNext
<1> QED BY <1>1, <1>2, ResInvariant, PTL DEF ServerSafety

(* When a set that ends without a warning can be believed.  With a relation, *)
(* as long as the struct is not left filled: its handler is built anew.  A   *)
(* handler without relations is kept when nothing changed, even if a port    *)
(* could not be listened on the last time, so that repeating the Set does    *)
(* not repeat the warning; there, the claim is for ports that can be         *)
(* listened on.                                                              *)
Listenable(s) ==
  s.cert \notin BadCerts /\ (HttpOK(s) /\ HttpsOK(s) => s.https # s.http)

Believable ==
  \/ NumFields = 1
  \/ /\ NumFields = 0 /\ "listen" \notin Faults
     /\ \A s \in Requests : Listenable(s)

QuietInv ==
  /\ pc = "https" /\ (~warned \/ NumFields = 0) => hl = cur.http
  /\ pc \in {"store", "write"} /\ ~warned /\ ~stranded => Serving(cur)
  /\ quiet /\ life # "down" /\ ~stranded => Serving(cur)
  /\ /\ NumFields = 0 /\ handler # Nil
     /\ pc \in {"idle", "set", "fields", "store", "write"}
     => Serving(st)

(* A set that gets through its last step without a warning has started all   *)
(* that it was asked for.                                                    *)
LEMMA ListenServes ==
  ASSUME Believable, TypeOK, ResInv, ServeInv, AskedInv, QuietInv, ListenHTTPS,
         ~stranded
  PROVE  /\ pc' = "store" /\ handler' # Nil /\ UNCHANGED cur /\ st' = cur
         /\ ~warned' \/ NumFields = 0 => Serving(cur)'
<1>1. /\ pc = "https" /\ pc' = "store" /\ st' = cur
      /\ handler' = [arg |-> cur.arg, rels |-> rel]
      /\ UNCHANGED <<cur, rel, hl>>
  BY DEF ListenHTTPS, Local
<1>2. handler' # Nil
  BY <1>1, ServerAssumption DEF TypeOK, ServerState, Handlers
<1>3. sl = NoListener /\ Serveable(cur) /\ rel = cur.rels
  BY <1>1 DEF ResInv, Rebuilding, Working, ServeInv, Served
<1>4. ASSUME ~warned' \/ NumFields = 0 PROVE Serving(cur)'
  <2>1. hl = cur.http
    <3>1. ~warned' => ~warned
      BY DEF ListenHTTPS, Warn, TypeOK
    <3> QED BY <1>1, <1>4, <3>1 DEF QuietInv
  <2>2. ASSUME NumFields = 0
        PROVE  "listen" \notin Faults /\ (HttpsOK(cur) => Listenable(cur))
    BY <2>2 DEF Believable, AskedInv, HttpsOK, ZeroState
  <2>3. CASE HttpsOK(cur)
    <3>1. HttpsWanted
      BY <1>3, <2>3 DEF HttpsWanted
    <3>2. NumFields = 0 => cur.cert \notin BadCerts /\ cur.https # hl
      BY <2>1, <2>2, <2>3 DEF Listenable, HttpOK, HttpsOK
    <3>3. sl' = [port |-> cur.https, cert |-> cur.cert]
      BY <1>4, <2>2, <3>1, <3>2 DEF ListenHTTPS, Warn
    <3>4. HttpsOK(cur) <=> HttpsOK(cur)'
      BY <1>1 DEF HttpsOK
    <3> QED BY <1>1, <1>2, <1>3, <2>1, <2>3, <3>3, <3>4
            DEF Serving, Serveable, HttpOK, HttpsOK
  <2>4. CASE ~HttpsOK(cur)
    <3>1. sl' = NoListener
      BY <1>3, <2>4 DEF ListenHTTPS, HttpsWanted
    <3> QED BY <1>1, <1>2, <1>3, <2>1, <2>4, <3>1
            DEF Serving, Serveable, HttpOK, HttpsOK
  <2> QED BY <2>3, <2>4
<1> QED BY <1>1, <1>2, <1>4

LEMMA QuietNext ==
  ASSUME Believable, TypeOK, ResInv, ServeInv, AskedInv, QuietInv, [Next]_vars
  PROVE  QuietInv'
<1>0. OneRelation
  BY ServerAssumption DEF OneRelation, Believable
<1> USE DEF QuietInv
<1>1. CASE Start \/ \E c \in Callers : LockSet(c)
  <2>1. pc = "idle" /\ pc' = "set" /\ quiet' = FALSE /\ UNCHANGED server
    BY <1>1 DEF Start, LockSet, Begin, ResInv
  <2> QED BY <2>1 DEF server, Serving, Serveable, HttpOK, HttpsOK
<1>2. CASE StartUnreadable \/ Kill \/ \E c \in Callers, s \in Requests : CallSet(c, s)
  <2>1. UNCHANGED <<pc, inset, server, quiet>> /\ (life' = "down" <=> life = "down")
    BY <1>2 DEF StartUnreadable, Kill, CallSet
  <2> QED BY <2>1 DEF inset, server, Serving, Serveable, HttpOK, HttpsOK
<1>3. CASE Shutdown \/ Terminate
  <2>1. pc' = "idle" /\ life' = "down" /\ handler' = Nil
    BY <1>3 DEF Shutdown, Terminate, CloseResources
  <2> QED BY <2>1
<1>4. CASE SetNothingToServe
  <2>1. /\ pc = "set" /\ pc' = "store" /\ handler' = Nil /\ quiet' = quiet
        /\ hl' = NoPort /\ sl' = NoListener /\ ~Serveable(cur) /\ UNCHANGED cur
    BY <1>4 DEF SetNothingToServe, CloseResources, Local
  <2>2. Serving(cur)'
    BY <2>1 DEF Serving, Serveable, HttpOK, HttpsOK
  <2>3. quiet' = FALSE
    BY <2>1 DEF AskedInv, TypeOK
  <2> QED BY <2>1, <2>2, <2>3
<1>5. CASE SetIncomplete \/ DialFails
  <2>1. /\ pc' = "store" /\ warned' = TRUE /\ quiet' = quiet /\ pc # "idle"
    BY <1>5 DEF SetIncomplete, DialFails, Warn, Local
  <2>2. handler' = Nil
    BY <1>5 DEF SetIncomplete, DialFails, CloseResources, ResInv, Rebuilding
  <2> QED BY <2>1, <2>2 DEF AskedInv
<1>6. CASE SetRelations
  <2>1. /\ pc = "set" /\ pc' = "fields" /\ quiet' = quiet
        /\ UNCHANGED <<st, rel, handler, hl, sl>>
    BY <1>6 DEF SetRelations, Local
  <2> QED BY <2>1 DEF AskedInv, Serving, Serveable, HttpOK, HttpsOK
<1>7. CASE SetterCloses \/ SetterDials
  <2>1. NumFields = 1 /\ pc \in {"fields", "refill"} /\ UNCHANGED <<pc, quiet>>
    BY <1>0, <1>7, LoopIndex DEF SetterCloses, SetterDials, Local
  <2> QED BY <2>1 DEF AskedInv
<1>8. CASE SetUnchanged
  <2>1. /\ pc = "fields" /\ pc' = "store" /\ i = NumFields + 1 /\ ~restart
        /\ ~NeedsRestart(cur) /\ handler # Nil /\ UNCHANGED <<cur, server, quiet>>
    BY <1>8 DEF SetUnchanged, NothingToDo, Local
  <2>2. CASE stranded
    BY <2>1, <2>2 DEF AskedInv, ServeInv, server
  <2>3. CASE ~stranded
    <3>1. NumFields = 0
      BY <1>0, <2>1, <2>3, LoopIndex DEF ServeInv, Served
    <3>2. cur = st /\ Serving(st)
      BY <1>0, <2>1, <3>1, UnchangedIsEqual
    <3> QED BY <2>1, <3>2
            DEF AskedInv, server, Serving, Serveable, HttpOK, HttpsOK
  <2> QED BY <2>2, <2>3
<1>9. CASE SetRestarts
  <2>1. pc = "fields" /\ pc' = "decide" /\ quiet' = quiet
    BY <1>9 DEF SetRestarts, Local
  <2> QED BY <2>1 DEF AskedInv
<1>10. CASE Refill \/ HandlerStarts
  <2>1. /\ pc \in {"decide", "handler"} /\ pc' \in {"refill", "handler", "http"}
        /\ quiet' = quiet
    BY <1>10 DEF Refill, HandlerStarts, Local
  <2> QED BY <2>1 DEF AskedInv
<1>11. CASE RefillDone \/ HandlerFails
  <2>1. /\ pc \in {"refill", "handler"} /\ pc' \in {"handler", "store"}
        /\ pc' = "store" => warned' = TRUE
        /\ quiet' = quiet /\ handler' = handler
    BY <1>11 DEF RefillDone, HandlerFails, Warn, Local, server
  <2>2. handler' = Nil
    BY <2>1 DEF ResInv, Rebuilding
  <2> QED BY <2>1, <2>2 DEF AskedInv
<1>12. CASE ListenHTTP
  <2>1. pc = "http" /\ pc' = "https" /\ UNCHANGED <<quiet, cur>>
    BY <1>12 DEF ListenHTTP, Local
  <2>2. hl = NoPort
    BY <2>1 DEF ResInv, Rebuilding
  <2>3. ~warned' \/ NumFields = 0 => hl' = cur.http
    <3>1. CASE HttpWanted
      BY <1>12, <3>1 DEF ListenHTTP, Warn, Believable
    <3>2. CASE ~HttpWanted
      BY <1>12, <2>2, <3>2 DEF ListenHTTP, HttpWanted, HttpOK
    <3> QED BY <3>1, <3>2
  <2> QED BY <2>1, <2>3 DEF AskedInv
<1>13. CASE ListenHTTPS
  <2>1. pc' = "store" /\ stranded' = stranded
    BY <1>13 DEF ListenHTTPS
  <2>2. quiet' = FALSE
    BY <1>13 DEF ListenHTTPS, Local, AskedInv, TypeOK
  <2>3. CASE stranded
    BY <2>1, <2>2, <2>3 DEF ServeInv
  <2>4. CASE ~stranded
    <3>1. /\ handler' # Nil /\ UNCHANGED cur /\ st' = cur
          /\ ~warned' \/ NumFields = 0 => Serving(cur)'
      BY <1>13, <2>4, ListenServes
    <3> QED BY <2>1, <2>2, <3>1 DEF Serving, Serveable, HttpOK, HttpsOK
  <2> QED BY <2>3, <2>4
<1>14. CASE BootDone \/ StoreOpen \/ StoreWrite \/ StoreFails
  <2>1. /\ pc \in {"store", "write"} /\ pc' \in {"idle", "write"}
        /\ st' \in {st, cur}
        /\ UNCHANGED <<inset, rel, handler, hl, sl, stranded>>
    BY <1>14 DEF BootDone, StoreOpen, StoreWrite, StoreFails, Answer, server
  <2>2. quiet' => ~warned
    <3>1. ~quiet
      BY <2>1 DEF AskedInv
    <3> QED BY <1>14, <3>1
            DEF BootDone, StoreOpen, StoreWrite, StoreFails, Answer
  <2>3. NumFields = 0 /\ handler # Nil => st = cur
    BY <2>1 DEF ServeInv, Served
  <2>4. ~warned /\ ~stranded => Serving(cur)
    BY <2>1
  <2>5. Serving(cur) => Serving(cur)'
    BY <2>1 DEF inset, Serving, Serveable, HttpOK, HttpsOK
  <2>6. NumFields = 0 /\ handler # Nil => Serving(st)'
    <3>1. NumFields = 0 /\ handler # Nil => Serving(st) /\ st' = st
      BY <2>1, <2>3
    <3> QED BY <2>1, <3>1 DEF Serving, Serveable, HttpOK, HttpsOK
  <2> QED BY <2>1, <2>4, <2>5, <2>6, <2>2 DEF inset
<1>15. CASE UNCHANGED vars
  BY <1>15 DEF vars, inset, server, Serving, Serveable, HttpOK, HttpsOK
<1> QED BY <1>1, <1>2, <1>3, <1>4, <1>5, <1>6, <1>7, <1>8, <1>9, <1>10, <1>11,
           <1>12, <1>13, <1>14, <1>15
        DEF Next, SetStep

LEMMA QuietInvariant ==
  ASSUME Believable
  PROVE  ServerSafety => []QuietSetServes
<1>0. OneRelation
  BY ServerAssumption DEF OneRelation, Believable
<1>1. Init => QuietInv
  BY DEF Init, QuietInv
<1>2. /\ TypeOK /\ ResInv /\ ServeInv /\ AskedInv /\ QuietInv /\ [Next]_vars
      => QuietInv'
  BY QuietNext
<1>3. ServerSafety => []ServeInv
  BY <1>0, ServeInvariant
<1>4. AskedInv /\ QuietInv => QuietSetServes
  BY DEF AskedInv, QuietInv, QuietSetServes, AtRest
<1> QED BY <1>1, <1>2, <1>3, <1>4, ResInvariant, AskedInvariant, PTL
        DEF ServerSafety

(* What a hook is told when it is told nothing: the server serves the state  *)
(* it asked for, all of it, and will after a restart.                        *)
THEOREM QuietIsServed ==
  ASSUME Believable
  PROVE  Spec => []QuietSetServes
<1>1. ServerSafety => []QuietSetServes
  BY QuietInvariant
<1> QED BY <1>1, PTL DEF Spec, ServerSafety

(* Without relations, a handler is never closed for a Set of the state that  *)
(* the server already has: what does close it is a state with nothing to     *)
(* serve, or one that differs in a way that needs another handler.           *)
THEOREM KeepsHandler ==
  ASSUME NumFields = 0
  PROVE  Spec => UnchangedSetKeepsHandler
<1>0. OneRelation
  BY DEF OneRelation
<1> DEFINE NoRestart == pc \in {"set", "fields"} => ~restart
           Step == handler # Nil /\ handler' = Nil /\ life' # "down" => cur # st
<1>1. Init => NoRestart
  BY DEF Init
<1>2. ASSUME TypeOK, NoRestart, [Next]_vars PROVE NoRestart'
  <2>1. ~SetterCloses
    BY <1>0, <1>2, LoopIndex DEF SetterCloses
  <2>2. CASE Start \/ \E c \in Callers : LockSet(c)
    BY <2>2 DEF Start, LockSet, Begin
  <2>3. CASE \/ StartUnreadable \/ Kill \/ Shutdown \/ Terminate
             \/ \E c \in Callers, s \in Requests : CallSet(c, s)
    BY <1>2, <2>3 DEF StartUnreadable, Kill, Shutdown, Terminate, CallSet, inset
  <2>4. CASE SetRelations \/ SetterDials
    BY <1>2, <2>4 DEF SetRelations, SetterDials
  <2>5. CASE \/ SetNothingToServe \/ SetIncomplete \/ DialFails \/ SetUnchanged
             \/ SetRestarts \/ Refill \/ RefillDone
    BY <2>5 DEF SetNothingToServe, SetIncomplete, DialFails, SetUnchanged,
                SetRestarts, Refill, RefillDone
  <2>6. CASE \/ HandlerStarts \/ HandlerFails \/ ListenHTTP \/ ListenHTTPS
             \/ BootDone \/ StoreOpen \/ StoreWrite \/ StoreFails
    BY <2>6 DEF HandlerStarts, HandlerFails, ListenHTTP, ListenHTTPS, BootDone,
                StoreOpen, StoreWrite, StoreFails, Answer
  <2>7. CASE UNCHANGED vars
    BY <1>2, <2>7 DEF vars, inset
  <2> QED BY <1>2, <2>1, <2>2, <2>3, <2>4, <2>5, <2>6, <2>7 DEF Next, SetStep
<1>3. TypeOK /\ ServeInv /\ NoRestart /\ [Next]_vars => [Step]_vars
  <2> SUFFICES ASSUME TypeOK, ServeInv, NoRestart, [Next]_vars,
                      handler # Nil, handler' = Nil, life' # "down"
               PROVE  cur # st
    OBVIOUS
  <2>1. CASE SetNothingToServe
    <3>1. pc = "set" /\ ~Serveable(cur) /\ Serveable(st)
      BY <2>1 DEF SetNothingToServe, ServeInv, Served, Holds, OnlyFor
    <3> QED BY <3>1 DEF Serveable, HttpOK, HttpsOK
  <2>2. CASE SetRestarts
    <3>1. NeedsRestart(cur)
      BY <2>2 DEF SetRestarts, NothingToDo
    <3> QED BY <3>1 DEF NeedsRestart
  <2>3. ~SetIncomplete
    BY DEF SetIncomplete, Incomplete, Fields
  <2>4. ~DialFails
    BY <1>0, LoopIndex DEF DialFails
  <2>5. CASE Start \/ StartUnreadable \/ Kill \/ Shutdown \/ Terminate
    BY <2>5 DEF Start, StartUnreadable, Kill, Shutdown, Terminate, server
  <2>6. ASSUME NEW c \in Callers, NEW s \in Requests, CallSet(c, s) PROVE FALSE
    BY <2>6 DEF CallSet, server
  <2>7. ASSUME NEW c \in Callers, LockSet(c) PROVE FALSE
    BY <2>7 DEF LockSet, server
  <2>8. CASE \/ SetRelations \/ SetterCloses \/ SetterDials \/ SetUnchanged
             \/ Refill \/ RefillDone \/ HandlerStarts \/ HandlerFails
             \/ ListenHTTP
    BY <2>8 DEF SetRelations, SetterCloses, SetterDials, SetUnchanged, Refill,
                RefillDone, HandlerStarts, HandlerFails, ListenHTTP, server
  <2>9. CASE ListenHTTPS
    BY <2>9, ServerAssumption DEF ListenHTTPS, TypeOK, ServerState, Handlers
  <2>10. CASE BootDone \/ StoreOpen \/ StoreWrite \/ StoreFails
    BY <2>10 DEF BootDone, StoreOpen, StoreWrite, StoreFails, server
  <2>11. CASE UNCHANGED vars
    BY <2>11 DEF vars, server
  <2> QED BY <2>1, <2>2, <2>3, <2>4, <2>5, <2>6, <2>7, <2>8, <2>9, <2>10, <2>11
          DEF Next, SetStep
<1>4. ServerSafety => []ServeInv
  BY <1>0, ServeInvariant
<1> HIDE DEF NoRestart
<1>5. Spec => [][Step]_vars
  BY <1>1, <1>2, <1>3, <1>4, ResInvariant, PTL DEF Spec, ServerSafety
<1> QED BY <1>5 DEF UnchangedSetKeepsHandler

-----------------------------------------------------------------------------
(* The server implements ServerFront.  Outside of a Set, and in one until    *)
(* the old handler is closed, what listens is what srv.state says; after it, *)
(* what the Set asks for, and then srv.state says the same.                  *)
Fits(s) ==
  Listening => /\ hl \in {NoPort, s.http}
               /\ sl \in {NoListener, [port |-> s.https, cert |-> s.cert]}
               /\ handler.arg = s.arg

FrontInv ==
  /\ pc \in {"idle", "set", "fields"} => Fits(st)
  /\ pc = "idle" => Fits(cur)
  /\ pc = "https" => hl \in {NoPort, cur.http}
  /\ pc \in {"store", "write"} => Fits(cur)
  /\ pc = "store" /\ Listening => ~NeedsRestart(cur)
  /\ pc = "write" => st = cur /\ by # Boot

(* The account leaves no listener without a handler.                         *)
LEMMA NoneListening ==
  ASSUME ResInv, handler = Nil, pc # "https"
  PROVE  ~Listening
BY DEF ResInv, Listening

LEMMA FrontNext ==
  ASSUME TypeOK, ResInv, FrontInv, [Next]_vars
  PROVE  FrontInv'
<1>0. ASSUME hl' = NoPort, sl' = NoListener, pc' \notin {"https", "write"}
      PROVE  FrontInv'
  BY <1>0 DEF FrontInv, Fits, Listening
<1>a. ASSUME pc \in {"idle", "set", "fields"}, pc' \in {"set", "fields"},
             UNCHANGED <<st, handler, hl, sl>>
      PROVE  FrontInv'
  BY <1>a DEF FrontInv, Fits, Listening
<1>b. ASSUME ~Listening, UNCHANGED <<hl, sl>>, pc' \notin {"https", "write"}
      PROVE  FrontInv'
  BY <1>b DEF FrontInv, Fits, Listening
<1>1. CASE Start \/ \E c \in Callers : LockSet(c)
  <2>1. pc \in {"idle", "set"} /\ pc' = "set" /\ UNCHANGED <<st, handler, hl, sl>>
    BY <1>1 DEF Start, LockSet, Begin, ResInv, server
  <2> QED BY <1>a, <2>1
<1>2. CASE StartUnreadable \/ Kill \/ \E c \in Callers, s \in Requests : CallSet(c, s)
  <2>1. UNCHANGED <<pc, by, cur, st, handler, hl, sl>>
    BY <1>2 DEF StartUnreadable, CallSet, Kill, inset, server
  <2> QED BY <2>1 DEF FrontInv, Fits, Listening, NeedsRestart
<1>3. CASE Shutdown \/ Terminate \/ SetNothingToServe \/ SetIncomplete
  <2>1. hl' = NoPort /\ sl' = NoListener /\ pc' \in {"idle", "store"}
    BY <1>3 DEF Shutdown, Terminate, SetNothingToServe, SetIncomplete,
                CloseResources
  <2> QED BY <1>0, <2>1
<1>4. CASE SetRelations
  <2>1. pc = "set" /\ pc' = "fields" /\ UNCHANGED <<st, handler, hl, sl>>
    BY <1>4 DEF SetRelations
  <2> QED BY <1>a, <2>1
<1>5. CASE SetterCloses \/ SetterDials
  <2>1. /\ pc \in {"fields", "refill"} /\ pc' = pc
        /\ UNCHANGED <<st, handler, hl, sl>>
    BY <1>5 DEF SetterCloses, SetterDials
  <2>2. CASE pc = "refill"
    <3>1. ~Listening
      BY <2>2, NoneListening DEF ResInv, Rebuilding
    <3> QED BY <1>b, <2>1, <2>2, <3>1
  <2> QED BY <1>a, <2>1, <2>2
<1>6. CASE DialFails
  <2>1. pc' = "store" /\ pc \in {"fields", "refill"}
    BY <1>6 DEF DialFails
  <2>2. CASE CloseResources
    BY <1>0, <2>1, <2>2 DEF CloseResources
  <2>3. CASE pc = "refill" /\ UNCHANGED <<hl, sl>>
    <3>1. ~Listening
      BY <2>3, NoneListening DEF ResInv, Rebuilding
    <3> QED BY <1>b, <2>1, <2>3, <3>1
  <2> QED BY <1>6, <2>2, <2>3 DEF DialFails
<1>7. CASE SetUnchanged
  <2>1. /\ pc = "fields" /\ pc' = "store" /\ ~NeedsRestart(cur)
        /\ UNCHANGED <<cur, st, handler, hl, sl>>
    BY <1>7 DEF SetUnchanged, NothingToDo, Local, server
  <2>2. Fits(st)
    BY <2>1 DEF FrontInv
  <2>3. Fits(cur)
    BY <2>1, <2>2 DEF Fits, NeedsRestart
  <2> QED BY <2>1, <2>3 DEF FrontInv, Fits, Listening, NeedsRestart
<1>8. CASE SetRestarts
  <2>1. pc = "fields" /\ pc' = "decide"
    BY <1>8 DEF SetRestarts
  <2>2. CASE handler # Nil
    <3>1. hl' = NoPort /\ sl' = NoListener
      BY <1>8, <2>2 DEF SetRestarts, CloseResources
    <3> QED BY <1>0, <2>1, <3>1
  <2>3. CASE handler = Nil
    <3>1. ~Listening /\ UNCHANGED <<hl, sl>>
      BY <1>8, <2>1, <2>3, NoneListening DEF SetRestarts
    <3> QED BY <1>b, <2>1, <3>1
  <2> QED BY <2>2, <2>3
<1>9. CASE Refill \/ RefillDone \/ HandlerStarts \/ HandlerFails
  <2>1. /\ pc \in {"decide", "refill", "handler"}
        /\ pc' \in {"handler", "refill", "store", "http"} /\ UNCHANGED <<hl, sl>>
    BY <1>9 DEF Refill, RefillDone, HandlerStarts, HandlerFails, server
  <2>2. ~Listening
    BY <2>1, NoneListening DEF ResInv, Rebuilding
  <2> QED BY <1>b, <2>1, <2>2
<1>10. CASE ListenHTTP
  <2>1. pc = "http" /\ pc' = "https" /\ hl' \in {hl, cur.http} /\ cur' = cur
    BY <1>10 DEF ListenHTTP, Local
  <2>2. hl = NoPort
    BY <2>1 DEF ResInv, Rebuilding
  <2> QED BY <2>1, <2>2 DEF FrontInv
<1>11. CASE ListenHTTPS
  <2>1. /\ pc = "https" /\ pc' = "store"
        /\ sl' \in {sl, [port |-> cur.https, cert |-> cur.cert]}
        /\ handler' = [arg |-> cur.arg, rels |-> rel]
        /\ st' = cur /\ UNCHANGED <<cur, hl>>
    BY <1>11 DEF ListenHTTPS, Local
  <2>2. sl = NoListener /\ hl \in {NoPort, cur.http}
    BY <2>1 DEF ResInv, Rebuilding, FrontInv
  <2>3. Fits(cur)'
    BY <2>1, <2>2 DEF Fits
  <2> QED BY <2>1, <2>3 DEF FrontInv, NeedsRestart
<1>12. CASE BootDone
  <2>1. /\ pc = "store" /\ pc' = "idle" /\ UNCHANGED <<cur, st, handler, hl, sl>>
    BY <1>12 DEF BootDone, Answer, inset, server
  <2>2. Fits(st)
    BY <2>1 DEF FrontInv, Fits, NeedsRestart
  <2> QED BY <2>1, <2>2 DEF FrontInv, Fits, Listening
<1>13. CASE StoreOpen
  <2>1. /\ pc = "store" /\ pc' = "write" /\ by # Boot /\ st' = cur
        /\ UNCHANGED <<by, cur, handler, hl, sl>>
    BY <1>13 DEF StoreOpen, inset
  <2>2. Fits(cur)
    BY <2>1 DEF FrontInv
  <2> QED BY <2>1, <2>2 DEF FrontInv, Fits, Listening
<1>14. CASE StoreWrite \/ StoreFails
  <2>1. /\ pc \in {"store", "write"} /\ pc' = "idle" /\ st' = cur
        /\ UNCHANGED <<cur, handler, hl, sl>>
    BY <1>14 DEF StoreWrite, StoreFails, Answer, FrontInv, inset, server
  <2>2. Fits(cur)
    BY <2>1 DEF FrontInv
  <2> QED BY <2>1, <2>2 DEF FrontInv, Fits, Listening
<1>15. CASE UNCHANGED vars
  BY <1>15 DEF vars, inset, server, FrontInv, Fits, Listening, NeedsRestart
<1> QED BY <1>1, <1>2, <1>3, <1>4, <1>5, <1>6, <1>7, <1>8, <1>9, <1>10, <1>11,
           <1>12, <1>13, <1>14, <1>15
        DEF Next, SetStep

LEMMA FrontInvariant == ServerSafety => []FrontInv
<1>1. Init => FrontInv
  BY DEF Init, FrontInv, Fits, Listening
<1>2. TypeOK /\ ResInv /\ FrontInv /\ [Next]_vars => FrontInv'
  BY FrontNext
<1> QED BY <1>1, <1>2, ResInvariant, PTL DEF ServerSafety

(* Whatever could not be dialled, listened on or saved, and whenever the     *)
(* process was killed and started again, nothing is served that the last Set *)
(* did not ask for.                                                          *)
THEOREM NothingStale ==
  ASSUME OneRelation
  PROVE  Spec => []NothingStaleServed
<1>1. ASSUME TypeOK, ResInv, ServeInv, FrontInv, AtRest, Listening
      PROVE  /\ hl \in {NoPort, cur.http}
             /\ sl \in {NoListener, [port |-> cur.https, cert |-> cur.cert]}
             /\ handler.arg = cur.arg
             /\ ~stranded => handler.rels = cur.rels /\ rel = cur.rels
  <2>1. Fits(cur)
    BY <1>1 DEF FrontInv, AtRest
  <2>2. handler # Nil /\ pc = "idle"
    BY <1>1 DEF ResInv, Listening, AtRest
  <2>3. ~stranded => handler.rels = cur.rels /\ rel = cur.rels
    BY <1>1, <2>2 DEF ServeInv, Served, Holds, OnlyFor
  <2> QED BY <1>1, <2>1, <2>3 DEF Fits
<1>2. TypeOK /\ ResInv /\ ServeInv /\ FrontInv => NothingStaleServed
  BY <1>1 DEF NothingStaleServed
<1>3. ServerSafety => []ServeInv
  BY ServeInvariant
<1> QED BY <1>2, <1>3, ResInvariant, FrontInvariant, PTL DEF Spec, ServerSafety

(* What a finished set leaves is part of what it was asked for.              *)
LEMMA SettledFront ==
  ASSUME FrontInv, pc \in {"store", "write"}
  PROVE  Facade!PartOf(Front, cur)
<1>1. Fits(cur)
  BY DEF FrontInv
<1>2. CASE ~Listening
  BY <1>2 DEF Front, Listening, Facade!PartOf, Facade!Shut
<1>3. CASE Listening
  BY <1>1, <1>3 DEF Fits, Front, Facade!PartOf, Facade!TLSDoor
<1> QED BY <1>2, <1>3

(* The steps of set that end neither it nor the process open or close doors  *)
(* as ServerFront does, or do nothing that it speaks of.                     *)
LEMMA WorkStep ==
  ASSUME ResInv, FrontInv, SetStep,
         pc \notin {"idle", "store", "write"}
  PROVE  \/ Facade!ShutDoors \/ Facade!OpenHTTP \/ Facade!OpenHTTPS
         \/ UNCHANGED Facade!faced
<1> USE DEF Facade!asked, Facade!task, Facade!faced
<1>1. Local /\ pc' \notin {"idle", "write"}
  BY DEF SetStep, SetNothingToServe, SetIncomplete, SetRelations, SetterCloses,
         SetterDials, DialFails, SetUnchanged, SetRestarts, Refill, RefillDone,
         HandlerStarts, HandlerFails, ListenHTTP, ListenHTTPS, BootDone,
         StoreOpen, StoreWrite, StoreFails
<1>2. life # "down"
  BY DEF ResInv
<1>3. /\ Phase = "work" /\ Phase' = "work"
      /\ UNCHANGED <<pending, life = "up", by, cur, file>>
  BY <1>1, <1>2 DEF Local, Phase
<1>a. ASSUME hl' = NoPort, sl' = NoListener
      PROVE  Facade!ShutDoors
  <2>1. Front' = Facade!Shut
    BY <1>a DEF Front, Listening, Facade!Shut
  <2> QED BY <1>3, <2>1 DEF Facade!ShutDoors
<1>b. ASSUME UNCHANGED <<hl, sl, handler>>, pc # "https", pc' # "https"
      PROVE  UNCHANGED Facade!faced
  <2>1. Front' = Front
    BY <1>b DEF Front, Listening
  <2> QED BY <1>3, <2>1
<1>4. CASE SetNothingToServe \/ SetIncomplete
  BY <1>4, <1>a DEF SetNothingToServe, SetIncomplete, CloseResources
<1>5. CASE \/ SetRelations \/ SetterCloses \/ SetterDials \/ SetUnchanged
           \/ Refill \/ RefillDone \/ HandlerStarts \/ HandlerFails
  <2>1. UNCHANGED <<hl, sl, handler>> /\ pc # "https" /\ pc' # "https"
    BY <1>5 DEF SetRelations, SetterCloses, SetterDials, SetUnchanged, Refill,
                RefillDone, HandlerStarts, HandlerFails, server
  <2> QED BY <1>b, <2>1
<1>6. CASE DialFails
  <2>1. pc # "https" /\ pc' # "https"
    BY <1>6 DEF DialFails
  <2>2. CASE CloseResources
    BY <1>a, <2>2 DEF CloseResources
  <2>3. CASE UNCHANGED <<relValid, rel, handler, hl, sl, open, live>>
    BY <1>b, <2>1, <2>3
  <2> QED BY <1>6, <2>2, <2>3 DEF DialFails
<1>7. CASE SetRestarts
  <2>1. pc # "https" /\ pc' # "https"
    BY <1>7 DEF SetRestarts
  <2>2. CASE CloseResources
    BY <1>a, <2>2 DEF CloseResources
  <2>3. CASE UNCHANGED <<relValid, rel, handler, hl, sl, open, live>>
    BY <1>b, <2>1, <2>3
  <2> QED BY <1>7, <2>2, <2>3 DEF SetRestarts
<1>8. CASE ListenHTTP
  <2>1. /\ hl = NoPort /\ sl = NoListener
        /\ pc = "http" /\ pc' = "https" /\ sl' = NoListener
    BY <1>8 DEF ListenHTTP, ResInv, Rebuilding
  <2>2. Front = Facade!Shut
    BY <2>1 DEF Front, Listening, Facade!Shut
  <2>3. CASE hl' = hl
    <3>1. Front' = Front
      BY <2>1, <2>2, <2>3 DEF Front, Listening, Facade!Shut
    <3> QED BY <1>3, <3>1
  <2>4. CASE HttpWanted /\ hl' = cur.http
    <3>1. cur.http # NoPort /\ cur' = cur
      BY <1>1, <2>4 DEF HttpWanted, HttpOK, Local
    <3>2. Front' = [http |-> cur.http, https |-> NoListener, arg |-> cur.arg]
      BY <2>1, <2>4, <3>1 DEF Front, Listening
    <3> QED BY <1>3, <2>2, <3>1, <3>2 DEF Facade!OpenHTTP
  <2> QED BY <1>8, <2>3, <2>4 DEF ListenHTTP
<1>9. CASE ListenHTTPS
  <2>1. /\ sl = NoListener /\ hl \in {NoPort, cur.http}
        /\ pc = "https" /\ pc' = "store" /\ hl' = hl /\ cur' = cur
        /\ handler'.arg = cur.arg
    BY <1>9 DEF ListenHTTPS, Local, ResInv, Rebuilding, FrontInv
  <2>2. CASE sl' = sl
    <3>1. Front' = Front
      BY <2>1, <2>2 DEF Front, Listening
    <3> QED BY <1>3, <3>1
  <2>3. CASE HttpsWanted /\ sl' = [port |-> cur.https, cert |-> cur.cert]
    <3>1. cur.https # NoPort /\ cur.cert # Nil
      BY <2>3 DEF HttpsWanted, HttpsOK
    <3>2. Front' = [http |-> hl, https |-> Facade!TLSDoor(cur), arg |-> cur.arg]
      <4>1. sl' # NoListener
        BY <2>3, <3>1 DEF NoListener
      <4> QED BY <2>1, <2>3, <4>1 DEF Front, Listening, Facade!TLSDoor
    <3>3. Front.http = hl /\ Front.https = NoListener
      BY <2>1 DEF Front
    <3>4. Facade!PartOf(Front, cur)
      BY <2>1 DEF Front, Listening, Facade!PartOf, Facade!Shut
    <3> QED BY <1>3, <3>1, <3>2, <3>3, <3>4 DEF Facade!OpenHTTPS
  <2> QED BY <1>9, <2>2, <2>3 DEF ListenHTTPS
<1> QED BY <1>4, <1>5, <1>6, <1>7, <1>8, <1>9
        DEF SetStep, BootDone, StoreOpen, StoreWrite, StoreFails

(* The steps by which a call ends and is answered.                           *)
LEMMA EndStep ==
  ASSUME ResInv, FrontInv, SetStep, pc \in {"store", "write"}
  PROVE  Facade!Ready \/ Facade!Tear \/ Facade!Save \/ Facade!SaveFails
<1> USE DEF Facade!asked, Facade!task, Facade!Settled, Facade!Answer
<1>1. Facade!PartOf(Front, cur)
  BY SettledFront
<1>2. life # "down" /\ Phase = IF pc = "store" THEN "work" ELSE "save"
  BY DEF ResInv, Phase
<1>3. ASSUME UNCHANGED <<handler, hl, sl>>, pc' # "https"
      PROVE  Front' = Front
  BY <1>3 DEF Front, Listening
<1>4. CASE BootDone
  <2>1. /\ pc = "store" /\ pc' = "idle" /\ by = Boot /\ life' = "up"
        /\ UNCHANGED <<pending, file, by, cur, handler, hl, sl>>
    BY <1>4 DEF BootDone, Answer, inset, server
  <2>2. Phase' = "idle" /\ Front' = Front
    BY <1>3, <2>1 DEF Phase
  <2> QED BY <1>1, <1>2, <2>1, <2>2 DEF Facade!Ready
<1>5. CASE StoreOpen
  <2>1. /\ pc = "store" /\ pc' = "write" /\ by # Boot /\ file' = Torn
        /\ UNCHANGED <<life, pending, by, cur, handler, hl, sl>>
    BY <1>5 DEF StoreOpen, inset
  <2>2. Phase' = "save" /\ Front' = Front
    BY <1>2, <1>3, <2>1 DEF Phase
  <2> QED BY <1>1, <1>2, <2>1, <2>2 DEF Facade!Tear
<1>6. CASE StoreWrite \/ StoreFails
  <2>1. /\ by # Boot /\ pc' = "idle" /\ pending' = [pending EXCEPT ![by] = Nil]
        /\ UNCHANGED <<life, by, cur, handler, hl, sl>>
        /\ file' = file \/ (pc = "write" /\ file' = cur)
        /\ StoreFails => file' = file
    BY <1>6 DEF StoreWrite, StoreFails, Answer, inset, server, FrontInv
  <2>2. Phase' = "idle" /\ Front' = Front
    BY <1>2, <1>3, <2>1 DEF Phase
  <2>3. CASE StoreFails
    BY <1>1, <1>2, <2>1, <2>2, <2>3 DEF Facade!SaveFails
  <2>4. CASE StoreWrite
    <3>1. pc = "write" /\ file' = cur
      BY <2>4 DEF StoreWrite
    <3> QED BY <1>2, <2>1, <2>2, <3>1 DEF Facade!Save
  <2> QED BY <1>6, <2>3, <2>4
<1> QED BY <1>4, <1>5, <1>6
        DEF SetStep, SetNothingToServe, SetIncomplete, SetRelations,
            SetterCloses, SetterDials, DialFails, SetUnchanged, SetRestarts,
            Refill, RefillDone, HandlerStarts, HandlerFails, ListenHTTP,
            ListenHTTPS

(* The steps of the process and of its callers.                              *)
LEMMA ProcessStep ==
  ASSUME ResInv, [Next]_vars, ~SetStep
  PROVE  [Facade!Next]_(Facade!faced)
<1> USE DEF Facade!asked, Facade!task, Facade!faced, Facade!Next
<1>a. ASSUME UNCHANGED <<handler, hl, sl>>, pc # "https", pc' # "https"
      PROVE  Front' = Front
  BY <1>a DEF Front, Listening
<1>b. ASSUME hl' = NoPort, sl' = NoListener
      PROVE  Front' = Facade!Shut
  BY <1>b DEF Front, Listening, Facade!Shut
<1>1. CASE Start
  <2>1. /\ life = "down" /\ life' = "starting" /\ pc = "idle" /\ pc' = "set"
        /\ UNCHANGED <<pending, file, handler, hl, sl>>
    BY <1>1 DEF Start, Begin, ResInv, server
  <2>2. file # Torn /\ by' = Boot /\ cur' = IF file = Absent THEN ZeroState ELSE file
    BY <1>1 DEF Start, Begin
  <2>3. Phase = "off" /\ Phase' = "work" /\ (life = "up") = (life = "up")'
    BY <2>1 DEF Phase
  <2>4. Front' = Front
    BY <1>a, <2>1
  <2> QED BY <2>1, <2>2, <2>3, <2>4 DEF Facade!Start
<1>2. CASE StartUnreadable
  BY <1>2 DEF StartUnreadable, inset, server, Phase, Front, Listening
<1>3. ASSUME NEW c \in Callers, NEW s \in Requests, CallSet(c, s)
      PROVE  Facade!Call(c, s)
  <2>1. Phase' = Phase /\ Front' = Front
    BY <1>3 DEF CallSet, inset, server, Phase, Front, Listening
  <2> QED BY <1>3, <2>1 DEF CallSet, inset, Facade!Call
<1>4. ASSUME NEW c \in Callers, LockSet(c)
      PROVE  Facade!Take(c)
  <2>1. /\ life \in {"up", "dying"} /\ pc = "idle" /\ pc' = "set"
        /\ pending[c] # Nil /\ by' = c /\ cur' = pending[c]
        /\ UNCHANGED <<life, pending, file, handler, hl, sl>>
    BY <1>4 DEF LockSet, Begin, server
  <2>2. Phase = "idle" /\ Phase' = "work"
    BY <2>1 DEF Phase
  <2>3. Front' = Front
    BY <1>a, <2>1
  <2> QED BY <2>1, <2>2, <2>3 DEF Facade!Take
<1>5. CASE Kill
  <2>1. Phase' = Phase /\ Front' = Front
    BY <1>5 DEF Kill, inset, server, Phase, Front, Listening
  <2> QED BY <1>5, <2>1 DEF Kill, inset, Facade!Refuse
<1>6. CASE Shutdown
  <2>1. /\ life = "dying" /\ life' = "down" /\ pc = "idle"
        /\ \A c \in Callers : pending[c] = Nil
        /\ UNCHANGED <<pending, file, by, cur>> /\ hl' = NoPort /\ sl' = NoListener
    BY <1>6 DEF Shutdown, CloseResources, inset
  <2>2. Phase = "idle" /\ Phase' = "off"
    BY <2>1 DEF Phase
  <2> QED BY <1>b, <2>1, <2>2 DEF Facade!Stop
<1>7. CASE Terminate
  <2>1. /\ life # "down" /\ life' = "down"
        /\ pending' = [c \in Callers |-> Nil]
        /\ UNCHANGED <<file, by, cur>> /\ hl' = NoPort /\ sl' = NoListener
    BY <1>7 DEF Terminate, inset
  <2>2. Phase # "off" /\ Phase' = "off"
    BY <2>1 DEF Phase
  <2> QED BY <1>b, <2>1, <2>2 DEF Facade!Die
<1>8. CASE UNCHANGED vars
  BY <1>8 DEF vars, inset, server, Phase, Front, Listening
<1> QED BY <1>1, <1>2, <1>3, <1>4, <1>5, <1>6, <1>7, <1>8 DEF Next

LEMMA FacadeInvariant == ServerSafety => IsServerFront
<1>1. Init => Facade!Init
  BY DEF Init, Facade!Init, Phase, Front, Listening, Facade!Shut
<1>2. ResInv /\ FrontInv /\ [Next]_vars => [Facade!Next]_(Facade!faced)
  <2> SUFFICES ASSUME ResInv, FrontInv, [Next]_vars
               PROVE  [Facade!Next]_(Facade!faced)
    OBVIOUS
  <2>1. CASE ~SetStep
    BY <2>1, ProcessStep
  <2>2. CASE SetStep /\ pc \in {"store", "write"}
    BY <2>2, EndStep DEF Facade!Next
  <2>3. CASE SetStep /\ pc \notin {"store", "write"}
    <3>1. pc # "idle"
      BY <2>3 DEF SetStep, SetNothingToServe, SetIncomplete, SetRelations,
                  SetterCloses, SetterDials, DialFails, SetUnchanged,
                  SetRestarts, Refill, RefillDone, HandlerStarts, HandlerFails,
                  ListenHTTP, ListenHTTPS, BootDone, StoreOpen, StoreWrite,
                  StoreFails
    <3> QED BY <2>3, <3>1, WorkStep DEF Facade!Next
  <2> QED BY <2>1, <2>2, <2>3
<1> QED BY <1>1, <1>2, ResInvariant, FrontInvariant, PTL
        DEF ServerSafety, IsServerFront, Facade!Spec

(* The server implements ServerFront, for any number of relations, callers   *)
(* and requests and whatever fails.                                          *)
THEOREM ImplementsServerFront == Spec => IsServerFront
BY FacadeInvariant, PTL DEF Spec, ServerSafety

-----------------------------------------------------------------------------
(* What the hooks need to know of a Set in progress: it is the one that its  *)
(* connection waits for, and the file is torn while it is being written.     *)
WorkInv ==
  /\ pc # "idle" /\ by # Boot => cur = pending[by]
  /\ pc = "write" => file = Torn

(* A step of set.                                                            *)
LEMMA SetStepDoes ==
  ASSUME TypeOK, ResInv, AskedInv, SetStep
  PROVE  /\ life # "down" /\ life' # "down" /\ pc # "idle"
         /\ UNCHANGED <<by, cur>>
         /\ by = Boot => UNCHANGED <<file, pending>> /\ pc' # "write"
         /\ by # Boot /\ pc' = "idle" =>
              /\ pending' = [pending EXCEPT ![by] = Nil]
              /\ pc = "store" \/ (pc = "write" /\ file' \in {cur, file})
         /\ pc' # "idle" => pending' = pending
         /\ pc' = "write" => file' = Torn
<1> USE DEF Local, inset
<1>1. life # "down" /\ pc # "idle"
  BY DEF ResInv, SetStep, SetNothingToServe, SetIncomplete, SetRelations,
         SetterCloses, SetterDials, DialFails, SetUnchanged, SetRestarts, Refill,
         RefillDone, HandlerStarts, HandlerFails, ListenHTTP, ListenHTTPS,
         BootDone, StoreOpen, StoreWrite, StoreFails
<1>2. CASE \/ SetNothingToServe \/ SetIncomplete \/ SetRelations
           \/ SetterCloses \/ SetterDials \/ DialFails \/ SetUnchanged
           \/ SetRestarts \/ Refill \/ RefillDone \/ HandlerStarts
           \/ HandlerFails \/ ListenHTTP \/ ListenHTTPS
  <2>1. /\ Local /\ pc' \in {"store", "fields", "decide", "handler", "refill",
                             "http", "https"}
    BY <1>2 DEF SetNothingToServe, SetIncomplete, SetRelations, SetterCloses,
                SetterDials, DialFails, SetUnchanged, SetRestarts, Refill,
                RefillDone, HandlerStarts, HandlerFails, ListenHTTP, ListenHTTPS
  <2> QED BY <1>1, <2>1
<1>3. CASE BootDone
  BY <1>1, <1>3 DEF BootDone, Answer
<1>4. CASE StoreOpen
  BY <1>1, <1>4 DEF StoreOpen
<1>5. CASE StoreWrite
  <2>1. by # Boot
    BY <1>5 DEF StoreWrite, AskedInv
  <2> QED BY <1>1, <1>5, <2>1 DEF StoreWrite, Answer
<1>6. CASE StoreFails
  <2>1. by # Boot
    BY <1>6 DEF StoreFails, AskedInv
  <2> QED BY <1>1, <1>6, <2>1 DEF StoreFails, Answer
<1> QED BY <1>2, <1>3, <1>4, <1>5, <1>6 DEF SetStep

LEMMA WorkNext ==
  ASSUME TypeOK, ResInv, AskedInv, WorkInv, [Next]_vars
  PROVE  WorkInv'
<1> USE ServerAssumption DEF WorkInv
<1>1. CASE SetStep
  BY <1>1, SetStepDoes
<1>2. CASE Start
  BY <1>2 DEF Start, Begin
<1>3. CASE StartUnreadable \/ Kill \/ UNCHANGED vars
  BY <1>3 DEF StartUnreadable, Kill, vars, inset
<1>4. ASSUME NEW c \in Callers, NEW s \in Requests, CallSet(c, s) PROVE WorkInv'
  <2>1. /\ pending[c] = Nil /\ UNCHANGED <<pc, by, cur, file>>
        /\ pending' = [pending EXCEPT ![c] = s]
    BY <1>4 DEF CallSet, inset
  <2>2. pc # "idle" /\ by # Boot => by \in Callers /\ by # c
    BY <2>1 DEF TypeOK
  <2> QED BY <2>1, <2>2 DEF TypeOK
<1>5. ASSUME NEW c \in Callers, LockSet(c) PROVE WorkInv'
  BY <1>5 DEF LockSet, Begin
<1>6. CASE Shutdown \/ Terminate
  BY <1>6 DEF Shutdown, Terminate, inset
<1> QED BY <1>1, <1>2, <1>3, <1>4, <1>5, <1>6 DEF Next

-----------------------------------------------------------------------------
(* The hooks.                                                                *)

LEMMA Requested ==
  ASSUME ServiceTypeOK
  PROVE  State(mem, snap.conf, vals) \in Requests
<1>1. mem \in Memory /\ snap.conf \in Confs /\ vals \in RelData
  BY DEF ServiceTypeOK
<1> QED BY <1>1, ServiceAssumption

(* Whatever the hooks, Juju and the machine do, the server makes one of its  *)
(* own steps or none.                                                        *)
LEMMA ServerStep ==
  ASSUME ServiceTypeOK, [ServiceNext]_serviceVars
  PROVE  [Next]_vars
<1>1. CASE ChangeConfig \/ ChangeRelation \/ KillHook
  BY <1>1 DEF ChangeConfig, ChangeRelation, KillHook
<1>2. ASSUME NEW kind \in Kinds, RunDue(kind) PROVE [Next]_vars
  BY <1>2 DEF RunDue, StartHook
<1>3. ASSUME NEW act \in Acts, RunAct(act) PROVE [Next]_vars
  BY <1>3 DEF RunAct, StartHook
<1>4. CASE \/ ConfigChanged \/ RelationChanged \/ StartService \/ StopService
           \/ RestartService \/ Collect \/ Changed \/ StepFails
           \/ CallNotStarted \/ DialTimeout \/ Answered \/ AnswerLost
  <2>1. Alone
    BY <1>4 DEF ConfigChanged, RelationChanged, StartService, StopService,
                RestartService, Collect, Changed, StepFails, CallNotStarted,
                DialTimeout, Answered, AnswerLost, Fail
  <2> QED BY <2>1 DEF Alone
<1>5. CASE OSStop \/ Die \/ Reboot
  <2>1. Terminate \/ UNCHANGED vars
    BY <1>5 DEF OSStop, Die, Reboot
  <2> QED BY <2>1 DEF Next
<1>6. CASE OSStart \/ Respawn
  <2>1. Start \/ StartUnreadable \/ UNCHANGED vars
    BY <1>6 DEF OSStart, Respawn
  <2> QED BY <2>1 DEF Next
<1>7. ASSUME NEW c \in Callers, Call(c) PROVE [Next]_vars
  <2>1. CallSet(c, State(mem, snap.conf, vals))
    BY <1>7 DEF Call
  <2> QED BY <2>1, Requested DEF Next
<1>8. CASE EndHook
  BY <1>8 DEF EndHook
<1>9. CASE ServerWorks
  BY <1>9 DEF ServerWorks, Next
<1>10. ASSUME NEW c \in Callers, ServerLocks(c) PROVE [Next]_vars
  BY <1>10 DEF ServerLocks, Next
<1>11. CASE UNCHANGED serviceVars
  BY <1>11 DEF serviceVars
<1> QED BY <1>1, <1>2, <1>3, <1>4, <1>5, <1>6, <1>7, <1>8, <1>9, <1>10, <1>11
        DEF ServiceNext, HookStep

-----------------------------------------------------------------------------
(* The hook that was run last has done all it had to.                        *)
Done == (at = "end" /\ ~failed) \/ (at = "idle" /\ must = NoHook)

(* A port that the configuration gives is the recorded one.                  *)
Follows(m, c) ==
  /\ c.http # NoPort => m.http = c.http
  /\ c.https # NoPort => m.https = c.https

SamePorts(m, s) == m.http = s.http /\ m.https = s.https

(* What is typed of Juju and of the hook process; the rest of ServiceTypeOK  *)
(* follows from the other invariants.                                        *)
HookTyped ==
  /\ conf \in Confs /\ data \in RelData
  /\ due \in SUBSET Kinds /\ must \in HookSet /\ hook \in HookSet
  /\ mgr \in {"none", "stopped", "started"}
  /\ at \in {"idle", "own", "collect", "changed", "stop", "start", "call",
             "wait", "answered", "lost", "end"}
  /\ snap \in [conf : Confs, data : RelData]
  /\ mem \in Memory /\ stored \in Memory
  /\ mem.started <=> mem.arg # Nil
  /\ vals \in RelData
  /\ back \in {"collect", "end"}
  /\ caller \in Callers /\ failed \in BOOLEAN
  /\ changes \in 0 .. MaxChanges /\ ops \in 0 .. MaxOps
  /\ errors \in 0 .. MaxFaults
  /\ booted \in BOOLEAN /\ overtaken \in BOOLEAN

(* A hook that did not get to its end is the one to be run again.  Unless a  *)
(* hook is due, the last one has seen the configuration and relations that   *)
(* there are; unless the config-changed hook has to run, the ports on disk   *)
(* are those of the configuration.  Once collected, the values are those of  *)
(* the relations, and a hook ends well only after it has collected them.     *)
HookInv ==
  /\ at # "idle" => must = hook /\ hook # NoHook
  /\ failed => at \in {"end", "idle"}
  /\ stored.started <=> stored.arg # Nil
  /\ "config" \in due \/ snap.conf = conf
  /\ "relation" \in due \/ snap.data = data
  /\ "config" \notin due /\ must.kind # "config" => Follows(stored, conf)
  /\ at # "idle" /\ hook.kind # "config" => SamePorts(mem, stored)
  /\ at \notin {"idle", "own"} /\ hook.kind = "config" => Follows(mem, snap.conf)
  /\ at \notin {"idle", "own", "collect"} /\ back = "end" => vals = snap.data
  /\ at = "end" /\ ~failed => back = "end"
  /\ at = "idle" /\ must = NoHook => mem = stored /\ vals = snap.data

(* A step adds a failure within the bound on them.                           *)
LEMMA FaultTyped ==
  ASSUME HookTyped, Fault \/ UNCHANGED errors
  PROVE  errors' \in 0 .. MaxFaults
BY ServiceAssumption DEF HookTyped, Fault

(* The kinds of hooks are told apart.                                        *)
LEMMA HookKinds ==
  /\ \A act \in Acts : act \in HookSet /\ act.kind \in {"start", "stop", "restart"}
  /\ \A act \in Acts : act.kind = "start" => act.arg # Nil /\ act.arg \in Args
  /\ \A kind \in Kinds : [kind |-> kind, arg |-> Nil] \in HookSet
  /\ NoHook \in HookSet /\ NoHook \notin Acts
  /\ \A h \in HookSet :
       h.kind \in {"start", "stop", "restart", "config", "relation", "none"}
  /\ \A h \in HookSet : h.kind = "start" => h.arg \in Args /\ h.arg # Nil
BY ServerAssumption DEF Acts, HookSet, Kinds, NoHook

LEMMA TypedNext ==
  ASSUME HookTyped, HookInv, [ServiceNext]_serviceVars
  PROVE  HookTyped'
<1> USE DEF HookTyped
<1>1. CASE ChangeConfig \/ ChangeRelation
  <2>1. conf' \in Confs /\ due' \in SUBSET Kinds
    BY <1>1 DEF ChangeConfig, ChangeRelation, Kinds
  <2>2. changes' \in 0 .. MaxChanges
    BY <1>1, ServiceAssumption DEF ChangeConfig, ChangeRelation
  <2>3. data' \in RelData
    <3>1. CASE ChangeConfig
      BY <3>1 DEF ChangeConfig
    <3>2. CASE ChangeRelation
      <4>1. PICK v \in Urls \cup {Nil}, f \in Fields :
              data' = [data EXCEPT ![f] = v]
        BY <3>2 DEF ChangeRelation
      <4> QED BY <4>1 DEF RelData
    <3> QED BY <1>1, <3>1, <3>2
  <2> QED BY <1>1, <2>1, <2>2, <2>3
          DEF ChangeConfig, ChangeRelation, process, hist
<1>2. ASSUME NEW h \in HookSet, StartHook(h), due' \subseteq due,
             ops' \in 0 .. MaxOps
      PROVE  HookTyped'
  <2>1. /\ snap' \in [conf : Confs, data : RelData] /\ vals' \in RelData
        /\ failed' = FALSE /\ booted' = FALSE
    BY <1>2 DEF StartHook, RelData, NoSessions
  <2> QED BY <1>2, <2>1 DEF StartHook, HookInv
<1>3. ASSUME NEW kind \in Kinds, RunDue(kind) PROVE HookTyped'
  BY <1>2, <1>3, HookKinds DEF RunDue
<1>4. ASSUME NEW act \in Acts, RunAct(act) PROVE HookTyped'
  <2>1. ops' \in 0 .. MaxOps
    BY <1>4, ServiceAssumption DEF RunAct
  <2> QED BY <1>2, <1>4, <2>1, HookKinds DEF RunAct
<1>5. CASE \/ ConfigChanged \/ RelationChanged \/ StartService \/ StopService
           \/ RestartService \/ Collect \/ Changed \/ OSStop \/ OSStart
           \/ Answered
  <2>1. /\ InHook /\ failed' = failed /\ errors' = errors
        /\ mgr' \in {"none", "stopped", "started"}
        /\ at' \in {"collect", "changed", "stop", "start", "call", back}
        /\ back' \in {"collect", "end"} /\ vals' \in RelData
    BY <1>5 DEF ConfigChanged, RelationChanged, StartService, StopService,
                RestartService, Collect, Changed, OSStop, OSStart, Answered,
                Alone
  <2>2. mem' \in Memory /\ (mem'.started <=> mem'.arg # Nil)
    <3>1. CASE ConfigChanged
      <4>1. snap.conf.http \in PortSet /\ snap.conf.https \in PortSet
        BY ServiceAssumption
      <4> QED BY <3>1, <4>1 DEF ConfigChanged, FollowConf, Follow, Memory
    <3>2. CASE StartService
      BY <3>2, HookKinds DEF StartService, Memory
    <3>3. CASE StopService
      BY <3>3 DEF StopService, Memory
    <3>4. CASE OSStart
      BY <3>4 DEF OSStart, Memory
    <3>5. CASE mem' = mem
      BY <3>5
    <3> QED BY <1>5, <3>1, <3>2, <3>3, <3>4, <3>5
            DEF RelationChanged, RestartService, Collect, Changed, OSStop,
                Answered
  <2> QED BY <2>1, <2>2 DEF InHook, juju, hist
<1>6. CASE StepFails \/ CallNotStarted \/ DialTimeout \/ AnswerLost
  <2>1. Fail /\ (Fault \/ UNCHANGED errors)
    BY <1>6 DEF StepFails, CallNotStarted, DialTimeout, AnswerLost
  <2> QED BY <2>1, FaultTyped DEF Fail, InHook, Alone, juju, hist
<1>7. ASSUME NEW c \in Callers, Call(c) PROVE HookTyped'
  BY <1>7 DEF Call, juju, hist
<1>8. CASE EndHook
  BY <1>8, HookKinds DEF EndHook, process, hist
<1>9. CASE KillHook
  BY <1>9, FaultTyped DEF KillHook, process, hist, juju
<1>10. CASE ServerWorks
  <2>1. at' \in {at, "lost", "answered"} /\ (Fault \/ UNCHANGED errors)
    BY <1>10 DEF ServerWorks
  <2> QED BY <1>10, <2>1, FaultTyped DEF ServerWorks, Aside, process, hist, juju
<1>11. ASSUME NEW c \in Callers, ServerLocks(c) PROVE HookTyped'
  BY <1>11 DEF ServerLocks, Aside, process, juju
<1>12. CASE Die \/ Respawn
  <2>1. at' \in {at, "lost"} /\ (Fault \/ UNCHANGED errors)
    BY <1>12 DEF Die, Respawn
  <2> QED BY <1>12, <2>1, FaultTyped DEF Die, Respawn, Aside, process, hist, juju
<1>13. CASE Reboot
  BY <1>13, FaultTyped DEF Reboot, process, juju
<1>14. CASE UNCHANGED serviceVars
  BY <1>14 DEF serviceVars, process, hist, juju
<1> QED BY <1>1, <1>3, <1>4, <1>5, <1>6, <1>7, <1>8, <1>9, <1>10, <1>11, <1>12,
           <1>13, <1>14
        DEF ServiceNext, HookStep

LEMMA HookInvNext ==
  ASSUME HookTyped, HookInv, [ServiceNext]_serviceVars
  PROVE  HookInv'
<1> USE DEF HookInv, HookTyped
<1>1. CASE ChangeConfig
  BY <1>1 DEF ChangeConfig, process
<1>2. CASE ChangeRelation
  BY <1>2 DEF ChangeRelation, process
<1>3. ASSUME NEW kind \in Kinds, RunDue(kind) PROVE HookInv'
  <2>1. /\ at' = "own" /\ hook' = [kind |-> kind, arg |-> Nil] /\ must' = hook'
        /\ snap' = [conf |-> conf, data |-> data] /\ mem' = stored
        /\ failed' = FALSE /\ due' = due \ {kind}
        /\ UNCHANGED <<conf, data, stored>>
        /\ must = NoHook \/ must.kind = kind
    BY <1>3 DEF RunDue, StartHook
  <2>2. hook' # NoHook /\ hook'.kind = kind /\ kind \in {"config", "relation"}
    BY <2>1 DEF NoHook, Kinds
  <2>3. "config" \notin due' /\ kind # "config" => Follows(stored, conf)
    BY <2>1, <2>2 DEF NoHook
  <2> QED BY <2>1, <2>2, <2>3 DEF Follows, SamePorts
<1>4. ASSUME NEW act \in Acts, RunAct(act) PROVE HookInv'
  <2>1. /\ at' = "own" /\ hook' = act /\ must' = act
        /\ snap' = [conf |-> conf, data |-> data] /\ mem' = stored
        /\ failed' = FALSE /\ due' = due
        /\ UNCHANGED <<conf, data, stored>>
        /\ must = NoHook \/ must = act
    BY <1>4 DEF RunAct, StartHook
  <2>2. act # NoHook /\ act.kind \in {"start", "stop", "restart"}
    BY HookKinds
  <2>3. must.kind # "config"
    BY <2>1, <2>2 DEF NoHook
  <2> QED BY <2>1, <2>2, <2>3 DEF Follows, SamePorts
<1>5. CASE ConfigChanged
  <2>1. /\ at = "own" /\ at' = "collect" /\ hook.kind = "config"
        /\ mem' = FollowConf(mem, snap.conf)
        /\ UNCHANGED <<juju, stored, hook, snap, vals, back, failed>>
    BY <1>5 DEF ConfigChanged, InHook
  <2>2. Follows(mem', snap.conf)
    BY <2>1 DEF Follows, FollowConf, Follow, Memory
  <2> QED BY <2>1, <2>2 DEF juju, Follows, SamePorts
<1>6. CASE RelationChanged \/ RestartService \/ StartService \/ StopService
  <2>1. /\ at = "own" /\ at' \in {"collect", "changed", "stop"}
        /\ hook.kind # "config"
        /\ back' = back \/ back' = "collect"
        /\ at' # "collect" => back' = "collect"
        /\ UNCHANGED <<juju, stored, hook, snap, vals, failed>>
    BY <1>6 DEF RelationChanged, RestartService, StartService, StopService, InHook
  <2>2. mem'.http = mem.http /\ mem'.https = mem.https
    <3>1. CASE RelationChanged \/ RestartService
      BY <3>1 DEF RelationChanged, RestartService
    <3>2. CASE StartService
      BY <3>2 DEF StartService, Memory
    <3>3. CASE StopService
      BY <3>3 DEF StopService, Memory
    <3> QED BY <1>6, <3>1, <3>2, <3>3
  <2>3. back' = "end" => back = "end"
    BY <2>1
  <2>4. at' \notin {"idle", "own", "end"}
    BY <2>1
  <2> QED BY <2>1, <2>2, <2>3, <2>4 DEF juju, Follows, SamePorts
<1>7. CASE Collect
  <2>1. /\ at = "collect" /\ at' = "changed" /\ vals' = snap.data
        /\ UNCHANGED <<juju, stored, hook, snap, mem, failed>>
    BY <1>7 DEF Collect, InHook
  <2> QED BY <2>1 DEF juju, Follows, SamePorts
<1>8. CASE Changed \/ OSStop \/ OSStart \/ Answered
  <2>1. /\ at \in {"changed", "stop", "start", "answered"}
        /\ at' \in {"stop", "call", "start", back}
        /\ UNCHANGED <<juju, stored, hook, snap, vals, back, failed>>
    BY <1>8 DEF Changed, OSStop, OSStart, Answered, InHook
  <2>2. mem'.http = mem.http /\ mem'.https = mem.https
    BY <1>8 DEF Changed, OSStop, OSStart, Answered, Memory
  <2>3. /\ at' = "end" => back = "end"
        /\ at' \notin {"idle", "own"}
        /\ back = "end" => vals = snap.data
    BY <2>1
  <2> QED BY <2>1, <2>2, <2>3 DEF juju, Follows, SamePorts
<1>9. CASE StepFails \/ CallNotStarted \/ DialTimeout \/ AnswerLost
  <2>1. /\ at \in {"changed", "stop", "start", "call", "lost"}
        /\ at' = "end" /\ failed' = TRUE
        /\ UNCHANGED <<juju, stored, hook, snap, mem, vals, back>>
    BY <1>9 DEF StepFails, CallNotStarted, DialTimeout, AnswerLost, Fail, InHook
  <2> QED BY <2>1 DEF juju, Follows, SamePorts
<1>10. ASSUME NEW c \in Callers, Call(c) PROVE HookInv'
  <2>1. /\ at = "call" /\ at' = "wait"
        /\ UNCHANGED <<juju, stored, hook, snap, mem, vals, back, failed>>
    BY <1>10 DEF Call
  <2> QED BY <2>1 DEF juju, Follows, SamePorts
<1>11. CASE EndHook
  <2>1. /\ at = "end" /\ at' = "idle" /\ stored' = mem
        /\ must' = IF failed THEN hook ELSE NoHook
        /\ UNCHANGED <<conf, data, due, process>>
    BY <1>11 DEF EndHook
  <2>2. "config" \notin due /\ must'.kind # "config" => Follows(mem, conf)
    <3>1. CASE hook.kind = "config"
      <4>1. snap.conf = conf \/ "config" \in due
        OBVIOUS
      <4>2. Follows(mem, snap.conf)
        BY <2>1, <3>1
      <4> QED BY <4>1, <4>2
    <3>2. CASE hook.kind # "config"
      <4>1. SamePorts(mem, stored) /\ must = hook
        BY <2>1, <3>2
      <4>2. "config" \notin due => Follows(stored, conf)
        BY <3>2, <4>1
      <4> QED BY <4>1, <4>2 DEF Follows, SamePorts
    <3> QED BY <3>1, <3>2
  <2>3. ~failed => vals = snap.data
    BY <2>1
  <2> QED BY <2>1, <2>2, <2>3 DEF process, Follows, SamePorts
<1>12. CASE KillHook \/ Reboot
  <2>1. /\ at' = "idle" /\ UNCHANGED <<juju, process, stored>>
        /\ at = "idle" => at' = at
    BY <1>12 DEF KillHook, Reboot
  <2> QED BY <2>1 DEF juju, process, Follows, SamePorts
<1>13. CASE ServerWorks \/ Die \/ Respawn \/ \E c \in Callers : ServerLocks(c)
  <2>1. /\ at' = at \/ (at = "wait" /\ at' \in {"lost", "answered"})
        /\ UNCHANGED <<juju, process, stored>>
    BY <1>13 DEF ServerWorks, Die, Respawn, ServerLocks, Aside
  <2> QED BY <2>1 DEF juju, process, Follows, SamePorts
<1>14. CASE UNCHANGED serviceVars
  BY <1>14 DEF serviceVars, juju, process, Follows, SamePorts
<1> QED BY <1>1, <1>2, <1>3, <1>4, <1>5, <1>6, <1>7, <1>8, <1>9, <1>10, <1>11,
           <1>12, <1>13, <1>14
        DEF ServiceNext, HookStep

-----------------------------------------------------------------------------
(* What the hook asks the server for.                                        *)
Request == State(mem, snap.conf, vals)

(* A hook stops the service only if there is nothing to serve, or to restart *)
(* it, and calls it only if there is; while it waits, its connection waits   *)
(* for what it asked for.                                                    *)
CallInv ==
  /\ at = "stop" /\ ~Restarting => ~Wants(mem, snap.conf)
  /\ at = "start" => Restarting \/ Wants(mem, snap.conf)
  /\ at \in {"call", "wait", "answered"} => Wants(mem, snap.conf)
  /\ at = "wait" => pending[caller] = Request

(* What is wanted depends on neither the steps of the service manager nor    *)
(* those of the server.                                                      *)
LEMMA SameRequest ==
  ASSUME HookTyped, UNCHANGED <<snap, vals>>,
         mem' = mem \/ mem' = [mem EXCEPT !.inst = TRUE]
  PROVE  /\ Wants(mem, snap.conf)' <=> Wants(mem, snap.conf)
         /\ Request' = Request
BY DEF HookTyped, Memory, Wants, State, Request

LEMMA CallInvNext ==
  ASSUME TypeOK, ResInv, AskedInv, WorkInv, HookTyped, HookInv, CallInv,
         [ServiceNext]_serviceVars
  PROVE  CallInv'
<1> USE DEF CallInv
<1>1. CASE \/ ChangeConfig \/ ChangeRelation \/ Respawn \/ UNCHANGED serviceVars
  <2>1. UNCHANGED <<at, process, pending>>
    BY <1>1 DEF ChangeConfig, ChangeRelation, vars, Aside, Respawn, Start,
                StartUnreadable, serviceVars
  <2> QED BY <2>1, SameRequest DEF process, Restarting
<1>2. CASE \/ \E kind \in Kinds : RunDue(kind)
           \/ \E act \in Acts : RunAct(act)
           \/ ConfigChanged \/ RelationChanged \/ StartService \/ StopService
           \/ Collect \/ EndHook \/ KillHook \/ Reboot
           \/ StepFails \/ CallNotStarted \/ DialTimeout \/ AnswerLost
  <2>1. at' \in {"own", "collect", "changed", "end", "idle"}
    BY <1>2 DEF RunDue, RunAct, StartHook, ConfigChanged, RelationChanged,
                StartService, StopService, Collect, EndHook, KillHook, Reboot,
                StepFails, CallNotStarted, DialTimeout, AnswerLost, Fail
  <2> QED BY <2>1
<1>3. CASE RestartService
  BY <1>3 DEF RestartService, InHook, Restarting
<1>4. CASE Changed
  <2>1. /\ at' = CASE ~Wants(mem, snap.conf) -> "stop"
                   [] Wants(mem, snap.conf) /\ Alive -> "call"
                   [] OTHER -> "start"
        /\ UNCHANGED <<mem, snap, vals, hook, back>>
    BY <1>4 DEF Changed, InHook
  <2>2. Wants(mem, snap.conf)' <=> Wants(mem, snap.conf)
    BY <2>1, SameRequest
  <2> QED BY <2>1, <2>2
<1>5. CASE OSStop
  <2>1. /\ at = "stop" /\ at' = (IF Restarting THEN "start" ELSE back)
        /\ UNCHANGED <<hook, back>>
    BY <1>5 DEF OSStop, InHook
  <2> QED BY <2>1 DEF HookTyped, Restarting
<1>6. CASE OSStart
  <2>1. /\ at = "start" /\ at' = (IF Restarting THEN back ELSE "call")
        /\ mem' = [mem EXCEPT !.inst = TRUE] /\ UNCHANGED <<snap, vals>>
    BY <1>6 DEF OSStart, InHook
  <2> QED BY <2>1, SameRequest DEF HookTyped
<1>7. ASSUME NEW c \in Callers, Call(c) PROVE CallInv'
  <2>1. /\ at = "call" /\ at' = "wait" /\ caller' = c
        /\ pending' = [pending EXCEPT ![c] = Request]
        /\ UNCHANGED <<snap, vals, mem>>
    BY <1>7 DEF Call, CallSet, Request
  <2> QED BY <2>1, SameRequest DEF TypeOK
<1>8. CASE Answered
  BY <1>8 DEF Answered, HookTyped
<1>9. CASE ServerWorks
  <2>1. /\ at' = at \/ (at = "wait" /\ at' \in {"lost", "answered"})
        /\ at' = "wait" => ~(by = caller /\ SetReturns)
        /\ UNCHANGED process
    BY <1>9 DEF ServerWorks, Aside
  <2>2. at' = "wait" => pending'[caller] = pending[caller]
    <3>1. SetStep
      BY <1>9 DEF ServerWorks
    <3>2. /\ by = Boot \/ pc' # "idle" => pending' = pending
          /\ by # Boot /\ pc' = "idle" => pending' = [pending EXCEPT ![by] = Nil]
      BY <3>1, SetStepDoes
    <3>3. caller \in Callers
      BY DEF HookTyped
    <3> QED BY <2>1, <3>2, <3>3 DEF SetReturns, TypeOK
  <2> QED BY <2>1, <2>2, SameRequest DEF process, Restarting
<1>10. ASSUME NEW c \in Callers, ServerLocks(c) PROVE CallInv'
  <2>1. UNCHANGED <<at, process, pending>>
    BY <1>10 DEF ServerLocks, LockSet, Aside
  <2> QED BY <2>1, SameRequest DEF process, Restarting
<1>11. CASE Die
  <2>1. at' # "wait" /\ (at' = at \/ at' = "lost") /\ UNCHANGED process
    BY <1>11 DEF Die, Aside
  <2> QED BY <2>1, SameRequest DEF process, Restarting
<1> QED BY <1>1, <1>2, <1>3, <1>4, <1>5, <1>6, <1>7, <1>8, <1>9, <1>10, <1>11
        DEF ServiceNext, HookStep

(* Nothing runs that was never installed.                                    *)
ManagerInv == mgr = "none" => life = "down"

(* The state is well typed: what the types do not say by themselves is that  *)
(* a hook that calls has started the service, and that its Set is waiting.   *)
LEMMA TypesAssemble ==
  ASSUME TypeOK, HookTyped, HookInv, CallInv, ManagerInv
  PROVE  ServiceTypeOK
<1>1. at \in {"call", "wait"} => mem.started
  BY DEF CallInv, Wants
<1>2. at = "wait" => pending[caller] # Nil
  <2>1. Request \in ServerState
    BY ServerAssumption, ServiceAssumption DEF HookTyped, Request
  <2> QED BY <2>1, ServerAssumption DEF CallInv
<1> QED BY <1>1, <1>2 DEF ServiceTypeOK, HookTyped, ManagerInv

LEMMA ManagerNext ==
  ASSUME TypeOK, ResInv, AskedInv, ManagerInv, [ServiceNext]_serviceVars
  PROVE  ManagerInv'
<1> USE DEF ManagerInv
<1>1. CASE ServerWorks
  <2>1. SetStep /\ mgr' = mgr
    BY <1>1 DEF ServerWorks, Aside
  <2> QED BY <2>1, SetStepDoes
<1>2. ASSUME NEW c \in Callers, ServerLocks(c) PROVE mgr' # "none"
  BY <1>2 DEF ServerLocks, LockSet, Aside
<1>3. CASE Respawn \/ OSStart
  BY <1>3 DEF Respawn, OSStart, Aside
<1>4. CASE Die \/ Reboot \/ OSStop
  <2>1. mgr' = "none" => mgr = "none"
    BY <1>4 DEF Die, Reboot, OSStop, Aside
  <2>2. life = "down" => life' = "down"
    BY <1>4 DEF Die, Reboot, OSStop, Alive, vars
  <2> QED BY <2>1, <2>2
<1>5. ASSUME NEW c \in Callers, Call(c) PROVE mgr' = mgr /\ life' = life
  BY <1>5 DEF Call, CallSet
<1>6. CASE UNCHANGED <<vars, mgr>>
  BY <1>6 DEF vars
<1>7. CASE \/ \E kind \in Kinds : RunDue(kind)
           \/ \E act \in Acts : RunAct(act)
           \/ ConfigChanged \/ RelationChanged \/ StartService \/ StopService
           \/ RestartService \/ Changed \/ Answered
           \/ Collect \/ EndHook \/ KillHook \/ ChangeConfig \/ ChangeRelation
           \/ StepFails \/ CallNotStarted \/ DialTimeout \/ AnswerLost
           \/ UNCHANGED serviceVars
  <2>1. UNCHANGED <<vars, mgr>>
    BY <1>7 DEF RunDue, RunAct, StartHook, ConfigChanged, RelationChanged,
                StartService, StopService, RestartService, Changed, Answered,
                Collect, EndHook, KillHook, ChangeConfig, ChangeRelation,
                StepFails, CallNotStarted, DialTimeout, AnswerLost, Fail, Alone,
                juju, serviceVars
  <2> QED BY <1>6, <2>1
<1> QED BY <1>1, <1>2, <1>3, <1>4, <1>5, <1>7 DEF ServiceNext, HookStep

-----------------------------------------------------------------------------
(* When a hook has ended well and there is nothing to serve, the process is  *)
(* down and the service manager does not start it again, unless a boot does. *)
DownInv ==
  Done => booted \/ Wants(mem, snap.conf) \/ (mgr # "started" /\ life = "down")

LEMMA DownInvNext ==
  ASSUME TypeOK, ResInv, AskedInv, HookTyped, HookInv, CallInv, DownInv,
         [ServiceNext]_serviceVars
  PROVE  DownInv'
<1> USE DEF DownInv, Done
<1>1. CASE \/ ChangeConfig \/ ChangeRelation \/ UNCHANGED serviceVars
  <2>1. UNCHANGED <<at, must, process, booted, mgr, life>>
    BY <1>1 DEF ChangeConfig, ChangeRelation, hist, vars, serviceVars, juju
  <2> QED BY <2>1, SameRequest DEF process
<1>2. CASE \/ \E kind \in Kinds : RunDue(kind)
           \/ \E act \in Acts : RunAct(act)
           \/ ConfigChanged \/ RelationChanged \/ StartService \/ StopService
           \/ RestartService \/ Collect \/ Changed
           \/ \E c \in Callers : Call(c)
  <2>1. at' \in {"own", "collect", "changed", "stop", "call", "start", "wait"}
    BY <1>2 DEF RunDue, RunAct, StartHook, ConfigChanged, RelationChanged,
                StartService, StopService, RestartService, Collect, Changed, Call
  <2> QED BY <2>1
<1>3. CASE StepFails \/ CallNotStarted \/ DialTimeout \/ AnswerLost
  BY <1>3 DEF StepFails, CallNotStarted, DialTimeout, AnswerLost, Fail
<1>4. CASE OSStop
  <2>1. /\ mgr' = (IF mgr = "none" THEN "none" ELSE "stopped")
        /\ IF life # "down" THEN Terminate ELSE UNCHANGED vars
    BY <1>4 DEF OSStop, Alive
  <2>2. life' = "down"
    BY <2>1 DEF Terminate, vars
  <2> QED BY <2>1, <2>2
<1>5. CASE OSStart
  <2>1. at' = (IF Restarting THEN back ELSE "call")
    BY <1>5 DEF OSStart
  <2>2. Restarting => back = "collect"
    BY DEF Restarting
  <2> QED BY <2>1, <2>2
<1>6. CASE Answered
  <2>1. Wants(mem, snap.conf) /\ UNCHANGED <<mem, snap, vals>>
    BY <1>6 DEF Answered, InHook, CallInv
  <2> QED BY <2>1, SameRequest
<1>7. CASE EndHook
  <2>1. /\ at = "end" /\ must' = (IF failed THEN hook ELSE NoHook)
        /\ UNCHANGED <<process, hist, mgr, vars>>
    BY <1>7 DEF EndHook
  <2>2. must' = NoHook => ~failed
    BY <2>1 DEF HookInv
  <2> QED BY <2>1, <2>2, SameRequest DEF process, hist, vars
<1>8. CASE KillHook
  <2>1. must' # NoHook /\ at' = "idle"
    BY <1>8 DEF KillHook, HookInv, juju
  <2> QED BY <2>1
<1>9. CASE ServerWorks \/ \E c \in Callers : ServerLocks(c)
  <2>1. /\ at' = at \/ at' \in {"lost", "answered"}
        /\ UNCHANGED <<must, process, mgr, booted>>
    BY <1>9 DEF ServerWorks, ServerLocks, Aside, juju, hist
  <2>2. life # "down"
    BY <1>9, SetStepDoes DEF ServerWorks, ServerLocks, LockSet
  <2> QED BY <2>1, <2>2, SameRequest DEF process
<1>10. CASE Die \/ Respawn
  <2>1. /\ at' = at \/ at' = "lost"
        /\ UNCHANGED <<must, process, mgr, booted>>
        /\ life' = "down" \/ mgr = "started"
    BY <1>10 DEF Die, Respawn, Terminate, Aside, juju, hist
  <2> QED BY <2>1, SameRequest DEF process
<1>11. CASE Reboot
  <2>1. /\ at' = "idle" /\ UNCHANGED <<must, process>> /\ life' = "down"
        /\ booted' = TRUE \/ (mgr' = mgr /\ booted' = booted)
    BY <1>11 DEF Reboot, Terminate, Alive, juju, vars
  <2>2. must' = NoHook => at = "idle"
    BY <2>1 DEF HookInv
  <2> QED BY <2>1, <2>2, SameRequest DEF process
<1> QED BY <1>1, <1>2, <1>3, <1>4, <1>5, <1>6, <1>7, <1>8, <1>9, <1>10, <1>11
        DEF ServiceNext, HookStep

(* From the answer to the call of a hook on, nobody waits on its connection, *)
(* and unless a Set that an earlier hook left behind was still to come, the  *)
(* file holds what the hook asked for, and so does a process that runs.      *)
SetInv ==
  Wants(mem, snap.conf) /\ (at = "answered" \/ Done) =>
    /\ pending[caller] = Nil
    /\ ~booted /\ ~overtaken =>
         /\ file = Request
         /\ life # "down" => cur = Request /\ (pc = "idle" \/ by = Boot)

LEMMA SetInvNext ==
  ASSUME TypeOK, ResInv, AskedInv, WorkInv, HookTyped, HookInv, CallInv, SetInv,
         [ServiceNext]_serviceVars
  PROVE  SetInv'
<1> USE DEF SetInv, Done
<1>0. Request \in ServerState
  BY ServerAssumption, ServiceAssumption DEF HookTyped, Request
<1>1. CASE \/ ChangeConfig \/ ChangeRelation \/ UNCHANGED serviceVars
  <2>1. UNCHANGED <<at, must, process, hist, vars>>
    BY <1>1 DEF ChangeConfig, ChangeRelation, serviceVars, juju
  <2> QED BY <2>1, SameRequest DEF process, hist, vars, inset
<1>2. CASE \/ \E kind \in Kinds : RunDue(kind)
           \/ \E act \in Acts : RunAct(act)
           \/ ConfigChanged \/ RelationChanged \/ StartService \/ StopService
           \/ RestartService \/ Collect \/ Changed
           \/ \E c \in Callers : Call(c)
  <2>1. at' \in {"own", "collect", "changed", "stop", "call", "start", "wait"}
    BY <1>2 DEF RunDue, RunAct, StartHook, ConfigChanged, RelationChanged,
                StartService, StopService, RestartService, Collect, Changed, Call
  <2> QED BY <2>1
<1>3. CASE StepFails \/ CallNotStarted \/ DialTimeout \/ AnswerLost
  BY <1>3 DEF StepFails, CallNotStarted, DialTimeout, AnswerLost, Fail
<1>4. CASE OSStop
  <2>1. /\ at = "stop" /\ at' = (IF Restarting THEN "start" ELSE back)
        /\ UNCHANGED <<snap, mem, vals>>
    BY <1>4 DEF OSStop, InHook
  <2> QED BY <2>1, SameRequest DEF CallInv, HookTyped
<1>5. CASE OSStart
  <2>1. at' = (IF Restarting THEN back ELSE "call")
    BY <1>5 DEF OSStart
  <2>2. Restarting => back = "collect"
    BY DEF Restarting
  <2> QED BY <2>1, <2>2
<1>6. CASE Answered
  <2>1. /\ at = "answered" /\ UNCHANGED <<mem, snap, vals, caller, hist, vars>>
    BY <1>6 DEF Answered, InHook, Alone
  <2> QED BY <2>1, SameRequest DEF hist, vars, inset
<1>7. CASE EndHook
  <2>1. /\ at = "end" /\ must' = (IF failed THEN hook ELSE NoHook)
        /\ UNCHANGED <<process, hist, vars>>
    BY <1>7 DEF EndHook
  <2>2. at' \notin {"end", "answered"}
    BY <1>7 DEF EndHook
  <2>3. must' = NoHook => ~failed
    BY <2>1 DEF HookInv
  <2> QED BY <2>1, <2>2, <2>3, SameRequest DEF process, hist, vars, inset
<1>8. CASE KillHook
  <2>1. must' # NoHook /\ at' = "idle"
    BY <1>8 DEF KillHook, HookInv, juju
  <2> QED BY <2>1
<1>9. CASE ServerWorks
  <2>1. /\ SetStep /\ UNCHANGED <<must, process, hist>>
        /\ at' = IF at = "wait" /\ by = caller /\ SetReturns
                   THEN IF SaveFailed THEN "lost" ELSE "answered"
                   ELSE at
    BY <1>9 DEF ServerWorks, Aside, juju
  <2>2. CASE at' = at
    <3> SUFFICES ASSUME Wants(mem, snap.conf), at = "answered" \/ Done
                 PROVE  SetInv'
      BY <2>1, <2>2, SameRequest DEF process
    <3>1. pending'[caller] = Nil
      BY <2>1, SetStepDoes DEF TypeOK, HookTyped
    <3>2. ASSUME ~booted, ~overtaken
          PROVE  file' = Request /\ cur' = Request /\ (pc' = "idle" \/ by' = Boot)
      BY <2>1, <3>2, SetStepDoes
    <3> QED BY <2>1, <3>1, <3>2, SameRequest DEF process, hist
  <2>3. CASE at = "wait" /\ at' = "lost"
    BY <2>3
  <2>4. CASE at = "wait" /\ at' = "answered"
    <3>1. by = caller /\ pc' = "idle" /\ by # Boot /\ pc # "store" /\ file' # Torn
      BY <2>1, <2>4 DEF SetReturns, SaveFailed
    <3>2. /\ pending' = [pending EXCEPT ![caller] = Nil] /\ pc = "write"
          /\ file' \in {cur, file} /\ cur' = cur /\ pc # "idle"
      BY <2>1, <3>1, SetStepDoes
    <3>3. cur = Request /\ file = Torn
      BY <2>4, <3>1, <3>2 DEF CallInv, WorkInv
    <3>4. pending'[caller] = Nil
      BY <3>2 DEF TypeOK, HookTyped
    <3> QED BY <2>1, <3>1, <3>2, <3>3, <3>4, SameRequest DEF process
  <2> QED BY <2>1, <2>2, <2>3, <2>4
<1>10. ASSUME NEW c \in Callers, ServerLocks(c) PROVE SetInv'
  <2>1. /\ pending[c] # Nil /\ overtaken' = (c # caller)
        /\ UNCHANGED <<at, must, process, booted, pending>>
    BY <1>10 DEF ServerLocks, LockSet, Aside, juju
  <2> QED BY <2>1, SameRequest DEF process
<1>11. CASE Die \/ Reboot
  <2>1. /\ Terminate \/ UNCHANGED vars
        /\ life' = "down"
        /\ UNCHANGED <<must, process, overtaken>>
        /\ booted' = TRUE \/ booted' = booted
        /\ at' \in {at, "lost"} \/ (at' = "idle" /\ (must = NoHook => at = "idle"))
    BY <1>11 DEF Die, Reboot, Terminate, Alive, vars, Aside, juju, hist, HookInv
  <2>2. file' = file /\ pending'[caller] \in {Nil, pending[caller]}
    BY <2>1 DEF Terminate, vars, HookTyped
  <2> QED BY <2>1, <2>2, SameRequest DEF process
<1>12. CASE Respawn
  <2>1. /\ Start \/ StartUnreadable
        /\ UNCHANGED <<at, must, process, hist>>
    BY <1>12 DEF Respawn, Aside, juju
  <2>2. UNCHANGED <<file, pending>> /\ life = "down"
    BY <2>1 DEF Start, StartUnreadable
  <2>3. ASSUME file = Request
        PROVE  life' # "down" => cur' = Request /\ by' = Boot
    BY <1>0, <2>1, <2>2, <2>3, ServerAssumption DEF Start, StartUnreadable, Begin
  <2> QED BY <2>1, <2>2, <2>3, SameRequest DEF process, hist
<1> QED BY <1>1, <1>2, <1>3, <1>4, <1>5, <1>6, <1>7, <1>8, <1>9, <1>10, <1>11,
           <1>12
        DEF ServiceNext, HookStep

-----------------------------------------------------------------------------
ServiceInv ==
  /\ TypeOK /\ ResInv /\ AskedInv /\ WorkInv
  /\ HookTyped /\ HookInv /\ CallInv /\ ManagerInv /\ DownInv /\ SetInv

LEMMA ServiceTyped == ServiceInv => ServiceTypeOK
BY TypesAssemble DEF ServiceInv

LEMMA ServiceInvInit ==
  ASSUME ServiceInit
  PROVE  ServiceInv
<1>1. Init
  BY DEF ServiceInit
<1>2. TypeOK /\ ResInv /\ AskedInv
  BY <1>1, ResInit, AskedInit
<1>3. WorkInv
  BY <1>1 DEF Init, WorkInv
<1>4. ~Wants(mem, snap.conf) /\ NoMemory.arg = Nil
  BY DEF ServiceInit, NoMemory, Wants
<1>5. HookTyped
  <2>1. NoMemory \in Memory /\ NoSessions \in RelData
    BY DEF NoMemory, Memory, NoSessions, RelData, PortSet
  <2>2. /\ conf \in Confs /\ caller \in Callers /\ due = {"config"}
        /\ must = NoHook /\ hook = NoHook /\ mgr = "none" /\ at = "idle"
        /\ snap = [conf |-> conf, data |-> data] /\ data = NoSessions
        /\ mem = NoMemory /\ stored = NoMemory /\ vals = NoSessions
        /\ back = "end" /\ failed = FALSE /\ booted = FALSE
        /\ overtaken = FALSE
    BY DEF ServiceInit
  <2>3. ~mem.started /\ mem.arg = Nil
    BY <2>2 DEF NoMemory
  <2>4. /\ changes \in 0 .. MaxChanges /\ ops \in 0 .. MaxOps
        /\ errors \in 0 .. MaxFaults
    BY ServiceAssumption DEF ServiceInit
  <2> QED BY <2>1, <2>2, <2>3, <2>4, HookKinds DEF HookTyped, Kinds
<1>6. HookInv
  BY DEF ServiceInit, HookInv, NoMemory
<1>7. CallInv /\ DownInv /\ SetInv
  BY <1>1, <1>4 DEF ServiceInit, Init, CallInv, DownInv, SetInv
<1>8. ManagerInv
  BY <1>1 DEF Init, ManagerInv
<1> QED BY <1>2, <1>3, <1>5, <1>6, <1>7, <1>8 DEF ServiceInv

LEMMA ServiceInvNext ==
  ASSUME ServiceInv, [ServiceNext]_serviceVars
  PROVE  ServiceInv'
<1>1. /\ TypeOK /\ ResInv /\ AskedInv /\ WorkInv
      /\ HookTyped /\ HookInv /\ CallInv /\ ManagerInv /\ DownInv /\ SetInv
  BY DEF ServiceInv
<1>2. [Next]_vars
  BY ServerStep, ServiceTyped
<1>3. ResInv' /\ AskedInv' /\ WorkInv'
  BY <1>1, <1>2, ResNext, AskedNext, WorkNext
<1>4. TypeOK'
  BY <1>1, <1>2, <1>3, TypeNext
<1>5. HookTyped' /\ HookInv' /\ CallInv' /\ DownInv' /\ SetInv'
  BY <1>1, TypedNext, HookInvNext, CallInvNext, DownInvNext, SetInvNext
<1>6. ManagerInv'
  BY <1>1, ManagerNext
<1> QED BY <1>3, <1>4, <1>5, <1>6 DEF ServiceInv

LEMMA ServiceInvariant == ServiceSpec => []ServiceInv
<1>1. ServiceInit => ServiceInv
  BY ServiceInvInit
<1>2. ServiceInv /\ [ServiceNext]_serviceVars => ServiceInv'
  BY ServiceInvNext
<1> QED BY <1>1, <1>2, PTL DEF ServiceSpec

(* The state of hooks and server together is well typed; a hook that waits   *)
(* for an answer has a Set that waits or runs, and no service is running     *)
(* that was never installed.                                                 *)
THEOREM ServiceTypeCorrect == ServiceSpec => []ServiceTypeOK
BY ServiceTyped, ServiceInvariant, PTL

(* The hooks, Juju and the machine drive the server only in ways that it     *)
(* allows: all that is proved above of its safety holds in the composition.  *)
THEOREM HooksDriveServer == ServiceSpec => ServerSafety
<1>1. ServiceInit => Init
  BY DEF ServiceInit
<1>2. ServiceInv /\ [ServiceNext]_serviceVars => [Next]_vars
  BY ServerStep, ServiceTyped
<1> QED BY <1>1, <1>2, ServiceInvariant, PTL DEF ServiceSpec, ServerSafety

(* So hooks, whatever fails or is killed among them, see the abstract        *)
(* server: what they install, start, stop and set goes through its calls.    *)
THEOREM ServiceShowsFront == ServiceSpec => IsServerFront
  BY HooksDriveServer, FacadeInvariant, PTL

(* When no hook is due, what they all worked from is what there is now.      *)
LEMMA SettledAsks ==
  ASSUME ServiceInv, Settled
  PROVE  /\ Done /\ snap.conf = conf /\ stored = mem
         /\ Request = Wanted
<1>1. /\ at = "idle" /\ due = {} /\ must = NoHook /\ HookInv
      /\ mem \in Memory /\ must.kind # "config"
  BY DEF ServiceInv, Settled, HookTyped, NoHook
<1>2. /\ snap.conf = conf /\ snap.data = data /\ mem = stored
      /\ vals = snap.data /\ Follows(stored, conf)
  BY <1>1 DEF HookInv
<1>3. FollowConf(stored, conf) = stored
  BY <1>1, <1>2 DEF Follows, FollowConf, Follow, Memory
<1> QED BY <1>1, <1>2, <1>3 DEF Done, Request, Wanted

(* A service that the charm has stopped, or that has no port, stays down     *)
(* once the hooks are done, whatever failed, died or was killed on the way;  *)
(* only a boot may start it again.                                           *)
THEOREM UnwantedStaysDown == ServiceSpec => []UnwantedIsDown
<1>1. ServiceInv => UnwantedIsDown
  BY SettledAsks DEF ServiceInv, DownInv, UnwantedIsDown, Alive
<1> QED BY <1>1, ServiceInvariant, PTL

LEMMA LastSetInvariant == ServiceInv => LastSetIsWanted
<1> SUFFICES ASSUME ServiceInv, Settled, Undisturbed, AtRest
             PROVE  cur = Wanted
  BY DEF LastSetIsWanted
<1>1. Done /\ Request = Wanted /\ life # "down"
  BY SettledAsks DEF AtRest
<1>2. Wants(mem, snap.conf)
  BY <1>1 DEF ServiceInv, DownInv, Undisturbed
<1> QED BY <1>1, <1>2 DEF ServiceInv, SetInv, Undisturbed

(* Once the hooks are done, a server that runs was last set, by a call or    *)
(* from its file, to what configuration, relations and charm ask for now.    *)
THEOREM LastSetWanted == ServiceSpec => []LastSetIsWanted
BY LastSetInvariant, ServiceInvariant, PTL

(* ... and if nothing failed in that Set it serves exactly that.             *)
THEOREM ServesWanted ==
  ASSUME Believable
  PROVE  ServiceSpec => []WantedIsServed
<1>1. ServerSafety => []QuietSetServes
  BY QuietInvariant
<1>2. LastSetIsWanted /\ QuietSetServes => WantedIsServed
  BY DEF LastSetIsWanted, QuietSetServes, WantedIsServed
<1> QED BY <1>1, <1>2, LastSetWanted, HooksDriveServer, PTL
=============================================================================
