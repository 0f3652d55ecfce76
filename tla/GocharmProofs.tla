--------------------------- MODULE GocharmProofs ----------------------------
(* Proofs about the registry (Registry) under the runs of gocharm (Gocharm): *)
(* whatever a package registers, and with any names, its name spaces are     *)
(* separate.                                                                 *)
EXTENDS Gocharm, SequenceTheorems, TLAPS

Strings == Seq(Chars)

LEMMA DotIsChar == Dot \in Chars /\ <<Dot>> \in Strings /\ <<"root">> \in Strings
<1>1. Dot \in Chars /\ "root" \in Chars
  BY RegistryAssumption
<1>2. <<Dot>> \in Seq(Chars) /\ <<"root">> \in Seq(Chars)
  <2>1. \A c \in Chars : <<c>> \in Seq(Chars)
    OBVIOUS
  <2>2. QED
    BY <1>1, <2>1
<1>3. QED
  BY <1>1, <1>2 DEF Strings

(* The name of a clone.                                                      *)
Child(s, n) == s \o <<Dot>> \o n

LEMMA ChildProperties ==
  ASSUME NEW s \in Strings, NEW n \in Strings
  PROVE  /\ Child(s, n) \in Strings
         /\ Len(Child(s, n)) = Len(s) + 1 + Len(n)
         /\ \A i \in 1 .. Len(s) : Child(s, n)[i] = s[i]
         /\ Child(s, n)[Len(s) + 1] = Dot
         /\ \A i \in 1 .. Len(n) : Child(s, n)[Len(s) + 1 + i] = n[i]
<1>1. /\ s \o <<Dot>> \in Strings /\ Len(s \o <<Dot>>) = Len(s) + 1
      /\ \A i \in 1 .. Len(s) : (s \o <<Dot>>)[i] = s[i]
      /\ (s \o <<Dot>>)[Len(s) + 1] = Dot
  <2>1. Len(<<Dot>>) = 1 /\ <<Dot>>[1] = Dot /\ Len(s) \in Nat
    BY DEF Strings
  <2>2. QED
    BY <2>1, DotIsChar, ConcatProperties DEF Strings
<1>2. Len(s) \in Nat /\ Len(n) \in Nat
  BY DEF Strings
<1>3. QED
  BY <1>1, <1>2, ConcatProperties DEF Child, Strings

(* The last dot of a clone's name is where its own name begins, so its       *)
(* parent's name and its own can be told from it.                            *)
LEMMA ShorterParent ==
  ASSUME NEW s \in Strings, NEW t \in Strings, NEW n \in Strings, NEW m \in Strings,
         ~InvalidName(n), Child(s, n) = Child(t, m)
  PROVE  ~ Len(s) < Len(t)
<1> SUFFICES ASSUME Len(s) < Len(t) PROVE FALSE
  OBVIOUS
<1>1. Len(s) \in Nat /\ Len(t) \in Nat /\ Len(n) \in Nat /\ Len(m) \in Nat
  BY DEF Strings
<1>2. /\ Len(Child(s, n)) = Len(s) + 1 + Len(n)
      /\ \A i \in 1 .. Len(n) : Child(s, n)[Len(s) + 1 + i] = n[i]
  BY ChildProperties
<1>3. Len(Child(t, m)) = Len(t) + 1 + Len(m) /\ Child(t, m)[Len(t) + 1] = Dot
  BY ChildProperties
<1> DEFINE i == Len(t) - Len(s)
<1>4. i \in 1 .. Len(n) /\ Len(s) + 1 + i = Len(t) + 1
  BY <1>1, <1>2, <1>3
<1>5. n[i] = Child(s, n)[Len(s) + 1 + i]
  BY <1>2, <1>4
<1>6. n[i] = Dot
  BY <1>3, <1>4, <1>5
<1>7. QED
  BY <1>4, <1>6 DEF InvalidName

LEMMA LastDot ==
  ASSUME NEW s \in Strings, NEW t \in Strings, NEW n \in Strings, NEW m \in Strings,
         ~InvalidName(n), ~InvalidName(m), Child(s, n) = Child(t, m)
  PROVE  s = t /\ n = m
<1>1. Len(s) \in Nat /\ Len(t) \in Nat /\ Len(n) \in Nat /\ Len(m) \in Nat
  BY DEF Strings
<1>2. /\ Len(Child(s, n)) = Len(s) + 1 + Len(n)
      /\ \A i \in 1 .. Len(s) : Child(s, n)[i] = s[i]
      /\ \A i \in 1 .. Len(n) : Child(s, n)[Len(s) + 1 + i] = n[i]
  BY ChildProperties
<1>3. /\ Len(Child(t, m)) = Len(t) + 1 + Len(m)
      /\ \A i \in 1 .. Len(t) : Child(t, m)[i] = t[i]
      /\ \A i \in 1 .. Len(m) : Child(t, m)[Len(t) + 1 + i] = m[i]
  BY ChildProperties
<1>4. ~ Len(s) < Len(t)
  BY ShorterParent
<1>5. ~ Len(t) < Len(s)
  BY ShorterParent
<1>6. Len(s) = Len(t) /\ Len(n) = Len(m)
  BY <1>1, <1>2, <1>3, <1>4, <1>5
<1>7. \A i \in 1 .. Len(s) : s[i] = t[i]
  BY <1>2, <1>3, <1>6
<1>8. \A i \in 1 .. Len(n) : n[i] = m[i]
  BY <1>2, <1>3, <1>6
<1>9. QED
  BY <1>6, <1>7, <1>8, SeqEqual DEF Strings

-----------------------------------------------------------------------------
(* The registries have names of their own, clones' names begin with their    *)
(* parents', and state values and commands belong to one registry each.      *)
NamesInv ==
  /\ \A i \in DOMAIN regs : \A n \in regs[i].clones : ~InvalidName(n)
  /\ \A i \in DOMAIN regs :
       \/ i = 1 /\ regs[i].name = <<"root">>
       \/ \E p \in DOMAIN regs : \E n \in regs[p].clones :
            regs[i].name = Child(regs[p].name, n)
  /\ \A i, j \in DOMAIN regs : regs[i].name = regs[j].name => i = j

StateInv ==
  /\ \A k \in DOMAIN state :
       \E i \in DOMAIN regs : regs[i].ctx /\ state[k] = regs[i].name
  /\ \A j, k \in DOMAIN state : state[j] = state[k] => j = k

CommandInv ==
  \A i \in DOMAIN regs :
    regs[i].cmd => regs[i].name \in DOMAIN commands /\ commands[regs[i].name] = i

Inv == TypeOK /\ NamesInv /\ StateInv /\ CommandInv

LEMMA InvNew == NewRegistry => Inv
<1> SUFFICES ASSUME NewRegistry PROVE Inv
  OBVIOUS
<1>1. regs = <<Root>> /\ DOMAIN regs = {1} /\ regs[1] = Root
  BY DEF NewRegistry
<1>2. Root \in Reg
  BY DotIsChar DEF Root, Reg, Strings
<1>3. TypeOK
  <2>1. regs \in Seq(Reg)
    <3>1. \A r \in Reg : <<r>> \in Seq(Reg)
      OBVIOUS
    <3>2. QED
      BY <1>1, <1>2, <3>1
  <2>2. hooks \in [Hooks \cup {Wildcard} -> Seq(DOMAIN regs)]
    BY EmptySeq DEF NewRegistry, NoHooks
  <2>3. DOMAIN commands = {} /\ panicked \in BOOLEAN /\ calls \in 0 .. MaxCalls
    <3>1. commands = << >> /\ panicked = FALSE /\ calls = 0
      BY DEF NewRegistry
    <3>2. << >> \in Seq(Nat) /\ Len(<< >>) = 0
      BY EmptySeq
    <3>3. DOMAIN << >> = {}
      BY <3>2, LenProperties
    <3>4. 0 \in 0 .. MaxCalls
      BY RegistryAssumption
    <3>5. QED
      BY <3>1, <3>3, <3>4, Zenon
  <2>4. contexts \in Seq(DOMAIN regs) /\ state \in Seq(Seq(Chars))
    BY EmptySeq DEF NewRegistry
  <2>5. QED
    BY <2>1, <2>2, <2>3, <2>4 DEF TypeOK
<1>4. NamesInv /\ StateInv /\ CommandInv
  BY <1>1 DEF NewRegistry, NamesInv, StateInv, CommandInv, Root
<1>5. QED
  BY <1>3, <1>4 DEF Inv

(* What does not touch the names, states and commands.                       *)
LEMMA Elsewhere ==
  ASSUME Inv, UNCHANGED <<regs, commands, contexts, state>>,
         hooks' \in [Hooks \cup {Wildcard} -> Seq(DOMAIN regs)],
         panicked' \in BOOLEAN, calls' \in 0 .. MaxCalls
  PROVE  Inv'
<1>1. TypeOK'
  BY DEF Inv, TypeOK
<1>2. NamesInv' /\ StateInv' /\ CommandInv'
  BY DEF Inv, NamesInv, StateInv, CommandInv
<1>3. QED
  BY <1>1, <1>2 DEF Inv

LEMMA RegTyped ==
  ASSUME TypeOK
  PROVE  /\ Len(regs) \in Nat /\ DOMAIN regs = 1 .. Len(regs)
         /\ \A j \in DOMAIN regs : /\ regs[j] \in Reg
                                  /\ regs[j].name \in Strings
                                  /\ regs[j].clones \subseteq Names
<1>1. regs \in Seq(Reg)
  BY DEF TypeOK
<1>2. \A j \in DOMAIN regs : regs[j] \in Reg
  BY <1>1
<1>3. QED
  BY <1>1, <1>2 DEF Reg, Strings

LEMMA NamesAreStrings == Names \subseteq Strings
BY RegistryAssumption DEF Strings

LEMMA CalledTyped ==
  ASSUME Inv, Called
  PROVE  calls' \in 0 .. MaxCalls
BY RegistryAssumption DEF Inv, TypeOK, Called

LEMMA CloneStep ==
  ASSUME Inv, NEW i \in DOMAIN regs, NEW n \in Names, Clone(i, n)
  PROVE  Inv'
<1>0. calls' \in 0 .. MaxCalls
  BY CalledTyped DEF Clone
<1>1. CASE InvalidName(n) \/ n \in regs[i].clones
  BY <1>0, <1>1, Elsewhere DEF Clone, Panic, Inv, TypeOK
<1>2. CASE ~InvalidName(n) /\ n \notin regs[i].clones
  <2> DEFINE new  == Len(regs) + 1
             old  == [regs EXCEPT ![i].clones = @ \cup {n}]
             child == [Root EXCEPT !.name = Child(regs[i].name, n)]
  <2>1. /\ regs' = Append(old, child)
        /\ UNCHANGED <<hooks, commands, contexts, state, panicked>>
    BY <1>2, Zenon DEF Clone, Child
  <2>2. regs \in Seq(Reg) /\ Len(regs) \in Nat /\ DOMAIN regs = 1 .. Len(regs)
    BY RegTyped DEF Inv, TypeOK
  <2>3. n \in Strings /\ regs[i] \in Reg /\ regs[i].name \in Strings
    BY RegTyped, NamesAreStrings DEF Inv
  <2>4. child \in Reg /\ ~child.ctx /\ ~child.cmd
          /\ child.name = Child(regs[i].name, n) /\ child.clones = {}
    <3>1. Child(regs[i].name, n) \in Seq(Chars)
      BY <2>3, ChildProperties DEF Strings
    <3>2. QED
      BY <3>1 DEF Root, Reg
  <2>5. old \in Seq(Reg) /\ Len(old) = Len(regs)
    <3>1. [regs[i] EXCEPT !.clones = @ \cup {n}] \in Reg
      BY <2>3 DEF Reg
    <3>2. old = [regs EXCEPT ![i] = [regs[i] EXCEPT !.clones = @ \cup {n}]]
      BY <2>2
    <3>3. QED
      BY <2>2, <3>1, <3>2, ExceptSeq
  <2> HIDE DEF child
  <2>6. regs' \in Seq(Reg) /\ DOMAIN regs' = DOMAIN regs \cup {new}
    BY <2>1, <2>2, <2>4, <2>5
  <2>7. /\ \A j \in DOMAIN regs : regs'[j] = old[j] /\ j \in DOMAIN regs' /\ j # new
        /\ regs'[new] = child
    BY <2>1, <2>2, <2>5
  <2>8. /\ \A j \in DOMAIN regs : /\ regs'[j].name = regs[j].name
                                 /\ regs'[j].ctx = regs[j].ctx
                                 /\ regs'[j].cmd = regs[j].cmd
                                 /\ regs[j].clones \subseteq regs'[j].clones
        /\ \A j \in DOMAIN regs : j # i => regs'[j].clones = regs[j].clones
        /\ regs'[i].clones = regs[i].clones \cup {n}
    <3>1. old[i] = [regs[i] EXCEPT !.clones = @ \cup {n}]
      BY <2>2
    <3>2. \A j \in DOMAIN regs : j # i => old[j] = regs[j]
      BY <2>2
    <3>3. /\ old[i].name = regs[i].name /\ old[i].ctx = regs[i].ctx
          /\ old[i].cmd = regs[i].cmd /\ old[i].clones = regs[i].clones \cup {n}
      BY <2>3, <3>1 DEF Reg
    <3>4. QED
      BY <2>7, <3>2, <3>3
  <2>9. TypeOK'
    <3>1. hooks' \in [Hooks \cup {Wildcard} -> Seq(DOMAIN regs')]
      <4>1. \A h \in Hooks \cup {Wildcard} : hooks[h] \in Seq(DOMAIN regs')
        BY <2>6, SeqMonotonic DEF Inv, TypeOK
      <4>2. QED
        BY <2>1, <4>1 DEF Inv, TypeOK
    <3>2. contexts' \in Seq(DOMAIN regs')
      BY <2>1, <2>6, SeqMonotonic DEF Inv, TypeOK
    <3>3. /\ DOMAIN commands' \subseteq {regs'[j].name : j \in DOMAIN regs'}
          /\ \A name \in DOMAIN commands' : commands'[name] \in DOMAIN regs'
      <4>1. \A name \in DOMAIN commands :
              \E j \in DOMAIN regs : name = regs[j].name
        BY DEF Inv, TypeOK
      <4>2. \A name \in DOMAIN commands : commands[name] \in DOMAIN regs
        BY DEF Inv, TypeOK
      <4>3. QED
        BY <2>1, <2>6, <2>8, <4>1, <4>2
    <3>4. QED
      BY <1>0, <2>1, <2>6, <3>1, <3>2, <3>3 DEF Inv, TypeOK
  <2>10. \A j \in DOMAIN regs : regs[j].name # child.name
    <3> SUFFICES ASSUME NEW j \in DOMAIN regs, regs[j].name = child.name
                 PROVE  FALSE
      OBVIOUS
    <3>1. CASE regs[j].name = <<"root">>
      <4>1. Len(child.name) = Len(regs[i].name) + 1 + Len(n)
        BY <2>3, <2>4, ChildProperties
      <4>2. Len(n) # 0 /\ Len(n) \in Nat /\ Len(regs[i].name) \in Nat
        BY <1>2, <2>3, EmptySeq DEF InvalidName, Strings
      <4>3. Len(<<"root">>) = 1
        OBVIOUS
      <4>4. QED
        BY <3>1, <4>1, <4>2, <4>3
    <3>2. CASE \E p \in DOMAIN regs : \E m \in regs[p].clones :
                 regs[j].name = Child(regs[p].name, m)
      <4>1. PICK p \in DOMAIN regs, m \in Names :
              m \in regs[p].clones /\ regs[j].name = Child(regs[p].name, m)
        BY <3>2, RegTyped DEF Inv
      <4>2. m \in Strings /\ ~InvalidName(m) /\ regs[p].name \in Strings
        BY <4>1, RegTyped, NamesAreStrings DEF Inv, NamesInv
      <4>3. regs[p].name = regs[i].name /\ m = n
        BY <1>2, <2>3, <2>4, <4>1, <4>2, LastDot
      <4>4. p = i
        BY <4>3 DEF Inv, NamesInv
      <4>5. QED
        BY <1>2, <4>1, <4>3, <4>4
    <3>3. QED
      BY <3>1, <3>2 DEF Inv, NamesInv
  <2>11. NamesInv'
    <3>1. ASSUME NEW j \in DOMAIN regs', NEW m \in regs'[j].clones
          PROVE  ~InvalidName(m)
      <4>1. CASE j = new
        BY <2>4, <2>7, <3>1, <4>1
      <4>2. CASE j = i
        BY <1>2, <2>8, <3>1, <4>2 DEF Inv, NamesInv
      <4>3. CASE j \in DOMAIN regs /\ j # i
        BY <2>8, <3>1, <4>3 DEF Inv, NamesInv
      <4>4. QED
        BY <2>6, <4>1, <4>2, <4>3
    <3>2. ASSUME NEW j \in DOMAIN regs'
          PROVE  \/ j = 1 /\ regs'[j].name = <<"root">>
                 \/ \E p \in DOMAIN regs' : \E m \in regs'[p].clones :
                      regs'[j].name = Child(regs'[p].name, m)
      <4>1. CASE j = new
        <5>1. n \in regs'[i].clones /\ i \in DOMAIN regs'
          BY <2>7, <2>8
        <5>2. regs'[j].name = Child(regs'[i].name, n)
          BY <2>4, <2>7, <2>8, <4>1
        <5>3. QED
          BY <5>1, <5>2
      <4>2. CASE j \in DOMAIN regs
        BY <2>7, <2>8, <4>2 DEF Inv, NamesInv
      <4>3. QED
        BY <2>6, <4>1, <4>2
    <3>3. \A j, k \in DOMAIN regs' : regs'[j].name = regs'[k].name => j = k
      BY <2>6, <2>7, <2>8, <2>10 DEF Inv, NamesInv
    <3>4. QED
      BY <3>1, <3>2, <3>3 DEF NamesInv
  <2>12. StateInv'
    BY <2>1, <2>7, <2>8 DEF Inv, StateInv
  <2>13. CommandInv'
    BY <2>1, <2>4, <2>6, <2>7, <2>8 DEF Inv, CommandInv
  <2>14. QED
    BY <2>9, <2>11, <2>12, <2>13 DEF Inv
<1>3. QED
  BY <1>1, <1>2

LEMMA HookStep ==
  ASSUME Inv, NEW i \in DOMAIN regs, NEW h \in Hooks \cup {Wildcard, BadHook},
         RegisterHook(i, h)
  PROVE  Inv'
<1>1. calls' \in 0 .. MaxCalls
  BY CalledTyped DEF RegisterHook
<1>2. hooks' \in [Hooks \cup {Wildcard} -> Seq(DOMAIN regs)]
  <2>1. \A f \in Seq(DOMAIN regs) : Append(f, i) \in Seq(DOMAIN regs)
    OBVIOUS
  <2>2. hooks' = hooks \/ (h \in Hooks \cup {Wildcard}
                            /\ hooks' = [hooks EXCEPT ![h] = Append(hooks[h], i)])
    BY DEF RegisterHook, Panic
  <2>3. hooks \in [Hooks \cup {Wildcard} -> Seq(DOMAIN regs)]
    BY DEF Inv, TypeOK
  <2>4. ASSUME h \in Hooks \cup {Wildcard}
        PROVE  [hooks EXCEPT ![h] = Append(hooks[h], i)]
                 \in [Hooks \cup {Wildcard} -> Seq(DOMAIN regs)]
    <3>1. hooks[h] \in Seq(DOMAIN regs)
      BY <2>3, <2>4
    <3>2. Append(hooks[h], i) \in Seq(DOMAIN regs)
      BY <2>1, <3>1
    <3>3. QED
      BY <2>3, <3>2, Zenon
  <2>5. QED
    BY <2>2, <2>3, <2>4, Zenon
<1>3. UNCHANGED <<regs, commands, contexts, state>> /\ panicked' \in BOOLEAN
  BY DEF RegisterHook, Panic, Inv, TypeOK
<1>4. QED
  BY <1>1, <1>2, <1>3, Elsewhere

(* A registry of which one field, its name and clones apart, has changed.    *)
LEMMA FieldStep ==
  ASSUME Inv, NEW i \in DOMAIN regs, NEW r \in Reg,
         regs' = [regs EXCEPT ![i] = r], r.name = regs[i].name,
         r.clones = regs[i].clones
  PROVE  /\ regs' \in Seq(Reg) /\ DOMAIN regs' = DOMAIN regs
         /\ NamesInv'
         /\ \A j \in DOMAIN regs : regs'[j].name = regs[j].name
         /\ \A j \in DOMAIN regs : j # i => regs'[j] = regs[j]
         /\ regs'[i] = r
<1>1. regs \in Seq(Reg) /\ DOMAIN regs = 1 .. Len(regs)
  BY RegTyped DEF Inv, TypeOK
<1>2. regs' \in Seq(Reg) /\ DOMAIN regs' = DOMAIN regs
  BY <1>1, ExceptSeq
<1>3. regs'[i] = r /\ \A j \in DOMAIN regs : j # i => regs'[j] = regs[j]
  BY <1>1
<1>4. \A j \in DOMAIN regs : /\ regs'[j].name = regs[j].name
                           /\ regs'[j].clones = regs[j].clones
  BY <1>3
<1>5. NamesInv'
  BY <1>2, <1>4 DEF Inv, NamesInv
<1>6. QED
  BY <1>2, <1>3, <1>4, <1>5

LEMMA ContextStep ==
  ASSUME Inv, NEW i \in DOMAIN regs, NEW kind, RegisterContext(i, kind)
  PROVE  Inv'
<1>1. calls' \in 0 .. MaxCalls
  BY CalledTyped DEF RegisterContext
<1>2. CASE regs[i].ctx \/ kind = "not a pointer"
  BY <1>1, <1>2, Elsewhere DEF RegisterContext, Panic, Inv, TypeOK
<1>3. CASE ~regs[i].ctx /\ kind # "not a pointer"
  <2> DEFINE r == [regs[i] EXCEPT !.ctx = TRUE]
  <2>1. r \in Reg /\ r.name = regs[i].name /\ r.clones = regs[i].clones
          /\ r.cmd = regs[i].cmd /\ r.ctx
    BY RegTyped DEF Inv, Reg
  <2>2. regs' = [regs EXCEPT ![i] = r]
    <3>1. regs' = [regs EXCEPT ![i].ctx = TRUE]
      BY <1>3 DEF RegisterContext
    <3>2. QED
      BY <3>1
  <2>3. /\ contexts' = Append(contexts, i)
        /\ state' = state \/ state' = Append(state, regs[i].name)
        /\ UNCHANGED <<hooks, commands, panicked>>
    BY <1>3 DEF RegisterContext
  <2> HIDE DEF r
  <2>4. /\ regs' \in Seq(Reg) /\ DOMAIN regs' = DOMAIN regs /\ NamesInv'
        /\ \A j \in DOMAIN regs : regs'[j].name = regs[j].name
        /\ \A j \in DOMAIN regs : j # i => regs'[j] = regs[j]
        /\ regs'[i] = r
    BY <2>1, <2>2, FieldStep
  <2>5. state \in Seq(Strings) /\ regs[i].name \in Strings
    BY RegTyped DEF Inv, TypeOK, Strings
  <2>6. TypeOK'
    <3>1. contexts' \in Seq(DOMAIN regs') /\ state' \in Seq(Strings)
      <4>1. contexts \in Seq(DOMAIN regs)
        BY DEF Inv, TypeOK
      <4>2. Append(contexts, i) \in Seq(DOMAIN regs)
        BY <4>1
      <4>3. Append(state, regs[i].name) \in Seq(Strings)
        BY <2>5
      <4>4. QED
        BY <2>3, <2>4, <2>5, <4>2, <4>3
    <3>2. {regs'[j].name : j \in DOMAIN regs'} = {regs[j].name : j \in DOMAIN regs}
      BY <2>4
    <3>3. QED
      BY <1>1, <2>3, <2>4, <3>1, <3>2 DEF Inv, TypeOK, Strings
  <2>7. StateInv'
    <3>1. \A k \in DOMAIN state : state[k] # regs[i].name
      <4>1. \A j \in DOMAIN regs : regs[j].name = regs[i].name => j = i
        BY DEF Inv, NamesInv
      <4>2. \A k \in DOMAIN state :
              \E j \in DOMAIN regs : regs[j].ctx /\ state[k] = regs[j].name
        BY DEF Inv, StateInv
      <4>3. QED
        BY <1>3, <4>1, <4>2
    <3>2. CASE state' = state
      BY <2>1, <2>4, <3>2 DEF Inv, StateInv
    <3>3. CASE state' = Append(state, regs[i].name)
      <4>1. /\ DOMAIN state' = DOMAIN state \cup {Len(state) + 1}
            /\ state'[Len(state) + 1] = regs[i].name
            /\ \A k \in DOMAIN state : state'[k] = state[k]
        BY <2>5, <3>3
      <4>2. QED
        BY <2>1, <2>4, <3>1, <4>1 DEF Inv, StateInv
    <3>4. QED
      BY <2>3, <3>2, <3>3
  <2>8. CommandInv'
    BY <2>1, <2>3, <2>4 DEF Inv, CommandInv
  <2>9. QED
    BY <2>4, <2>6, <2>7, <2>8 DEF Inv
<1>4. QED
  BY <1>2, <1>3

LEMMA CommandStep ==
  ASSUME Inv, NEW i \in DOMAIN regs, RegisterCommand(i)
  PROVE  Inv'
<1>1. calls' \in 0 .. MaxCalls
  BY CalledTyped DEF RegisterCommand
<1>2. CASE regs[i].cmd
  BY <1>1, <1>2, Elsewhere DEF RegisterCommand, Panic, Inv, TypeOK
<1>3. CASE ~regs[i].cmd
  <2> DEFINE r == [regs[i] EXCEPT !.cmd = TRUE]
  <2>1. r \in Reg /\ r.name = regs[i].name /\ r.clones = regs[i].clones
          /\ r.ctx = regs[i].ctx
    BY RegTyped DEF Inv, Reg
  <2>2. regs' = [regs EXCEPT ![i] = r]
    <3>1. regs' = [regs EXCEPT ![i].cmd = TRUE]
      BY <1>3 DEF RegisterCommand
    <3>2. QED
      BY <3>1
  <2>3. /\ commands' = With(commands, regs[i].name, i)
        /\ UNCHANGED <<hooks, contexts, state, panicked>>
    BY <1>3 DEF RegisterCommand
  <2> HIDE DEF r
  <2>4. /\ regs' \in Seq(Reg) /\ DOMAIN regs' = DOMAIN regs /\ NamesInv'
        /\ \A j \in DOMAIN regs : regs'[j].name = regs[j].name
        /\ \A j \in DOMAIN regs : j # i => regs'[j] = regs[j]
        /\ regs'[i] = r
    BY <2>1, <2>2, FieldStep
  <2>5. /\ DOMAIN commands' = DOMAIN commands \cup {regs[i].name}
        /\ commands'[regs[i].name] = i
        /\ \A x \in DOMAIN commands : x # regs[i].name => commands'[x] = commands[x]
    BY <2>3 DEF With
  <2>6. TypeOK'
    <3>1. {regs'[j].name : j \in DOMAIN regs'} = {regs[j].name : j \in DOMAIN regs}
      BY <2>4
    <3>2. /\ DOMAIN commands' \subseteq {regs'[j].name : j \in DOMAIN regs'}
          /\ \A name \in DOMAIN commands' : commands'[name] \in DOMAIN regs'
      BY <2>4, <2>5, <3>1 DEF Inv, TypeOK
    <3>3. contexts' \in Seq(DOMAIN regs') /\ state' \in Seq(Seq(Chars))
      BY <2>3, <2>4 DEF Inv, TypeOK
    <3>4. hooks' \in [Hooks \cup {Wildcard} -> Seq(DOMAIN regs')]
      BY <2>3, <2>4 DEF Inv, TypeOK
    <3>5. panicked' \in BOOLEAN
      BY <2>3 DEF Inv, TypeOK
    <3>6. QED
      BY <1>1, <2>4, <3>2, <3>3, <3>4, <3>5 DEF TypeOK
  <2>7. StateInv'
    BY <2>1, <2>3, <2>4 DEF Inv, StateInv
  <2>8. CommandInv'
    <3>1. ASSUME NEW j \in DOMAIN regs', regs'[j].cmd
          PROVE  /\ regs'[j].name \in DOMAIN commands'
                 /\ commands'[regs'[j].name] = j
      <4>1. CASE j = i
        BY <2>4, <2>5, <4>1
      <4>2. CASE j # i
        <5>1. regs[j].cmd /\ regs'[j].name = regs[j].name /\ j \in DOMAIN regs
          BY <2>4, <3>1, <4>2
        <5>2. regs[j].name # regs[i].name
          BY <4>2, <5>1 DEF Inv, NamesInv
        <5>3. QED
          BY <2>5, <5>1, <5>2 DEF Inv, CommandInv
      <4>3. QED
        BY <4>1, <4>2
    <3>2. QED
      BY <3>1 DEF CommandInv
  <2>9. QED
    BY <2>4, <2>6, <2>7, <2>8 DEF Inv
<1>4. QED
  BY <1>2, <1>3

LEMMA TableStep ==
  ASSUME Inv, Called,
         UNCHANGED <<regs, hooks, commands, contexts, state>>,
         panicked' \in BOOLEAN
  PROVE  Inv'
BY Elsewhere, CalledTyped DEF Inv, TypeOK

LEMMA RegisterInv == Inv /\ Register => Inv'
<1> SUFFICES ASSUME Inv, Register PROVE Inv'
  OBVIOUS
<1>1. CASE \E i \in DOMAIN regs : \E n \in Names : Clone(i, n)
  BY <1>1, CloneStep
<1>2. CASE \E i \in DOMAIN regs :
             \E h \in Hooks \cup {Wildcard, BadHook} : RegisterHook(i, h)
  BY <1>2, HookStep
<1>3. CASE \E i \in DOMAIN regs : \E kind \in {"nil", "pointer", "not a pointer"} :
             RegisterContext(i, kind)
  BY <1>3, ContextStep
<1>4. CASE \E i \in DOMAIN regs : RegisterCommand(i)
  BY <1>4, CommandStep
<1>5. CASE \E name \in Relations, rel \in Relation : RegisterRelation(name, rel)
  BY <1>5, TableStep DEF RegisterRelation, Panic, Inv, TypeOK
<1>6. CASE \E name \in Options, d \in Details : \E valid \in BOOLEAN :
             RegisterResource(name, d, valid)
  BY <1>6, TableStep DEF RegisterResource, Panic, Inv, TypeOK
<1>7. CASE \E name \in Options, d \in Details : RegisterConfig(name, d)
  BY <1>7, TableStep DEF RegisterConfig, Panic, Inv, TypeOK
<1>8. QED
  BY <1>1, <1>2, <1>3, <1>4, <1>5, <1>6, <1>7 DEF Register

(* The program that registered has ended.                                    *)
LEMMA ExitInv == Exit => Inv'
<1> SUFFICES ASSUME Exit PROVE Inv'
  OBVIOUS
<1>1. NewRegistry'
  BY DEF Exit, NewRegistry
<1>2. NewRegistry' => Inv'
  BY InvNew, PTL
<1>3. QED
  BY <1>1, <1>2

LEMMA InvNext == Inv /\ [Next]_vars => Inv'
<1> SUFFICES ASSUME Inv, [Next]_vars PROVE Inv'
  OBVIOUS
<1>1. CASE UNCHANGED reg
  <2>1. UNCHANGED <<regs, hooks, commands, contexts, state, panicked, calls>>
    BY <1>1 DEF reg
  <2>2. TypeOK'
    BY <2>1 DEF Inv, TypeOK
  <2>3. NamesInv' /\ StateInv' /\ CommandInv'
    BY <2>1 DEF Inv, NamesInv, StateInv, CommandInv
  <2>4. QED
    BY <2>2, <2>3 DEF Inv
<1>2. CASE Inspect
  BY <1>2, RegisterInv DEF Inspect
<1>3. CASE Exit
  BY <1>3, ExitInv
<1>4. QED
  BY <1>1, <1>2, <1>3
  DEF Next, Start, ReadRevision, Compile, InspectPanics, WriteCharm,
      WriteRevision, Clean, RemoveEntry, StartCopy, CopyEntry, CopyRefused,
      Finish, UserEdits, Fails, vars

(* Every reachable state of the registry is well typed.                      *)
THEOREM TypeCorrect == Spec => []TypeOK
<1>1. Init => Inv
  BY InvNew DEF Init
<1>2. Inv => TypeOK
  BY DEF Inv
<1>3. QED
  BY <1>1, <1>2, InvNext, PTL DEF Spec

(* Whatever a package registers, in which order and with which names: no two *)
(* registries share a name, a state file or a command.                       *)
THEOREM NamesSeparate == Spec => []SeparateNameSpaces
<1>1. Init => Inv
  BY InvNew DEF Init
<1>2. Inv => SeparateNameSpaces
  BY DEF Inv, NamesInv, StateInv, CommandInv, SeparateNameSpaces
<1>3. QED
  BY <1>1, <1>2, InvNext, PTL DEF Spec

-----------------------------------------------------------------------------
(* The charm directory.  An entry is there or it is nothing at all.          *)
Directory(d) ==
  /\ d = [e \in Entries |-> d[e]]
  /\ \A e \in Entries : Is(d, e) \/ d[e] = NoEntry

(* Between its last look at the directory and the end of the replacement     *)
(* gocharm knows all there is but for what the user edits meanwhile: while   *)
(* it removes, whatever else is visible is still to be removed and none of   *)
(* that is protected; while it copies, what is not copied yet is not there,  *)
(* and what is there is what was built.                                      *)
ReplaceInv ==
  /\ Directory(dest) /\ Directory(temp)
  /\ \A e \in Entries \ Allowed : temp[e] = NoEntry
  /\ edits \in Nat
  /\ pc = "remove" =>
       /\ todo \subseteq Allowed /\ Visible(dest) \subseteq todo \cup late
       /\ \A e \in todo : Protected(e) => e \in late
  /\ pc = "copy" =>
       /\ todo \subseteq Allowed /\ delivered = Empty
       /\ \A e \in (Entries \ Hidden) \ late :
            dest[e] = IF e \in todo THEN NoEntry ELSE temp[e]
  /\ pc \notin {"remove", "copy"} => late = {}
  /\ DeliveredIsThere

(* Writing an entry leaves the others alone.                                 *)
Write(d, e, x) == [d EXCEPT ![e] = x]

LEMMA WriteEntry ==
  ASSUME NEW d, Directory(d), NEW e \in Entries,
         NEW x, x = NoEntry \/ x.by # "nobody"
  PROVE  /\ Directory(Write(d, e, x)) /\ Write(d, e, x)[e] = x
         /\ \A f \in Entries : f # e => Write(d, e, x)[f] = d[f]
<1>1. DOMAIN d = Entries
  BY DEF Directory
<1> DEFINE new == Write(d, e, x)
<1>2. new[e] = x /\ \A f \in Entries : f # e => new[f] = d[f]
  BY <1>1 DEF Write
<1>3. new = [f \in Entries |-> new[f]]
  BY <1>1 DEF Write
<1>4. \A f \in Entries : Is(new, f) \/ new[f] = NoEntry
  BY <1>2 DEF Directory, Is
<1> QED BY <1>2, <1>3, <1>4 DEF Directory

(* What a directory that can be cleaned shows is not protected.              *)
LEMMA CleanIsSafe ==
  ASSUME ~CannotClean(dest), NEW e \in Visible(dest)
  PROVE  ~Protected(e) /\ e \in Allowed
BY DEF CannotClean, Visible, Protected, Autogenerated

(* What gocharm has built are entries of a charm directory.                  *)
LEMMA BuiltTyped ==
  ASSUME Directory(temp), \A e \in Entries \ Allowed : temp[e] = NoEntry
  PROVE  /\ Directory(Written)
         /\ \A e \in Entries \ Allowed : Written[e] = NoEntry
<1> DEFINE hk == Generated(RegisteredHooks)
           md == Generated([provides  |-> WithRole("provider"),
                            requires  |-> WithRole("requirer"),
                            resources |-> DOMAIN resources])
           cf == IF DOMAIN config = {} THEN NoEntry ELSE Generated(DOMAIN config)
           t1 == Write(temp, "hooks", hk)
           t2 == Write(t1, "metadata.yaml", md)
           t3 == Write(t2, "config.yaml", cf)
<1>1. Written = t3
  BY DEF Written, Write
<1>2. hk.by # "nobody" /\ md.by # "nobody" /\ (cf = NoEntry \/ cf.by # "nobody")
  BY DEF Generated
<1>3. {"hooks", "metadata.yaml", "config.yaml"} \subseteq Allowed
      /\ Allowed \subseteq Entries
  BY DEF Allowed, Yaml, Entries
<1> HIDE DEF hk, md, cf
<1>4. Directory(t1) /\ \A e \in Entries : e # "hooks" => t1[e] = temp[e]
  BY <1>2, <1>3, WriteEntry
<1> HIDE DEF t1
<1>5. Directory(t2) /\ \A e \in Entries : e # "metadata.yaml" => t2[e] = t1[e]
  BY <1>2, <1>3, <1>4, WriteEntry
<1> HIDE DEF t2
<1>6. Directory(t3) /\ \A e \in Entries : e # "config.yaml" => t3[e] = t2[e]
  <2>1. CASE cf = NoEntry
    BY <1>3, <1>5, <2>1, WriteEntry
  <2>2. CASE cf.by # "nobody"
    BY <1>3, <1>5, <2>2, WriteEntry
  <2> QED BY <1>2, <2>1, <2>2
<1> HIDE DEF t3
<1> QED BY <1>1, <1>3, <1>4, <1>5, <1>6

LEMMA ReplaceNext ==
  ASSUME ReplaceInv, [Next]_vars
  PROVE  ReplaceInv'
<1> USE DEF ReplaceInv, DeliveredIsThere
<1>0. ASSUME UNCHANGED <<dest, edits, delivered>>, late' = {},
             pc' \notin {"remove", "copy"},
             Directory(temp'), \A e \in Entries \ Allowed : temp'[e] = NoEntry
      PROVE  ReplaceInv'
  BY <1>0 DEF Directory, Is
<1>1. Directory(Empty) /\ \A e \in Entries : Empty[e] = NoEntry
  BY DEF Directory, Empty
<1>2. CASE Start \/ ReadRevision \/ InspectPanics
  <2>1. /\ temp' \in {temp, Empty} /\ pc' \in {"idle", "revision", "build"}
        /\ UNCHANGED <<dest, edits, delivered>> /\ late' = {}
    BY <1>2 DEF Start, ReadRevision, InspectPanics, Ends, Goto
  <2> QED BY <1>0, <1>1, <2>1
<1>3. CASE Compile
  <2>1. /\ temp' = [temp EXCEPT !["bin"] = Generated(runs)] /\ pc' = "inspect"
        /\ UNCHANGED <<dest, edits, delivered>> /\ late' = {}
    BY <1>3 DEF Compile, Goto, hist
  <2>2. "bin" \in Entries /\ "bin" \in Allowed /\ Generated(runs).by # "nobody"
    BY DEF Generated, Entries, Allowed
  <2>3. Directory(temp') /\ \A f \in Entries : f # "bin" => temp'[f] = temp[f]
    <3>1. Directory(temp) /\ temp' = Write(temp, "bin", Generated(runs))
      BY <2>1 DEF Write
    <3> QED BY <2>2, <3>1, WriteEntry
  <2> QED BY <1>0, <2>1, <2>2, <2>3
<1>4. CASE Inspect \/ UNCHANGED vars
  BY <1>4 DEF Inspect, build, hist, vars, Directory, Is, Visible, Protected
<1>5. CASE WriteCharm
  <2>1. /\ temp' = Written /\ pc' = "writerev" /\ late' = {}
        /\ UNCHANGED <<dest, edits, delivered>>
    BY <1>5 DEF WriteCharm, Goto, hist
  <2> QED BY <1>0, <2>1, BuiltTyped
<1>6. CASE WriteRevision
  <2>1. /\ \/ temp' = temp
           \/ temp' = Write(temp, "revision", Generated(rev + 1))
        /\ pc' = "clean" /\ late' = {} /\ UNCHANGED <<dest, edits, delivered>>
    BY <1>6 DEF WriteRevision, Goto, Write, hist
  <2>2. /\ "revision" \in Entries /\ "revision" \in Allowed
        /\ Generated(rev + 1).by # "nobody"
    BY DEF Generated, Entries, Allowed
  <2> QED BY <1>0, <2>1, <2>2, WriteEntry
<1>7. CASE Clean
  <2>1. UNCHANGED <<dest, edits, delivered>>
    BY <1>7 DEF Clean
  <2>2. CASE CannotClean(dest)
    BY <1>0, <1>1, <1>7, <2>1, <2>2 DEF Clean, Ends, Goto
  <2>3. CASE ~CannotClean(dest)
    <3>1. /\ todo' = Visible(dest) /\ pc' = "remove" /\ temp' = temp
          /\ late' = {}
      BY <1>7, <2>3 DEF Clean, Goto
    <3> QED BY <2>1, <2>3, <3>1, CleanIsSafe
            DEF Directory, Is, Visible, Protected
  <2> QED BY <2>2, <2>3
<1>8. CASE RemoveEntry
  <2>1. PICK e \in todo : todo' = todo \ {e} /\ dest' = Write(dest, e, NoEntry)
    BY <1>8 DEF RemoveEntry, Write
  <2>2. /\ pc = "remove" /\ delivered' = Empty
        /\ UNCHANGED <<temp, pc, edits, late>>
    BY <1>8 DEF RemoveEntry
  <2>3. /\ Directory(dest') /\ dest'[e] = NoEntry
        /\ \A f \in Entries : f # e => dest'[f] = dest[f]
    <3>1. Directory(dest) /\ e \in Entries
      BY <2>1, <2>2 DEF Allowed, Yaml, Entries
    <3> QED BY <2>1, <3>1, WriteEntry
  <2>4. /\ \A f \in todo' : Protected(f)' => f \in late'
        /\ todo' \subseteq Allowed /\ Visible(dest') \subseteq todo' \cup late'
    <3>1. todo' \subseteq Allowed /\ Allowed \subseteq Entries
      BY <2>1, <2>2 DEF Allowed, Yaml, Entries
    <3>2. \A f \in todo' : f # e /\ (Protected(f)' => Protected(f))
      BY <2>1, <2>3, <3>1 DEF Protected, Is
    <3>3. \A f \in todo' : Protected(f)' => f \in late'
      BY <2>1, <2>2, <3>2
    <3>4. Visible(dest') \subseteq todo' \cup late'
      <4>1. \A f \in Visible(dest') : f # e /\ f \in Visible(dest)
        BY <2>3 DEF Visible, Is, NoEntry
      <4> QED BY <2>1, <2>2, <4>1
    <3> QED BY <3>1, <3>3, <3>4
  <2> QED BY <2>2, <2>3, <2>4 DEF Directory, Is, Visible
<1>9. CASE StartCopy
  <2>1. /\ pc = "remove" /\ todo = {} /\ pc' = "copy" /\ delivered' = Empty
        /\ todo' = {e \in Allowed : Is(temp, e)}
        /\ UNCHANGED <<dest, temp, edits, late>>
    BY <1>9 DEF StartCopy, Goto
  <2>2. \A e \in (Entries \ Hidden) \ late : dest[e] = NoEntry
    BY <2>1 DEF Visible, Directory
  <2>3. \A e \in Entries : e \notin todo' => temp[e] = NoEntry
    BY <2>1 DEF Directory
  <2> QED BY <2>1, <2>2, <2>3 DEF Directory, Is
<1>10. CASE CopyEntry
  <2>1. PICK e \in todo : todo' = todo \ {e} /\ dest' = Write(dest, e, temp[e])
    BY <1>10 DEF CopyEntry, Write
  <2>2. pc = "copy" /\ delivered = Empty /\ UNCHANGED <<temp, pc, edits, hist>>
    BY <1>10 DEF CopyEntry
  <2>3. e \in Entries /\ (temp[e] = NoEntry \/ temp[e].by # "nobody")
    BY <2>1, <2>2 DEF Directory, Is, Allowed, Yaml, Entries
  <2>4. /\ Directory(dest') /\ dest'[e] = temp[e]
        /\ \A f \in Entries : f # e => dest'[f] = dest[f]
    BY <2>1, <2>3, WriteEntry
  <2> QED BY <2>1, <2>2, <2>4 DEF Directory, Is, hist
<1>a. CASE CopyRefused
  <2>1. /\ pc' = "idle" /\ temp' = Empty /\ late' = {}
        /\ UNCHANGED <<dest, edits, delivered>>
    BY <1>a DEF CopyRefused, Ends, Goto
  <2> QED BY <1>0, <1>1, <2>1
<1>11. CASE Finish
  <2>1. /\ pc = "copy" /\ todo = {} /\ temp' = Empty /\ late' = {}
        /\ pc' = "idle" /\ UNCHANGED <<dest, edits>>
        /\ delivered' = IF late = {} THEN temp ELSE Empty
    BY <1>11 DEF Finish, Ends, Goto
  <2>2. CASE late = {}
    BY <1>1, <2>1, <2>2 DEF Directory, Is
  <2>3. CASE late # {}
    BY <1>1, <2>1, <2>3 DEF Directory, Is
  <2> QED BY <2>2, <2>3
<1>12. CASE UserEdits
  <2>1. PICK e \in Entries, x \in {NoEntry, ByUser, [ByUser EXCEPT !.data = <<0>>]} :
          /\ dest' = Write(dest, e, x)
          /\ late' = IF pc \in {"remove", "copy"} THEN late \cup {e} ELSE late
    BY <1>12 DEF UserEdits, Write
  <2>2. x = NoEntry \/ x.by # "nobody"
    BY DEF ByUser
  <2>3. Directory(dest') /\ \A f \in Entries : f # e => dest'[f] = dest[f]
    BY <2>1, <2>2, WriteEntry
  <2>4. /\ edits' \in Nat /\ delivered' = Empty /\ UNCHANGED <<temp, pc, todo>>
    BY <1>12 DEF UserEdits
  <2>5. CASE pc \notin {"remove", "copy"}
    BY <2>1, <2>3, <2>4, <2>5 DEF Directory, Is
  <2>6. CASE pc = "remove"
    <3>1. late' = late \cup {e}
      BY <2>1, <2>6
    <3>2. Visible(dest') \subseteq todo' \cup late'
      BY <2>3, <2>4, <2>6, <3>1 DEF Visible, Is
    <3>3. \A f \in todo' : Protected(f)' => f \in late'
      BY <2>3, <2>4, <2>6, <3>1 DEF Protected, Is, Allowed, Yaml, Entries
    <3> QED BY <2>3, <2>4, <2>6, <3>2, <3>3 DEF Directory, Is, Visible
  <2>7. CASE pc = "copy"
    <3>1. late' = late \cup {e}
      BY <2>1, <2>7
    <3> QED BY <2>3, <2>4, <2>7, <3>1 DEF Directory, Is
  <2> QED BY <2>5, <2>6, <2>7
<1>13. CASE Fails
  <2>1. temp' = Empty /\ pc' = "idle" /\ edits' = edits /\ late' = {}
    BY <1>13 DEF Fails, Ends, Goto
  <2>2. CASE dest' = dest
    <3>1. delivered' \in {delivered, Empty}
      BY <1>13 DEF Fails
    <3> QED BY <1>1, <2>1, <2>2, <3>1 DEF Directory, Is
  <2>3. CASE dest' # dest
    <3>1. pc \in {"remove", "copy"} /\ delivered' = Empty
      BY <1>13, <2>3 DEF Fails
    <3>2. PICK e \in todo :
            dest' = Write(dest, e, [by |-> "torn", data |-> << >>])
      BY <1>13, <2>3 DEF Fails, Write
    <3>3. e \in Entries
      BY <3>1, <3>2 DEF Allowed, Yaml, Entries
    <3>4. Directory(dest')
      BY <3>2, <3>3, WriteEntry
    <3> QED BY <1>1, <2>1, <3>1, <3>4 DEF Directory, Is
  <2> QED BY <2>2, <2>3
<1> QED BY <1>2, <1>3, <1>4, <1>5, <1>6, <1>7, <1>8, <1>9, <1>10, <1>a, <1>11,
           <1>12, <1>13
        DEF Next

LEMMA ReplaceInvariant == Spec => []ReplaceInv
<1>1. Init => ReplaceInv
  BY DEF Init, ReplaceInv, Directory, Empty, DeliveredIsThere
<1> QED BY <1>1, ReplaceNext, PTL DEF Spec

(* After a complete run the directory holds what was built and nothing else, *)
(* and later runs that fail before they replace anything leave it so.        *)
THEOREM Delivered == Spec => []DeliveredIsThere
<1>1. ReplaceInv => DeliveredIsThere
  BY DEF ReplaceInv
<1> QED BY <1>1, ReplaceInvariant, PTL

(* Nothing of the user's is ever changed by gocharm, whenever the user wrote *)
(* it, whatever fails and wherever gocharm is interrupted, but for a yaml    *)
(* file written between its last look and the end of the replacement.        *)
THEOREM KeepsUserFiles == Spec => UserFilesKept
<1> DEFINE Step == \A e \in Entries :
                     /\ Protected(e) /\ (e \in Yaml => e \notin late)
                     /\ dest'[e] # dest[e]
                     => edits' # edits
<1>1. ReplaceInv /\ [Next]_vars => [Step]_vars
  <2> SUFFICES ASSUME ReplaceInv, Next, NEW e \in Entries,
                      Protected(e), e \in Yaml => e \notin late,
                      dest'[e] # dest[e]
               PROVE  edits' # edits
    BY DEF vars, build
  <2>1. CASE UserEdits
    BY <2>1 DEF UserEdits, ReplaceInv
  <2>2. ASSUME NEW f \in todo, NEW x, pc \in {"remove", "copy"},
               dest' = Write(dest, f, x)
        PROVE  FALSE
    <3>1. e = f
      BY <2>2 DEF ReplaceInv, Directory, Write
    <3>2. e \in Allowed /\ e \notin Hidden
      BY <2>2, <3>1 DEF ReplaceInv, Allowed, Yaml, Hidden
    <3>3. e \in Yaml /\ e \notin late
      BY <3>2 DEF Protected
    <3>4. pc = "copy" /\ dest[e] = NoEntry
      BY <2>2, <3>1, <3>2, <3>3 DEF ReplaceInv
    <3> QED BY <3>3, <3>4 DEF Protected, Is, NoEntry, Hidden
  <2>3. CASE RemoveEntry
    <3>1. PICK f \in todo : dest' = Write(dest, f, NoEntry)
      BY <2>3 DEF RemoveEntry, Write
    <3>2. pc = "remove"
      BY <2>3 DEF RemoveEntry
    <3> QED BY <2>2, <3>1, <3>2
  <2>4. CASE CopyEntry
    <3>1. PICK f \in todo : dest' = Write(dest, f, temp[f])
      BY <2>4 DEF CopyEntry, Write
    <3>2. pc = "copy"
      BY <2>4 DEF CopyEntry
    <3> QED BY <2>2, <3>1, <3>2
  <2>5. CASE Fails
    <3>1. dest' # dest
      OBVIOUS
    <3>2. pc \in {"remove", "copy"}
      BY <2>5, <3>1 DEF Fails
    <3>3. PICK f \in todo :
            dest' = Write(dest, f, [by |-> "torn", data |-> << >>])
      BY <2>5, <3>1 DEF Fails, Write
    <3> QED BY <2>2, <3>2, <3>3
  <2>6. CASE UNCHANGED dest
    BY <2>6
  <2> QED BY <2>1, <2>3, <2>4, <2>5, <2>6
          DEF Next, Start, ReadRevision, Compile, Inspect, build, InspectPanics,
              WriteCharm, WriteRevision, Clean, StartCopy, CopyRefused, Finish
<1>2. Spec => [][Step]_vars
  BY <1>1, ReplaceInvariant, PTL DEF Spec
<1> QED BY <1>2 DEF UserFilesKept
=============================================================================
