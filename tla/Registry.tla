------------------------------ MODULE Registry ------------------------------
(* The hook registry (hook/registry.go) while a charm registers itself: the  *)
(* sub-registries with their names, and what is registered with them.  A     *)
(* charm may call the methods in any order; a call that breaks a rule        *)
(* panics, and the program that registers ends.                              *)
EXTENDS Integers, Sequences

CONSTANTS
  Chars,      \* what names are made of
  Names,      \* arguments of Clone
  Hooks,      \* the valid hook names
  Options,    \* names of configuration options, and of resources
  Details,    \* what an option or a resource may be registered with
  Relations,  \* names of relations
  MaxCalls    \* bound on the calls of one program

Wildcard == "*"
BadHook  == "relation-joined"  \* a relation hook of no relation
Dot      == "."

ASSUME RegistryAssumption ==
  /\ MaxCalls \in Nat
  /\ {Dot, "root"} \subseteq Chars /\ Names \subseteq Seq(Chars)
  /\ {Wildcard, BadHook} \cap Hooks = {}
  /\ {"install", "start"} \subseteq Hooks

VARIABLES
  regs,       \* each Registry: its name, its clones, hasContext, hasCommand
  hooks,      \* for each hook name the registries of its functions, in order
  commands,   \* for each registry name the registry whose command it runs
  contexts,   \* the registries of the context setters, in order
  state,      \* the registry names of the state values, in order
  relations, resources, config,
  panicked, calls

reg == <<regs, hooks, commands, contexts, state, relations, resources, config,
         panicked, calls>>

Root == [name |-> <<"root">>, clones |-> {}, ctx |-> FALSE, cmd |-> FALSE]

NoHooks == [h \in Hooks \cup {Wildcard} |-> << >>]

NewRegistry ==
  /\ regs = <<Root>> /\ hooks = NoHooks
  /\ commands = << >> /\ contexts = << >> /\ state = << >>
  /\ relations = << >> /\ resources = << >> /\ config = << >>
  /\ panicked = FALSE /\ calls = 0

(* The program has ended and with it its registry.                           *)
Exit ==
  /\ regs' = <<Root>> /\ hooks' = NoHooks
  /\ commands' = << >> /\ contexts' = << >> /\ state' = << >>
  /\ relations' = << >> /\ resources' = << >> /\ config' = << >>
  /\ panicked' = FALSE /\ calls' = 0

(* A partial function that also maps k to v.                                 *)
With(f, k, v) ==
  [x \in DOMAIN f \cup {k} |-> IF x = k THEN v ELSE f[x]]

Called == ~panicked /\ calls < MaxCalls /\ calls' = calls + 1

Panic ==
  /\ panicked' = TRUE
  /\ UNCHANGED <<regs, hooks, commands, contexts, state, relations, resources,
                 config>>

Reg == [name : Seq(Chars), clones : SUBSET Names, ctx : BOOLEAN, cmd : BOOLEAN]

TypeOK ==
  /\ regs \in Seq(Reg)
  /\ hooks \in [Hooks \cup {Wildcard} -> Seq(DOMAIN regs)]
  /\ DOMAIN commands \subseteq {regs[i].name : i \in DOMAIN regs}
  /\ \A name \in DOMAIN commands : commands[name] \in DOMAIN regs
  /\ contexts \in Seq(DOMAIN regs) /\ state \in Seq(Seq(Chars))
  /\ panicked \in BOOLEAN /\ calls \in 0 .. MaxCalls

-----------------------------------------------------------------------------
(* A name that would be ambiguous: blank, or with a dot or a separator.      *)
InvalidNameDotted(n) == n = << >>                        \* a mutant

InvalidName(n) == n = << >> \/ \E k \in 1 .. Len(n) : n[k] \in {Dot, "/"}

Clone(i, n) ==
  /\ Called
  /\ IF InvalidName(n) \/ n \in regs[i].clones
       THEN Panic
       ELSE /\ regs' = Append(
                 [regs EXCEPT ![i].clones = @ \cup {n}],
                 [Root EXCEPT !.name = regs[i].name \o <<Dot>> \o n])
            /\ UNCHANGED <<hooks, commands, contexts, state, relations,
                           resources, config, panicked>>

RegisterHook(i, h) ==
  /\ Called
  /\ IF h = BadHook
       THEN Panic
       ELSE /\ hooks' = [hooks EXCEPT ![h] = Append(@, i)]
            /\ UNCHANGED <<regs, commands, contexts, state, relations,
                           resources, config, panicked>>

(* With a state value that is not a pointer the setter has been registered   *)
(* when RegisterContext panics, which nobody sees.                           *)
RegisterContext(i, kind) ==
  /\ Called
  /\ IF regs[i].ctx \/ kind = "not a pointer"
       THEN Panic
       ELSE /\ regs' = [regs EXCEPT ![i].ctx = TRUE]
            /\ contexts' = Append(contexts, i)
            /\ state' = IF kind = "nil" THEN state
                        ELSE Append(state, regs[i].name)
            /\ UNCHANGED <<hooks, commands, relations, resources, config,
                           panicked>>

RegisterCommand(i) ==
  /\ Called
  /\ IF regs[i].cmd
       THEN Panic
       ELSE /\ regs' = [regs EXCEPT ![i].cmd = TRUE]
            /\ commands' = With(commands, regs[i].name, i)
            /\ UNCHANGED <<hooks, contexts, state, relations, resources,
                           config, panicked>>

(* What is registered again must be the same.                                *)
Clashes(table, name, details) ==
  name \in DOMAIN table /\ table[name] # details

Relation ==
  [role : {"", "provider", "requirer", "peer"}, limit : 0 .. 1,
   scope : {"", "global"}]

Normal(rel) ==
  [rel EXCEPT !.limit = IF @ = 0 /\ rel.role \in {"peer", "requirer"}
                          THEN 1 ELSE @,
              !.scope = IF @ = "" THEN "global" ELSE @]

(* A relation needs a name, an interface and a role.                         *)
RegisterRelation(name, rel) ==
  /\ Called
  /\ IF rel.role = "" \/ Clashes(relations, name, Normal(rel))
       THEN Panic
       ELSE /\ relations' = With(relations, name, Normal(rel))
            /\ UNCHANGED <<regs, hooks, commands, contexts, state, resources,
                           config, panicked>>

(* A new resource is validated, which may panic.                             *)
RegisterResource(name, details, valid) ==
  /\ Called
  /\ IF \/ Clashes(resources, name, details)
        \/ name \notin DOMAIN resources /\ ~valid
       THEN Panic
       ELSE /\ resources' = With(resources, name, details)
            /\ UNCHANGED <<regs, hooks, commands, contexts, state, relations,
                           config, panicked>>

RegisterConfig(name, details) ==
  /\ Called
  /\ IF Clashes(config, name, details)
       THEN Panic
       ELSE /\ config' = With(config, name, details)
            /\ UNCHANGED <<regs, hooks, commands, contexts, state, relations,
                           resources, panicked>>

Register ==
  \/ \E i \in DOMAIN regs :
       \/ \E n \in Names : Clone(i, n)
       \/ \E h \in Hooks \cup {Wildcard, BadHook} : RegisterHook(i, h)
       \/ \E kind \in {"nil", "pointer", "not a pointer"} :
            RegisterContext(i, kind)
       \/ RegisterCommand(i)
  \/ \E name \in Relations, rel \in Relation : RegisterRelation(name, rel)
  \/ \E name \in Options, d \in Details :
       \/ \E valid \in BOOLEAN : RegisterResource(name, d, valid)
       \/ RegisterConfig(name, d)

-----------------------------------------------------------------------------
(* What gocharm asks of the registry when all is registered.  Main hooks are *)
(* always there.                                                             *)
RegisteredHooks ==
  {h \in Hooks : hooks[h] # << >>} \cup {"install", "start"}

WithRole(role) ==
  {n \in DOMAIN relations : relations[n].role = role}

-----------------------------------------------------------------------------
(* Clone gives "a separate name space for local state and for commands"      *)
(* (registry.go:107): no two registries share a name, so no two state values *)
(* share a file, no two contexts a state directory, and a command name runs  *)
(* the command of the registry that registered it.                           *)
SeparateNameSpaces ==
  /\ \A i, j \in DOMAIN regs : regs[i].name = regs[j].name => i = j
  /\ \A i, j \in DOMAIN state : state[i] = state[j] => i = j
  /\ \A i \in DOMAIN regs : regs[i].cmd => commands[regs[i].name] = i
=============================================================================
