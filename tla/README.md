# A TLA+ verification development of gocharm

gocharm is a framework for writing Juju charms in Go. Juju, the orchestrator,
runs a charm by executing one *hook* process after another (`install`,
`config-changed`, `x-relation-joined`, ...). A charm made with gocharm is a
program in which packages ("charm bits") register hook functions, persistent
state, relations and configuration with a `hook.Registry`; `hook.Main` runs one
hook. Some charm bits manage a service of the operating system, which is the
same executable running a command, and talk to it by RPC over a local socket.

The modules here model that program, TLC checks them on small instances, and
TLAPS proves some of the properties for every instance. References such as
`hook/main.go:75` are to files under `src/`.

## 1. Inventory

### The parts, their state and their operations

| Part | State | Operations | Module |
|---|---|---|---|
| hook process (`hook/main.go`, `hook/state.go`) | one state value per registry, in memory and in a file each | load all, set contexts, call functions, save all (deferred) | `HookMain` |
| registry (`hook/registry.go`) | lists of functions, contexts, states, relations, options | registration, while the program starts | `Registry`; what it leads to in a hook is `HookMain`'s constants |
| hook context (`hook/hook.go`, `hook/runner.go`) | a snapshot of relations, the result of `config-get` | hook tools: `open-port`, `close-port`, `relation-set`, `config-get`, `unit-get` | steps of `HTTPProvider` |
| OS service (`charmbits/service`) | `Installed` and `Args` in the record; the unit file; the process | `Start`, `Restart`, `Stop`, `StopAndRemove`, `Call`; the RPC command | `CharmService` |
| http relation provider (`charmbits/httprelation`, `charmbits/simplerelation`) | recorded open ports, recorded relation values; Juju's open ports and relation settings | `configChanged`, `SetValues`, relation-joined | `HTTPProvider` |
| httpservice server (`charmbits/httpservice/server.go`, `charmbits/mongodbrelation`) | `srv.state`, relation struct, handler, two listeners, the state file | start, `Set`, `Kill`/`Wait` | `HTTPServer` |
| httpservice hook side (`charmbits/httpservice/service.go`) | `Started`, `ArgData`, the collected relation values | `Start`, `Stop`, `Restart`, `changed`, collecting | `HTTPService` (with `HTTPServer` inside) |
| resources (`charmbits/resource`) | a hash per resource | `updateResources` in `install` and `upgrade-charm` | `Resource` |
| relation requirers (`charmbits/*relation/requirer.go`) | none | pure reading of the context | in `HTTPServer`, `HTTPService` |
| `hooktest` (`hook/hooktest`) | the fake services, their commands, a channel of events | `Install`, `Start`, `Stop`, `StopAndRemove`, `Running`; a goroutine per command | `HookTest` |
| gocharm command (`cmd/gocharm`) | the charm directory, a temporary one | build, inspect, clean, copy | `Gocharm` (with `Registry` inside) |
| concat charm (`example-charms/concat`) | committed and wanted state; the server's state, file, listener | hook functions, `finally`; `Set`, the serving goroutines | `Concat` |
| other example charms | none | a few registrations | instances of `HTTPService` |

### How they interact

* Juju to charm: one hook process at a time; a hook that fails or is interrupted
  is run again before any other. A hook sees the configuration and relations as
  they are when it starts.
* Within a hook: functions are called in registration order, those for the hook
  first and the wildcard (`*`) functions after them, until one returns an error.
  Charm bits share state through pointers that the registry loads and saves:
  `httpservice` reads `httprelation`'s recorded ports and `service`'s record.
* Charm to Juju: hook tools, which take effect at once and survive a failure of
  the hook. The files of state are saved at the end, one after the other.
* gocharm to charm: it compiles the package, runs its registration in a program
  of its own to learn the hooks, relations and options there are, and writes them
  to the charm directory for Juju to find.
* A test to the fake service manager: operations under a mutex, events on a
  buffered channel, one goroutine for each command that was started.
* Charm to service: the service manager (install, start, stop, remove) and RPC
  on a socket. The service outlives hooks, dies and is started again on its own.

### What is hard about it

1. *Record against world.* Every charm bit keeps a record (ports opened, service
   installed, resource hash, values told) of something outside. The outside
   changes at once and the record at the end of the hook, so a crash or a failing
   step in between leaves them different when the hook is run again.
2. *Partial failure.* Errors end a hook in the middle, but the state is saved
   all the same; `Server.set` fails after closing what was there.
3. *Concurrency.* A killed hook's `Set` goes on in the server while the next hook
   sends its own; the process dies, is started again or boots between any two
   steps; a resource is attached while the hook runs; concat's serving goroutines
   read the listener without the mutex; the fake service manager's goroutines and
   its operations compete for a mutex and for room in a channel; a user edits the
   charm directory while gocharm builds or replaces it.
4. *Retries.* Each step of a failed hook may be done twice.
5. *Ordering.* HTTP then HTTPS ports, functions then wildcard functions, setters
   before handlers before listeners.

`PROJECT.json` lists each hazard at its line with the properties that cover it.

### What makes each part correct

* Hook process: nothing a function did is lost except by a crash or an I/O error;
  an unreadable file is not overwritten; functions run in order; success means
  that all ran and all was saved.
* Provider: recorded ports are open ports, relations are told what is recorded,
  and both follow the configuration once hooks are done.
* OS service: no process without its unit, a record that accounts for every unit,
  known arguments, and the executable that was asked for.
* httpservice server: what a quiet `Set` asked for is served, nothing stale is
  served after any failure, sessions and handlers do not leak, every `Set` is
  answered.
* httpservice as a whole: once the hooks are done, what runs is what
  configuration, relations and charm ask for.
* Resources: recorded hashes are those of what was installed last.
* Registry: no two clones share a state file, a directory or a command.
* gocharm: what it did not write it leaves alone, and what it delivered is there
  until the next run that gets as far as replacing it.
* concat: the committed state is what everybody was told.
* hooktest: the events are those of what happened, and no operation hangs while the
  channel has room.

## 2. The modules

Each component module declares its bounds as CONSTANTS with a named ASSUME, has
one action per step of the code, and `Next` is their disjunction. Definitions
keep the names of the code where they can. `MCx.tla` holds the instances for TLC
and `xProofs.tla` the proofs. A definition marked "a mutant" is not part of the
specification: it is a plausible mistake in the definition after it that a
property is shown to catch.

### HookMain

`disk[n]` is registry n's file: `Absent`, `Torn` (truncated, not yet written) or
a value; `mem` the states in the process. `LoadOne`, `LoadUnreadable` and
`LoadIOError` are `loadState` (`hook/main.go:107`), `SetContext` the loop at
line 70, `Lookup` and `RunFunc` the loop at 97, `SaveOpen`/`SaveWrite`/`SaveError`
are `saveState` with `diskState.Save`, which truncates the file before writing
it. `Crash` may come between any two steps. A hook name with no function of its
own ends with `usageError` after saving. A hook function may assign any state.
An empty file is data that `json.Unmarshal` rejects (only a missing file is no
data), hence `Torn` cannot be loaded. Context setters are taken to leave states
alone, which is true of every one in the repository but `concat`'s, whose
variable is not a registered state.

### DurableState

The abstract specification of persistent state: a store of one value per
registry and a session with it that sees all of the store or none, changes what
it sees, puts it back in place one by one and in order, may be cut off at any
moment, and says "ok" only if all was put back. HookMain implements it:
`HookMain!Store` is `INSTANCE DurableState` with the files as the store, `Stage`
(the phase of the process) as the stage of the session, `View` (the states in
memory, once all are loaded) as what it sees, and the save index as the first
value not yet put back. Loading loops, context setters, the order of functions
and faults have no counterpart: they are stutters, changes or the end of a
session. `IsDurableStore` is the property; a run checks it and a theorem proves
it.

### CharmService

`unit` (the installed unit and the arguments in it), `status`/`running`/`exe`
(the process) and `rec`/`stored` (`svc.state` in the hook and on disk). Each
call of the service manager is a step (`OSInstall`, `OSStart`, `OSStop`,
`OSUninstall`) that may fail (`OSError`). `DialOK` and `DialTimeout` are the
dialling of `Call`; then the hook waits in `rpc` for as long as the process cares
to take, until `CallAnswered`, or `CallBroken` when the process dies. `first` (the
arguments of the first start that found no unit) and `half` (a start failed after
its install) are history. External, from the use made of it: starting what runs
and stopping what does not run are no errors; a process that died may be started
again; an installed unit may be started at boot. The record is saved in one step
at the end of the hook (HookMain has the detail). `Upgrade` unpacks a new
executable and runs the `upgrade-charm` hook, for which the package registers
nothing.

### HTTPProvider

One hook tool call per step. `hcfg` is the configuration snapshot of the hook,
`rec` the provider's recorded ports, `vals` simplerelation's recorded values,
`disk` both as saved (values first: they are registered first), `open` and `adv`
what Juju has. `ReadPort`, `ClosePort`, `OpenPort` are `configurePort`,
`CheckCert`/`CertIgnored` the certificate, `Advertise`, `SetRelation`,
`SetValuesDone` the `SetValues` call and `Joined` the relation-joined hook.
Every tool may fail (`ToolFails`) and the machine may crash between steps.

### HTTPServer

The server process with every step of `set` (`server.go:197-274`) that calls out
or returns early as an action: `SetNothingToServe`, `SetIncomplete`,
`SetRelations`, the setters (`SetterCloses`, `SetterDials`, `DialFails`, with
mongodbrelation's setter as the registered type), `NothingToDo`/`SetUnchanged`,
`SetRestarts` (finalize and close), `Refill`, `HandlerStarts`/`HandlerFails`,
`ListenHTTP`, `ListenHTTPS`, then `StoreOpen`/`StoreWrite`/`StoreFails` for
`Set` or `BootDone` for a start. `CallSet` is an RPC call that queues on the
mutex, `LockSet` takes it. `Kill` and `Shutdown` are the tomb's death, which in
production is replaced by `Terminate`, the end of the process. `FieldSlot(f) = 1`
is the `Field(0)` of `server.go:394`: the setter of every field is handed the
first one. `quiet`, `open`, `live`, `refused` and `stranded` are history; the last
says that a handler failed with relations in its struct and that nothing has closed
and emptied the struct since.

Not modelled: a `Serve` goroutine that ends by itself, setters other than
mongodbrelation's, HTTP requests.

### ServerFront

The abstract specification of the server: what hooks that call it and clients that
connect to it may count on, without relations, handlers, setters or warnings. Its
front is the doors (listeners) that are open and the argument served behind them.
A call is admitted, taken when no other is worked at, and answered once the front
is `PartOf` what it asked for: all its doors or some or none. In between the doors
are shut all together and opened one by one, so that doors of two calls are never
open side by side and old ones are not opened again. `disk` is what the next start
takes: what the last call asked for that was saved, or `Torn`, with which there is
no start. A server told to stop admits no call, answers those it has, and then
shuts its doors; one that dies drops them.

HTTPServer implements it: `HTTPServer!Facade` is `INSTANCE ServerFront` with
`Phase` (from `life` and `pc`), `Front` (from the two listeners and the handler, or
the argument in `cur` while the handler is not yet recorded), the pending calls, the
request and the file. `IsServerFront` is the property. It is safety only: a server
that opens no door implements it too. That doors are opened is what
`QuietSetServes` says when there is no warning, and that calls are answered
`SetAnswered`.

### HTTPService

The hook side composed with the server: the module extends HTTPServer and uses its
variables and actions, and each action of `ServiceNext` either is a step of the
hook that leaves the server alone, a step of both (`OSStop`, `OSStart`, `Call`), or
a step of the server (`ServerWorks`, `ServerLocks`, `Respawn`, `Die`, `Reboot`).
HTTPServer's own `Next`, with its arbitrary callers, plays no part in
`ServiceSpec`; that each step is one of it all the same is proved (section 5).
`ServiceAssumption` says that what a hook can ask for is among `Requests`.

`at` is where the hook is: its own functions (`ConfigChanged` for the provider,
`StartService`, `StopService`, `RestartService` for a function of the charm),
`Collect` for the wildcard function of `newHandlerInfo`, `Changed`, `OSStop`,
`OSStart`, `Call`, `Answered`, `AnswerLost` for `changed`, and `EndHook`, which
saves `mem` in `stored` whether the hook failed or not. `Start` and `Stop` call
`changed` themselves, before any relation value was collected (`vals` is empty):
a server that was serving is then told to stop until the end of the hook. This
is in the model, and the properties look at the end of the hooks.

Abstracted: the recorded ports follow the configuration in one step (`Follow`: an
invalid port changes nothing; HTTPProvider has the tool calls), install and start of
the service are one step and so is saving. The `Restart` of the charm comes only
after a start. Callers are two: a hook's connection and the one that a killed hook
left behind.

### Resource

A resource's hash is its content. `Skip` is `Has` (an error counts as absent),
`GetFails`, `Update` and `InstallDone`/`InstallFails` are `installOrUpdate`, in
any order of the names (the code iterates over a map), `LoopDone` ends the hook.
`Attach` may happen at any time; `Has`, `GetPath` and the hash see one content.

### Concat

The concat charm is the repository's own example of a commit protocol: hook
functions work out a wanted state (`Changed`), and a wildcard function, `finally`,
compares it with the committed one, starts the service if it does not run
(`FinallyChanged`), calls its `Set` (`CallSet`), tells each downstream relation
(`TellDownstream`) and commits (`Commit`). `EndHook` saves; `KillHook` leaves the
files as `SaveStops` says, a prefix in the order of registration (provider's
port, service's record, concat's state). `StepFails` is a hook tool or the service
manager failing.

The server (`http.go`): `SetLock` takes `svc.mu`; `SetClose`, `SetListen`,
`StoreOpen`, `StoreWrite` are `set` and `saveState`. Each listener has a goroutine
that calls `Serve(svc.listener)` and reads the field without the mutex:
`ServeFresh` when it comes in time, `ServeStale` when the listener was closed in
the meantime, `ServeNil` when there is none then, on which `Serve` panics and
takes the process with it. `Boot` loads the file and does nothing when it is
half written. A value is the sequence of what was joined, so that two different
joins are told apart as far as the strings are.

Abstracted: the hooks of the upstream relation are one hook, the provider's port
is recorded in one step (`Follow`, as in HTTPService) and the service manager's install and
start are one step (CharmService). `spoke` and `strayed` are history.

### HookTest

`op` is what is left of the operation that the test has called (`Install` is its
own part and then `Start`, `StopAndRemove` is `Stop` and then its own part, with
the mutex free in between), `send` the events that the current part has still to
send, `mu` who holds the mutex, `life`, `failed` and `waiter` each command with
its goroutine. `Lock`, the parts (`Installed`, `NothingToDo`, the three outcomes
of `RunCommand`, `Kill` and `Waited`, `Delete`), `Send` and `Sent` are the
operations of `hook/hooktest/service.go`; `WaiterWakes`, `WaiterError`,
`WaiterLock`, `WaiterStop` the goroutine of line 155. A send waits for room in the
channel, with the mutex held except for a waiter's error.

### Registry and Gocharm

`Registry` has an action for each registering method of `hook.Registry`, called
in any order, with the panics (`panicked`): `Clone` with its restriction on names,
`RegisterHook`, `RegisterContext`, `RegisterCommand`, `RegisterRelation`,
`RegisterResource` and `RegisterConfig` with their rules for duplicates. A name
is a sequence of characters as far as the dots that `Clone` adds tell parents
from clones.

`Gocharm` extends it: between `Start` and `WriteCharm` the inspect program runs
the registration (`Inspect`, `InspectPanics`). The charm directory `dest` and the
temporary one map each kind of entry to who wrote it (`gocharm`, `user`, or
`torn`: half removed or half copied) and what is in it. `Start` and `Clean` are
the two looks of `canClean`, before the build and before the replacement;
`ReadRevision` and `WriteRevision` keep the revision; `RemoveEntry` and
`CopyEntry` replace entry by entry; `Fails` is an error or an interruption
anywhere. `UserEdits` may come between runs, during the build and during the
replacement; what is written in the last is in `late`, which is history. The copy is
that of a library outside of `src/`, and may write over an entry that it finds or
refuse to (`CopyRefused`).

### Proof modules

`HookMainProofs`, `HTTPProviderProofs`, `CharmServiceProofs`, `HTTPServiceProofs`
(HTTPServer and HTTPService), `ResourceProofs`, `HookTestProofs`, `GocharmProofs`
and `ConcatProofs`: section 5.

## 3. The runs

| Run | Instance | What it shows |
|---|---|---|
| `hookmain_faults` | 3 registries, 2 setters, 3 hook names (one unregistered), 2 faults | durability, success, the sequence of calls, prefix of saved files, unreadable files kept, each process ends, the store is implemented |
| `charmservice_faults` | 2 arguments, 2 operations a hook, 1 upgrade, 2 faults | no orphan, units accounted for, which arguments run, restart after upgrade, operations return unless a process never answers |
| `httpprovider_faults` | 5 configurations of ports 80, 81, 0 / 443, 444, 65535, with and without certificate; 2 relations, 2 changes, 1 tool failure, 1 crash | ports and relations against the record, settling, hooks come to an end |
| `httpserver_onefield` | one relation field, 6 states, 2 callers, failing dial, handler, listen and save | a quiet `Set` serves, nothing stale is served, no session or handler leaks; every `Set` answered; a kill ends; the abstract server is implemented |
| `httpservice_faults` | 3 configurations, one relation, 1 change, 2 acting hooks, 2 faults | once hooks are done what runs is what is asked for, and hooks come to an end |
| `resource_faults` | 3 resources, 2 contents, 4 attachments, 2 faults | records up to date, no repeated installation |
| `concat_faults` | 1 word, 1 upstream unit, 1 downstream relation, 2 ports, 3 changes, 1 fault | who was told what once hooks are done, what a commit means, hooks come to an end |
| `hooktest_faults` | 4 operations, channel of 2 | the events agree with what happened; operations and goroutines end, or wait for room in the channel |
| `gocharm_faults` | 3 registrations, 2 runs, 1 edit, 1 fault | separate name spaces, the user's files kept, the delivered charm is there |
| `httpserver_relations` | one field, failing handler | violation, see below |
| `httpprovider_swap` | 80 and 443 are exchanged once | violation, see below |
| `hooktest_documented` | 2 operations, channel of 2 | violation, see below |

The type invariants of HookMain, HTTPProvider, CharmService, Resource, Concat,
HookTest and Registry are proved and are not in these runs. `ServiceTypeOK`, which
has the `TypeOK` of HTTPServer as a part, is checked by `httpservice_faults`.

### Why the bounds are enough

* Faults: with two, a second one hits the retry after the first. The bound
  is on their total, so that all positions and pairs are explored.
* HookMain: three files show a prefix, a torn file and an untouched one in one
  run; two values tell old from new; hooks themselves are unbounded in number.
* HTTPProvider: two changes let a port move, with a failure, and move again or
  back; 0 and 65535 are the two boundaries `configurePort` refuses, each in a
  configuration that other ones come before and after; two relations let
  `SetValues` fail half way.
* HTTPServer: its states are a function of the states asked for; the requests are
  one per way in which two may differ (port, certificate, argument, relation
  value, incomplete, unlistenable). Sets, kills and restarts are unbounded. The
  requests always ask for something to serve because `changed` stops the service
  otherwise (the empty state of the first start is served all the same).
* HTTPService: one change and two acting hooks around it; starting from an empty
  machine, each run installs, starts, changes and restarts with two faults.
* Resource: three resources let one succeed, one fail and one remain.
* Concat: three changes let the configuration change, another hook come in
  between and the change be taken back; the fault is a death, a killed hook, a
  failing step, listen or save, or a goroutine that finds no listener, at any
  step. One word or none is enough for different values, and two ports (or none)
  for a listener that is moved, closed and opened.
* HookTest: 2 is the size that `hook/hooktest/service.go:20` asks for. Four
  operations let a service be started, stopped, started again and removed with the
  goroutines of both commands still about; two suffice for the channel to fill.
* Gocharm: three registrations are a clone, a clone of it and a command or a
  clash; with two runs and one edit, a run meets what an earlier one, broken off
  or not, and the user have left.

Every fault of HTTPServer is on in `httpserver_onefield`, where its properties make
one exception: the session that the next handler gets after one has failed
(`stranded`), which `httpserver_relations` shows to be wrong. A server without
relations is not run: there `QuietSetServes` is false with failing listeners, because
of what section 4 says of `server.go:217`; with a relation every `Set` builds the
handler anew.

The passing runs have, in distinct states: `hookmain_faults` 232,662,
`charmservice_faults` 252,843, `httpprovider_faults` 1,205,457, `httpserver_onefield`
539,980, `httpservice_faults` 1,449,474, `concat_faults` 1,276,476, `hooktest_faults`
17,555, `gocharm_faults` 1,889,393.

Deadlock is checked except in HTTPProvider, Resource, HTTPService, Concat,
HookTest and Gocharm, which come to rest when the bounds on changes, operations
or runs are used up and nothing is left to do.

### Fairness

* HookMain: weak fairness of a running process (`Process`): a program goes on.
* CharmService: weak fairness of `Step`: an operation that was begun goes on
  (`Call` gives up dialling after two seconds). Hooks, respawns, and that a process
  serves or answers a call, are not assumed to happen: `rpcClient.Call` has no
  timeout.
* HTTPProvider: weak fairness of a running hook; strong fairness of each hook that
  is due, which Juju's queue gives it: a joined hook is not put off for ever by
  failing configuration hooks, whose number is bounded.
* HTTPServer: weak fairness of the goroutine in `set` and of the shutdown;
  strong fairness of `LockSet` for each caller, since `sync.Mutex` hands the
  mutex to a waiter that has waited for more than a millisecond. No fairness of
  `Kill`, `CallSet` or starts.
* HTTPService: weak fairness of Juju running some due hook, of the hook and of
  the server's work. Nothing obliges the service manager to start a dead process
  again: the hook that finds it dead does. A failing save, a slow start and a
  failing step are bounded by `MaxFaults`, as no retry could succeed otherwise.

* Concat: weak fairness of the hook's steps (Juju runs hooks that are due, and a
  hook goes on) and of the server's (the goroutine in `Set` goes on, the listener's
  goroutines are scheduled, the service manager starts a dead server again).
* HookTest: strong fairness of the test and of each waiter: `sync.Mutex` and Go's
  channels serve waiters in turn. A killed command ends; one that was not killed
  need not. The test reads all events before it calls the next operation.
* Resource, Gocharm: none is needed, only safety is checked.

### What the passing runs show

*HookMain*: `RunOrder` compares what was called with the tables of functions,
position by position; `IsDurableStore` says that all the processes, whatever fails,
are sessions with one store of values; `SavedIsPrefix` says that however a process
ended its saved files are a prefix in registration order with at most the next one
torn: states of different registries may be of different age afterwards, in that
order only.

*CharmService*: after any failure or killed hook the process that runs has a
unit and runs with that unit's arguments (`NoOrphan`), which are those of the first
start that found no unit, whatever later ones ask for (`FirstArgsKept`). Without
crashes what is on record is installed (`RecordedIsInstalled`), and a unit that is
not on record is there only if a start failed after its install (`UnitAccounted`).
Nothing is claimed of the arguments on record, which differ from the unit's after a
`Start` with others. `OperationsReturn`: operations return, except a `Call` of a
process that lives and does not answer.

*HTTPProvider*: `RecordedPortsOpen` holds at every step without a crash;
`SettledIsRight` and `ToldIsRecorded` with crashes too, for ports that do not
coincide. `SettledIsRight` speaks of the HTTPS port only with a certificate and when
no failure to read it was swallowed (below). `EventuallySettled`: the hooks come to
an end, with all relations told and, if nothing crashed, the configured HTTP port open.

*HTTPServer*: `QuietSetServes` (all or a warning), `NothingStaleServed`
(whatever failed), `ResourcesAccounted`, `SetAnswered`, `KillEnds`; `IsServerFront`
says what all that comes to for callers and clients, step by step and not only when
the server is at rest: a mutex that is not held for the whole of `Set` breaks it.

*HTTPService*: `UnwantedIsDown`, `LastSetIsWanted`, `WantedIsServed` say what
the server does once no hook is due, an invalid configured port counting as the
recorded one (`httprelation/provider.go:136`); they hold with every interleaving of hooks,
deaths and respawns except after a reboot that started a stopped service (before
the next hook) and after a killed hook's `Set` ran later than the next hook's.
`EventuallySettled`: the hooks come to an end, unless the server cannot read its
file (`refused`) or the record of the service was lost (`Disowned`).

*Concat*: `CommitIsLast`, that a state is put on record only after the server has
saved it and every relation was told; `SettledAgree`, that once the hooks are done
configuration (with the recorded port if the configured one is invalid), record,
relations, file and server agree, except after a hook was
broken off when it had told somebody (`strayed`).

*HookTest*: `EventsTellTheState`, that a test may go by the events; each `Start`
has one `Stop`, whether the command ends of itself, is stopped or both at once.
`OnlyTheChannelBlocks`: no order in which operations and goroutines take the mutex
makes anyone wait for ever, except for room in the channel of an operation's events.

*Gocharm*: `UserFilesKept`, although an edit may come during the build or the
replacement and a run may be broken off half way (a yaml file that appears after the
last look is the exception); `DeliveredIsThere`, if no edit came during the
replacement, that nothing of an earlier charm stays behind and that a failing build
leaves the last one in place.

## 4. Disagreements between the code and what it says

Three have a run that shows them (`findings` in PROJECT.json):

* `httpserver_relations`: after a handler failed the next `Set` starts it with a
  nil session (`server.go:228`).
* `httpprovider_swap`: after 80 and 443 are exchanged, 443 is recorded as the open
  HTTP port and is closed (`httprelation/provider.go:144`).
* `hooktest_documented`: with a channel of the documented size, "at least 2"
  (`hook/hooktest/service.go:20`), an operation can block for ever: installing a
  command that ends at once sends three events, and stopping one with an error and
  removing it three, all while the test waits for the operation. With the error of a
  waiter and a `Stop` a channel of 4 can block, with the mutex held.

Others were met while modelling. They are in the modules and the properties leave
them out by name, or they follow by reading:

* A crash between truncating and writing a state file makes every later hook fail
  (`hook/state.go:45`): `Torn` and `LoadUnreadable` in HookMain.
* After a listener failed, `Set` of the same state finds nothing to do and reports
  success with nothing served (`server.go:217`).
* A hook killed after starting the service leaves it started and uncallable, as the
  record that it was installed is lost (`httpservice/service.go:270`, and the same
  in `concat/runhook.go`): `Disowned` in HTTPService and Concat.
* The wildcard functions of a hook without functions of its own do not run
  (`hook/main.go:92`), where `hook/registry.go:134` says they always do.
* A `Set` of the same state restarts a handler that has relations, since the mongodb
  setter closes a session it already has without comparing URLs
  (`mongodbrelation/requirer.go:112`, `httpservice/service.go:96`); it does so while
  the listeners are serving, though line 101 says that it should not set anything
  when it asks for a restart.
* With two fields the setter of the second is handed the first (`server.go:394`).
* A server killed while saving its state cannot start again (`server.go:441`; the
  comment at 150 promises to carry on). The model keeps this as `refused`.
* A crash after `close-port` and a configuration set back to the recorded port leave
  it closed (`httprelation/provider.go:141`): from 80 to 81, `close-port 80`, the
  crash, back to 80, and 80 is on record and closed once the hooks are done.
* A failing `config-get` of the certificate is taken for an invalid certificate: the
  HTTPS port keeps its value and the hook succeeds (`provider.go:90`).
* Without a certificate the HTTPS port is opened, recorded and reported all the same
  (`provider.go:124`; the comment at 83 says 0): `SettledIsRight` says nothing of it
  then, and `PublicHTTPSURL` gives a URL.
* `service.Start` with other arguments does not restart the service and keeps the
  old ones while a unit exists (`service/service.go:106` against 93-95), though it
  records the new ones: `FirstArgsKept` states what the code does; `StopAndRemove`
  after a start that failed leaves the unit (line 139 against 137); an upgrade does
  not restart the service (line 70 against `service_test.go:77`).
* A failing `resource-get` is taken for a missing resource (`resources.go:67`), and
  a resource set back to its old content after a failed installation is not
  installed again (line 103).

* concat's `finally` compares with the committed state only. A hook that told the
  server or a relation of a change and was broken off is not made good when the
  change is taken back before it is run again: they keep what they were told
  (`concat/runhook.go:154`, `strayed` in Concat).
* concat's serving goroutine reads `svc.listener` without the mutex
  (`concat/http.go:105`): it may serve another listener than its own, or none, which is
  a panic (`ServeNil`).
* A half-written `serverstate.json` ends every later start of concat's server.
* A command that fails while it is stopped has its error sent twice, once after its
  `Stop` or even after `Remove` (the waiter sends without the mutex).
* `service.Started` asserts that the service is the server's own type
  (`charmbits/service/service.go:131`) and so panics with hooktest's fake.
* `Running` and `IsNotInstalled` panic on a status that they do not know
  (`charmbits/service/implementation.go:93`).
* gocharm never copies the `README.md` of the package (`cmd/gocharm/main.go:24`), and
  removes one that is in the charm directory.
* A peer relation makes the inspect program assign to a nil map
  (`cmd/gocharm/inspect.go:106`): such a charm cannot be built.
* A run that is interrupted between removing and copying loses the revision number;
  one interrupted while it copies a yaml file leaves a file that every later run
  takes for the user's and refuses to replace.
* A yaml file that the user writes between the second look and the end of the
  replacement is removed or written over (`cmd/gocharm/main.go:171`).

## 5. The proofs

`tlapm` checks these for every value of the constants that satisfies the ASSUMEs.

| Module | Theorem | Property |
|---|---|---|
| HookMainProofs | `TypeCorrect`, `Durable`, `SavedPrefix`, `UnreadableKept`, `InOrder`, `Complete`, `ImplementsDurableStore` | `TypeOK`, `DurableUnlessFault`, `SavedIsPrefix`, `UnreadableIsKept`, `RunOrder`, `SuccessIsComplete`, `IsDurableStore` |
| HTTPProviderProofs | `TypeCorrect`, `PortsAccounted`, `Told`, `Right` | `TypeOK`, `RecordedPortsOpen`, `ToldIsRecorded`, `SettledIsRight` |
| CharmServiceProofs | `TypeCorrect`, `NeverOrphaned`, `RecordTrusted`, `RunsAsFirstAsked`, `UnitIsAccounted`, `RestartUpgrades` | `TypeOK`, `NoOrphan`, `RecordedIsInstalled`, `FirstArgsKept`, `UnitAccounted`, `RestartPicksUpUpgrade` |
| HTTPServiceProofs (server) | `TypeCorrect`, `Accounted`, `NothingStale`, `QuietIsServed`, `KeepsHandler`, `ImplementsServerFront` | `TypeOK`, `ResourcesAccounted`, `NothingStaleServed`, `QuietSetServes`, `UnchangedSetKeepsHandler`, `IsServerFront` |
| HTTPServiceProofs (hooks) | `ServiceTypeCorrect`, `UnwantedStaysDown`, `LastSetWanted`, `ServesWanted`, `HooksDriveServer`, `ServiceShowsFront` | `ServiceTypeOK`, `UnwantedIsDown`, `LastSetIsWanted`, `WantedIsServed`; the server's safety holds with the hooks, and so does `IsServerFront` |
| ResourceProofs | `TypeCorrect`, `NotTwice`, `SettledUpToDate` | `TypeOK`, `InstalledOnce`, `UpToDate` |
| HookTestProofs | `TypeCorrect`, `EventsAreTrue` | `TypeOK`, `EventsTellTheState` |
| GocharmProofs | `TypeCorrect`, `NamesSeparate`, `Delivered`, `KeepsUserFiles` | `TypeOK`, `SeparateNameSpaces`, `DeliveredIsThere`, `UserFilesKept` |
| ConcatProofs | `TypeCorrect`, `Agree`, `CommitsLast` | `TypeOK`, `SettledAgree`, `CommitIsLast` |

*HookMain.* `DurableUnlessFault` speaks of the end of a run, and is inductive only
with what holds in between: `DurableInv` says, phase by phase, that the states in
memory are those the run has to save, and that the files before the save index are
already equal to them. `PrefixInv` relates each file to what the run found, by the
position of the load or save loop; `KeptInv` says that every file the load loop has
passed was readable, so that a run that stops has touched nothing. `TypeCorrect` is
used by all three. `ImplementsDurableStore` maps each step to one of the abstract
store: `LoadNext` (the last file loaded opens the session, an earlier one is a
stutter), `QuietStutters` (setters and lookups) and `ExitCloses` (every way for a
process to end) are its lemmas, and it needs that the files passed by the load loop
are readable and were loaded as they are. `InOrder` needs that what was run is the
list of calls as far as the loop has come, and where in that list the hook's own
functions and the wildcards are (`CallListIndex`); `Complete` needs that a process
that got beyond a loop got to its end. Assumption: the constants' own (at least one
value, functions in the tables, the markers `Absent` and `Torn` are no values).

*HTTPProvider.* `TypeOK` is inductive as it stands. `RecordedPortsOpen` needs
`PortsInv`: a port is opened only when none is recorded for its protocol. The
theorem has the hypothesis `Disjoint` (the two options never name the same port),
and must: `httpprovider_swap` is its counterexample otherwise. `ToldIsRecorded` and
`SettledIsRight` speak of the time between hooks, and each rests on what a hook has
done so far. `ToldInv`: unless the config-changed hook is to be run again, the
values on disk and those told to every joined relation are the recorded port; a
joined hook changes nothing but its own relation, so that it may fail. `FollowInv`:
the recorded ports follow the configuration of the hook from `http` to `https`, and
that configuration is Juju's unless it changed meanwhile.

*CharmService.* `ServiceInv` is the conjunction of four. `TypeOK` alone is not
inductive: a process is launched with the arguments of the unit, which are arguments
only if there is a unit, which is what `UnitInv` says. `AskedInv` adds that the
arguments in the unit are those of the first that installed it, and that an
operation writes those that it stands for; `RecordInv` is stated for the record in
the hook and on disk. `AccountInv` is the converse: the record, and a start that
failed after the install, account for the unit everywhere in a hook but between an
install and its start, and the record on disk does so between hooks. `FreshInv`: a
Restart has stopped what ran, and before its start nothing else starts the service.

*HTTPServer.* Everything rests on `ResInv`: only the first field ever holds a
session, because every setter is given the first one, so that the account of the
sessions is 0 or 1; `srv.handler` is nil from the moment it is closed to the last
step of `set`; listeners belong to a handler. `TypeCorrect` needs it (a count of
open sessions is a number only if nothing is closed twice) and is proved with it.
`ServeInv` says step by step of `set` what the field holds and that a handler at
rest was started with `srv.state`. `NothingStale` has the hypothesis
`OneRelation`: with two fields the second setter closes what the first one dialled.
When the handler function fails the dialled session stays in the field, with which
the next `Set` starts it (`httpserver_relations`, section 4): what is
claimed of sessions is claimed otherwise, and `Unstranded` says that the step which
ends that state has closed the handler and emptied the struct.
`QuietIsServed` has the hypothesis `Believable`: with a relation the handler is built
anew by every `Set`, so that no warning means no failure; one without relations is
kept when nothing changed, and a port that could not be listened on is not tried or
warned of again, so there it is claimed for ports that can be listened on.
`KeepsHandler`, which no run checks, is about handlers without relations: with one,
every `Set` restarts.

`ImplementsServerFront` has no hypothesis: any number of relations, whatever fails.
The steps of `set` cannot be mapped one by one without knowing which state the
listeners are of, and `srv.state` alone does not tell: it changes only at the end
of a rebuild, or after a `Set` that kept the old listeners because nothing differed.
`FrontInv` says it: up to the closing of the old handler what listens fits
`srv.state`, and when `set` is through it fits the request, with which `srv.state`
then agrees (`NeedsRestart` is false) if anything listens. `WorkStep` maps the steps
inside `set`, `EndStep` those that answer, `ProcessStep` the rest; `SettledFront` is
that an answered call finds a front of its own. Since it needs safety alone,
`HooksDriveServer` carries it over to the composition: `ServiceShowsFront`.

*HTTPService.* `ServerStep` shows that every step of the composition is a step of
HTTPServer or leaves it alone, so that its invariants hold here too
(`HooksDriveServer`, for its part without fairness). `HookInv` is about the hooks
alone: a hook that did not end is the one to be run again, the last one saw what
there is now unless another is due, ports on disk follow the configuration unless
its hook has to run, and a hook ends well only after it has collected the relation
values. `CallInv` ties the two together: a hook that calls has something to serve,
and while it waits its connection waits for what it asked for. `DownInv`
(nothing wanted: the process is down and the service manager leaves it so) gives
`UnwantedIsDown`; `SetInv` gives `LastSetIsWanted`: from the answer on, unless the
Set of a killed hook is still to come, the file holds what was asked for, and so
does the process, also one that died and was started again. It needs `WorkInv`,
that the Set in progress is the one its connection waits for and that a file being
written is torn, since an answer without an error means that the write was done.
These hold for every value of the constants. `ServesWanted` puts `LastSetIsWanted`
and `QuietSetServes` together and has the hypothesis `Believable` of the latter.

*Resource.* `RecordInv` relates the record to what the installers were last called
with, for each resource already visited or not; `LoopInv` says the same of the
hook's loop, so that a hook that reports success has gone over all of them.

*HookTest.* `EventsTellTheState` follows from what each holder of the mutex is
about to send: `PartInv` says at which point of which part the pending events may
be what they are, `MutexInv` that at most one of the test and the goroutines is
inside and which, `LifeInv` that a command lives only if it is the current one or
the one being started, and `LogInv` what the log says in between, when events are
sent but `cmd` is not yet set.

*Gocharm.* Two names made by `Clone` are equal only if parent and own name are:
`LastDot`, by the last dot in the sequence, since a name itself has none. `NamesInv`
adds that a registry remembers the names of its clones, `StateInv` and
`CommandInv` that states and commands belong to registries. `Delivered` needs
`ReplaceInv`, which says how far the replacement of the charm directory has come:
what is still to be removed covers all that is visible and not protected, then an
entry is there exactly if it has been copied. `KeepsUserFiles` is an action
property: the entries removed are those that `canClean` found unprotected, and the
entries copied go where `ReplaceInv` says that there is none. Both say so but for
what the user has edited in between (`late`).

*Concat.* `TypeOK` is inductive as it stands. For `Agree` and `CommitsLast`,
`HookInv` says what a hook knows at each of its steps (it works out its state from
the one on disk, and what it has told is that), `RecInv` that the state on disk is
made of the recorded port, the word and the upstream units unless a hook is due,
`CallInv` where the one `Set` of the hook may be (waiting, in progress, answered)
and that once answered the server's file, state and listener are the wanted ones.
`AgreeInv` is `SettledAgree` extended to hooks that have not yet spoken to anyone,
which is what a failed hook leaves. Assumptions on the constants: a joined value is
never empty (`Unset`), since the code puts it in braces, and the markers of the
file are no states.

*Not proved, model-checked only.* Liveness under fairness (`HookEnds`,
`OperationsReturn`, `OnlyTheChannelBlocks`, `EventuallySettled`, `SetAnswered`,
`KillEnds`) and ENABLED are out of the prover's reach, and so is induction over data.
No module declares a RECURSIVE operator. `NothingStaleServed`, `QuietSetServes` and
`WantedIsServed` are proved for the handlers named above. All other
invariants that a run checks are proved without hypotheses but the constants' own
and, for `RecordedPortsOpen`, `Disjoint`.

## 6. Assumptions about the world

Juju runs one hook of a unit at a time and runs a failed one again first; hook
tools take effect atomically; a file write is a truncation followed by a write;
operations of the service manager are atomic and either do their work or fail
without effect; the hook sees one version of configuration and relations.

## 7. Not modelled

* Building a context from the environment, the typed configuration getters, the
  hook tools that only read (`hook/hook.go`, `hook/runner.go`): no state.
* HTTP itself, TLS and the RPC encoding; logging; the text of the files that
  gocharm generates, reduced to what it depends on.
* hooktest's runner (`hook/hooktest/hooktest.go`): its tools answer from tables
  that the test has filled, its `RunHook` is `Main` on states kept in memory.
* The example charms but concat: a few registrations, instances of HTTPService.
* The requirers' address lists: pure functions of the context, reduced to a value
  or none.
* `SetCharmInfo`, which keeps a text, and `RegisterAsset`, which panics.

## 8. Plan

Modelled: HookMain with DurableState, HTTPServer, HTTPProvider, CharmService,
Resource, HTTPService, Concat, HookTest, Registry and Gocharm.

Two abstract specifications are implemented: DurableState by HookMain, ServerFront
by HTTPServer and by HTTPService. Every safety property that a passing run checks
has a theorem, some with the hypotheses named in section 5. What stays with TLC is
liveness. What could still be added is an abstract specification of the service
manager that the `os` steps of CharmService, `mgr` and `life` of HTTPService and
the fake of HookTest have in common, and a relation type with a setter other than
mongodbrelation's.

The number of runs stays small: new properties join the run of their component.
