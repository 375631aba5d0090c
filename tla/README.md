# TLA+ verification of taskcloud_core

taskcloud_core is a C++ service that runs scripts (Lua, Python, JavaScript) for
clients that connect over TCP (`core`), and a command-line program that runs one
script (`local`). This directory holds TLA+ models of its concurrent parts, TLC
configurations that check them on small instances, and TLAPS proofs for all
instances. Paths below are relative to the repository's root.

## 1. Inventory

| Part | Source | State | Operations |
|---|---|---|---|
| Thread pool | `modules/ThreadPool.h` | deque `m_tasks`, flag `m_started`, `m_takeMutex`, `m_takeCondition`, `m_workers` | `addRunable`, the worker loop, `~ThreadPool` |
| Network service | `src/common/NetworkService.cc` | client table `m_clientInfos`, handlers | events of yasio, `dataHandler`, `backward` |
| Task service (core) | `src/core/service.cc`, `src/core/main.cc` | registry `taskRunInfo`, a promise per run, a VM and a `TaskRunInfo` per runner | handlers of `run`, `stop`, `status`; `Service::run`, `status`; the runners `lua`, `python`, `javascript` |
| Program `local` | `src/local/*.cc` | the same registry, one run | argument parsing, `run`, `join`, exit |
| Start and end | `src/core/main.cc`, `includes/global.h` | the statics `g_threadPool` and `g_service` | static construction, the `exit` command, static destruction |
| Script modules | `ModuleJson`, `ModuleRequests`, `ModuleCrypto`, `ModuelTools`, `ModuleSystem`, `common` (`src/common/`) | none that is shared | functions the scripts call |

How they interact:

* yasio's one thread handles all events of connections. A packet of a client
  that has handshaked is handed to `g_threadPool` as a call of `dataHandler`.
* `dataHandler` runs on a worker and calls the handler of the command. The
  handler of `run` calls `Service::run`, which hands a runner to *the same pool*
  with a pointer to a promise in its own frame, and blocks its worker until the
  promise is set.
* The runner creates a VM, enters its `TaskRunInfo` (a local variable) in the
  registry under the VM's address, sets the promise, runs the script, sends the
  result packet, closes the VM, and erases the entry.
* Replies, logs and results go through `backward`, from any worker. Nothing
  guards `m_clientInfos` or `taskRunInfo`.
* `local` calls `Service::run` from `main()`, polls the registry until it is
  empty and returns. The destructor of `g_threadPool` follows.

What is hard in it: wakeups sent without the mutex, the destructor that takes
no mutex at all, handlers that block the pool they need, pointers into frames of
other threads, addresses used as keys and reused before the key is erased,
`contains` followed by `operator[]` on unlocked maps, a Python interpreter that
all runs share, connections that close between any two steps. `PROJECT.json`
lists these hazards one by one with their lines and the properties about them.

What makes each part correct:

* thread pool: every callable starts once, in order; none is forgotten while
  workers sleep; after shutdown no worker waits for ever;
* task service: no pointer is used after its frame is gone, the registry tells
  the truth, every run and every query is answered;
* network service: only clients that have shown the key are served; a packet
  reaches its client and nobody else;
* runners: methods are called in order, and the reported result means something;
* `local`: the script runs to its end and then the process ends.

## 2. Modules

| Module | Models | Composes |
|---|---|---|
| `WorkQueue` | what the pool promises: a FIFO queue, one start per callable, at most one more per worker after closing | |
| `ThreadPool` | `modules/ThreadPool.h` step by step | `WQ == INSTANCE WorkQueue`: refinement |
| `TaskService` | run and status handlers, `Service::run`, `Service::status`, runners, registry | `Pool == INSTANCE WorkQueue`, `Contract == INSTANCE RunContract`: refinement |
| `NetworkService` | `NetworkService.cc` | `Pool == INSTANCE WorkQueue` |
| `RunContract` | what clients are promised of a run: one reply, at most one result, the same id in both, and no id told twice while its run is pending | |
| `ServiceLifetime` | the statics of `core` from construction to destruction, with `main()`, the network thread, handlers and runners | `Pool == INSTANCE WorkQueue` |
| `ScriptCalls` | what a runner does with its script: load, split, calls, result | |
| `LocalProgram` | `local` from `Service::run` to the end of the process | `Pool == INSTANCE ThreadPool`, one callable |
| `JsonReader` | `json.loads`: parser events to script values | |
| `JsonWriter` | `json.dumps` and the writers of `common.cc`, Lua and Python | |
| `HttpRequest` | `requests.get`, `post`, `put`, `delete`: the bindings, the headers sent, the callbacks | |
| `ScriptLogger` | the bindings of the logger, and what `core` does with a message's task | |
| `UrlCodec` | `urlEncode`, `urlDecode` | |
| `ThreadPoolProofs`, `TaskServiceProofs`, `NetworkServiceProofs`, `ServiceLifetimeProofs`, `ScriptCallsProofs`, `JsonReaderProofs` | theorems about the module of that name | |
| `LocalProgramProofs` | theorems about `LocalProgram` | `PoolProofs == INSTANCE ThreadPoolProofs`, one callable |
| `ScriptModulesProofs` | theorems about `UrlCodec`, `HttpRequest`, `JsonWriter` and `ScriptLogger` | |
| `MC*` | constants, bounds and symmetry for TLC; `MCScriptFunctions` joins `UrlCodec`, `JsonWriter` and `ScriptLogger`: a script calls one function | |

The layering is deliberate. `ThreadPool` is proved to implement `WorkQueue`, so
the services, which have long stories of their own, are composed with the small
queue. `LocalProgram` is about the destructor racing with a worker's loop and
has to be composed with the detailed pool.

Definitions whose comment starts with "Mutant:" are not part of a model. Each is
an action as a plausible bug would make it; putting it in place of the definition
that follows it must break the property `PROJECT.json` names.

### ThreadPool

One worker's loop is `Test` (line 24), `Peek` (28-29), `Lock` (31), then `Take`
(34-35) or `FindEmpty` and `Sleep` (32-33), and `Finish` (38-39). `wait` evaluates
the predicate with the mutex held and only then sleeps; these are two steps, since
`addRunable`'s notification cannot come between them (it needs the mutex first)
but the destructor's can. `addRunable` is `AddRunable` (84-89) and `NotifyTaken`
(90). The destructor is `DtorStop`, `DtorSize`, `DtorFill` (once per turn of its
loop), `DtorNotifyAll`, `DtorJoin`. `SpuriousWakeup` is what the standard allows.
`Peek` reads the deque in a race: it may miss an entry that is there.

Memory is sequentially consistent, and an unlocked `push` on the deque is one
step: what a torn `std::deque` does is outside the model. `addRunableNoWrap` has
the same two steps as `addRunable` and no caller. A callable is executed between
`Take` and `Finish`; an exception ends in its `packaged_task`.

### TaskService

Each packet is a job of the pool, and so is each runner. `ReceiveRun` and
`ReceiveStatus` are `addRunable(dataHandler)`. A run goes `StartHandler`,
`SubmitRunner` (or `SkipRunner`: the switch has no default), `GetRunnerId`,
`ReplyRun`; its runner goes `StartRunner`, `CreateVm` (or `FailVm` and `Refuse`),
`Emplace`, `NotifyRunnerId`, `Load` (or `LoadFails`), `ScriptEnds`, and the finally
block in its order: `FinishStatus`, `Report`, `CloseVm`, `Erase`. The three
languages take the same steps, so an action is mapped to the lines of one of
them; they differ in the address: Lua and JavaScript get one that no *open* VM
has, all Python runs share that of `__main__`. A status query is `FindNone` or
`FindEntry` (`contains`), `IndexEntry` or `IndexNull` (`operator[]`), `ReadStatus`.

Undefined behaviour is a choice: reading the status in a frame that is gone gives
any status; two Python runners at once, or one in an interpreter another has
finalized, may end the process (`PythonCrash`) or not; reading through the null
pointer that `operator[]` inserted ends it (`IndexNull`). A script that runs can end the process by
itself (`ScriptCrash`): by `os.exit`, by an error of `lua_getglobal` where no protected
call is around, by a message for a task that is null, and when its VM is closed by what
it has left behind. `crashed` keeps which of the three it was. One operation on the
registry is one step: what a data race does to the buckets of an `unordered_map`
is outside the model.

The interpreter that all Python runs share is `interp`: closed, open, or bound
(initialized, and with the modules of a run in `__main__`). A second run that
binds its modules while it is bound is refused by the logger's `__logger_options`,
which is there already; the exception ends the runner by its finally block before
`set_value`, so that its handler waits for ever (`BindFails`).

`RunContract` sees of all this the packets: a run accepted, its reply with the
runner's id or 0, its result with the id. `Accepted`, `RepliedId` and `ResultId`
are the mapping. Its only hard part is that ids are addresses: a VM's address is
free when the VM is closed, which is after its result has been sent.

### ServiceLifetime

`Construct`, `AddEventHandler`, `Exit`, `Destroy`, `ClosePool`, `PadPool` and
`JoinPool` are the main thread. `order` is the order in which the statics of three
files are constructed, any that keeps the order within `core/service.cc`. `Receive`
is the network thread, which runs from the construction of `g_service` on;
`StartHandler` to `ReplyRun` are a worker in `dataHandler` and a handler, `StartRunner`
to `RunnerReturns` a worker in a runner. Each step says which statics it uses; one
that uses a static outside of its lifetime is undefined behaviour (`Misuse`) and ends
the story. The pool is `WorkQueue`; what that does not show, a worker that misses the
destructor's notification (`local_program_exit`), is the action `Oversleep`. A handler of
a run may wait for a runner that never was (`SkipRunner`, an unknown language) or that
went without setting the promise (`BindFails`); a runner without a VM refuses (`Refuse`),
and a packet cut short is done with at once (`HandleOther`). The scripts come to an end.

### NetworkService

`Open`, `Close` and `Packet` are yasio's thread. `Start` to `Return` are
`dataHandler` on a worker; `SetHandshaked` and `SetTransportHandle` are lines 91
and 92, two operations on the map with room for a close in between; `Contains`
and `Permit` are the two operands of line 106; `FindClient`, `IndexClient`,
`ReadHandshaked` and `WriteBack` are `backward`. `operator[]` inserts
`{false, nullptr}` when the entry is missing. yasio is external, and modelled from
its use: connection ids are never reused, transport objects are as soon as the
connection is closed, a write reaches the connection that has the object now. A
reference `backward` holds dangles when the entry is erased and then reads
anything. A handshake may have the key, a wrong one, or one that is cut short:
`isNormalPacket` does not look at it, `read_v32` throws, and the job ends without an
answer (`StepOf`). A command's handler calls `backward` once, at any later time, or
never, or throws (`HandlerGoesOn`, without fairness); the log and result packets of its runner are further calls of that kind. The callbacks of
lines 110-119 have no user, so the map they erase from is always empty.

A client is `Patient` if it waits for the answer to a handshake before it sends
anything else. The service does not ask for it; the properties say what the
others risk.

### ScriptCalls

The text of `callMethods` is a sequence of names and commas, `stringSplitAscii` a
recursive function on positions. `CallLua`, `CallJavaScript` and `CallPython` are
one turn of each language's loop, with the outcome of the call chosen freely. A
Python method's value goes through `pybind11::cast<bool>` (external), which takes
the truth of some values and raises for others.

### LocalProgram

`main()` is `Quit` (any `exit()` before the run) or `Submit`, `Notify`,
`GetRunnerId`, `Join`, then static destruction: `Destroy` and `End`. `Loop(w)` is a
worker outside the callable; `Register` to `Unregister` are the runner.

### JsonReader

rapidjson is external: `doc`, `open` and `pending` are its view of the text, which
is any text of a few values, broken off by `ParseError` at any event. `Key`,
`beginNode`, `endNode` and `endRoot` (the early `break`s), `value` and `valueAlone`
are the handlers; `readers` and `infos` are the two stacks. A value is the number
of its event. What a node holds is a function, from keys or from indices; the
binding libraries are modelled by what an assignment does: Lua's nil removes, a
Python list takes an item only where it has one, a JavaScript object counts what
it has appended. A null assigned to an element of a Lua table is nil or a value of
its own (LuaBridge): both are allowed. Types of scalars are left out.

### JsonWriter

A value is a sequence of nodes, the first of which is dumped and the members of each
come behind it; scalars are kinds. A text is a sequence of tokens; `raise` among
them is an error. `luaTableToJson`, `pythonDictToJson` and `pythonListToJson` write a node, given
the texts of those behind it; `LuaText` and `PythonText` are the recursion of the code as
functions on the nodes; `dumps` is the function the scripts call, with what it does
to values that are no table, dict or list, and `Dump` the call; `ListSeparator` is the
comma that the Python list never gets.
`Json` is the reference, JSON as RFC 8259 has it, and `PlainNode` says of which nodes the
two agree. An int that no C `long` holds and a text that has no UTF-8 (`unfit`) leave an
error behind in Python, which the script meets; in Lua every number is a double, and one
beyond the ints differs from whatever the cast of line 62 makes of it, so it is written with
six digits. A Lua table's members come in any order and its length may be any border.
Left out: values that contain themselves (the code does not end), and a Lua table
with a number and the text of that number as keys (writing it may send `lua_next` on
from the wrong one).

### HttpRequest

`LuaCall`, `PythonCall` and `JavaScriptCall` are the bindings with the checks of their
parameters; `Sent` are the header lines of `request()` and the one libcurl adds.
libcurl is external: it delivers any responses that may precede the final one
(`Respond`), their header lines (`ReceiveHeader`, the callback of lines 68-95) and a
body, and may fail at any time (`PerformReturn`). A header line is its number, so that the
properties can tell from which response a value is. Status and empty lines
are those the callback skips. Parameters that should be texts are texts.

### ScriptLogger

`LogCalls` are the ways a script can call a function of the logger: where it is or from
a variable or a table, under a name of its own or handed to a function that calls it,
with a table of its own called logger or not, and, in Lua, whether the call is the last act
of a function: LuaJIT makes a tail call of `return logger.info(...)`, and `lua_getinfo` finds
the name of the enclosing function (`NameFound`). `Level` and `Options` are what the three
bindings find out about the level and the task, `LogSteps` the order in which they may
fail, `LogOutcome` the first failure, and `Log` the call. The functions keep no state, so
one call shows what they do.

### UrlCodec

Bytes are numbers, texts sequences of them. `Encode` is one turn of `urlEncode`'s
loop, `Encoded` what it writes; `urlDecode` has one action per branch of its loop,
because it advances its iterator inside. `HexDigit`
and `HexValue` are the arithmetic of the code. `Overrun` is undefined behaviour
and ends the story.

## 3. Runs

| Run | Instance | Checks |
|---|---|---|
| `thread_pool` | 3 workers, 2 tasks, 341 000 states | `TypeOK`, `MutexHeld`, `NoLostWakeup`, `RunOnce`, `EnoughFill`, `ImplementsWorkQueue`, `TasksServed` |
| `task_service` | 3 workers, 3 runs, 1 query, 2 addresses, Lua, Python and an unknown language, 455 000 states up to symmetry | `TypeOK`, `RegistryPointsToLive`, `RegisteredUnlessReused`, `PromiseAlive`, `WaitHasProducer`, `CrashNeedsRace`, `ImplementsContract` |
| `task_service_live` | 3 workers, 2 runs, 1 query, 1 address, the same languages, 359 000 states | `RunAnswered`, `StatusAnswered` |
| `network_service` | 2 workers, 2 connections with 2 and 3 packets, 2 transport objects, 3.7 million states up to symmetry | `TypeOK`, `OnlyHandshaked`, `EntryLeadsHome`, `Confidential`, `PatientAnswered` |
| `network_service_live` | the same with 1 and 2 packets, 231 000 states | `HandshakeAnswered` |
| `script_calls` | texts up to length 4 over two names and the comma, 106 000 states | `SplitUndone`, `SuccessExplained`, `JobsExecuted` |
| `local_program` | 3 workers, 24 000 states | `ScriptNotAbandoned`, `EndsAfterScript`, `MainReturns` |
| `json_reader` | texts of up to 5 values, two names, 752 000 states | `StacksFollow`, `ReturnsRoot`, `NodesRight` |
| `script_functions` | URL codec: all single bytes, encoded texts up to length 3 over nine bytes, other texts up to length 4 over seven; `json.dumps`: nodes of up to two members, nested once, 17 000 values; logger: all ways to call it; 70 000 states | `RoundTrip`, `OverrunOnlyCut`, `DumpsExact`, `LoggedRight` |
| `service_lifetime` | 2 workers, 3 packets, all 6 orders of construction, 295 000 states | `LifetimeByOrder`, `ExitEnds` |
| `http_request` | all calls with three header names, answers of up to three responses and two header lines, 1.8 million states | `RequestTyped`, `AnswerMerged` |
| `local_program_exit` | 2 workers | `LocalExits`, which is violated |

Why the bounds are enough: three workers allow one to sleep, one to hold the
mutex and one to run, with the destructor against all of them. With three runs an
address is used, used again before the first user has erased its entry, and used
by a third; three workers are also fewer than the six jobs of three runs, so the
run has the states in which every worker is blocked. Two connections and two
transport objects allow an object to be passed on while the old owner's replies
are still on their way; three packets allow a handshake, a command, and a second
handshake that is executed after the close. (With three packets on both
connections the same properties held, before keys that are cut short were added.) Texts of length 4 have
empty pieces at both ends and in the middle. Five values allow an array that mixes
scalars and nodes inside an object, and three levels with a member after the
innermost. The encoder treats every byte alone, and an escape has three bytes, so
texts of four have one at every place, cut off or not. Three packets allow a handshake,
a run and another command; two workers allow a run handler to hold one while a script
holds the other, or both to be held by handlers. Three responses are a proxy's, a
redirection and the final one; what `emplace` and the join of cookies do with a line
depends only on whether the name was there before, so two lines show both cases (with
three, 14 million states, the same properties held). Two members show separators, keys
and mixtures of array and object; a node in a node shows that the writers recur.

Deadlock is not checked, because all these systems may stop: clients need not send
anything, the pool is destroyed, `local` ends.

What the runs show:

* **The pool is right while it is in use** and loses no wakeup, although the
  notification is outside the mutex; the extra notification of line 29 is not
  needed for it. The destructor appends enough callables, although it reads the
  size in a race.
* **The destructor can hang** (`local_program_exit`). It notifies without the
  mutex: a worker that has found the deque empty and has not begun to wait
  sleeps after `notify_all` and no other notification is to come. `local` then
  does not end, though its script has; `tests/start.lua` starts the next test only
  when `local` has returned.
* **A run is answered if there are more workers than runs**, and one more for each Python
  run whose binding failed, unless it is a Python run that meets another or the process
  has died. Each run can hold two workers, its handler only until its
  runner has created its VM. When all workers are held by handlers that wait, no
  runner starts; the pool has `hardware_concurrency() + 3` workers and no limit on
  accepted runs. An unknown language byte holds a worker for ever, and so does a
  Python run whose modules are refused because another run's are still bound
  (`WaitHasProducer` and `RunAnswered` name both premises). **A query is answered unless
  all workers are held for ever**, by handlers that wait and by scripts.
* **Clients can rely on the contract of a run** although reply and result come in any
  order and ids are reused addresses: both carry the same id, and an id is not told to
  a second client while the result of the first is to come. The VM all Python
  runs share is the exception, as `RunContract` says.
* **Which order the build has chosen decides how the service can fail at its ends.**
  A service constructed before the pool may use it too early; in the other order
  scripts that still run at exit use a service, a registry and a logger that are gone.
  Every order has one or the other; what is constructed before the pool is safe at the
  end, as `join()` waits for the scripts. After `exit` the process ends, if its scripts do,
  unless a run handler waits for nobody or a worker has missed the pool's last
  notification; either may happen. A handler waits for nobody if its runner was still
  queued when the pool was closed, if its language is unknown, or if its Python binding
  has failed.
* **The registry never dangles but may hide a run**: when an address is reused
  before the entry of its former user is erased, the new run may be missing from
  the registry, and `status` answers `none` for it.
* **One script can end the service for all**, at any time it runs (`ScriptCrash`). Apart
  from that the process dies only by a race: a query between the two look-ups of `status`,
  or Python runs that share the interpreter (`CrashNeedsRace`).
* **Reported success means less for Lua and JavaScript than for Python**: a run
  whose second method fails is reported with the value of its first.
* **Packets go astray only after a close**: an entry can come back for a client
  that is gone, with a handle that another connection now owns. For a connected
  client the only gap is between lines 91 and 92, and a client that waits for its
  answer never meets it.
* **A handshake with a whole key is answered** unless the client leaves or the handlers of
  commands hold all workers for ever; one whose key is cut short is not.

* **`json.loads` never loses its place, but not every array survives.** The two
  stacks stay in step with the parser. Arrays of nodes, or of scalars in Lua and
  JavaScript, keep their elements in order; in JavaScript the first index of nodes
  is 0 and that of scalars 1, so in a mixed array they may overwrite each other;
  in Python an array that begins with a scalar raises. A text that breaks
  off gives its innermost open node, and no error.
* **`json.dumps` is exact for plain values only** (`DumpsExact` says which): a
  Python list of two items has no commas and its texts no quotes, booleans of Python
  become numbers, ints beyond `long` raise, doubles lose digits, nothing is escaped, and a Lua table that is neither a
  sequence nor keyed by texts raises or comes out as an array or a fragment.
* **A request's body is announced correctly**, for a form only because libcurl adds
  what the misspelt default lacks; under another spelling of Content-Type by the
  script two types go out. **All cookies are kept, in order; of other headers the first
  response's value wins**, so that after a redirection a script sees headers of
  one response with code and content of another.
* **A logged message has the level of the function, in Lua that of the name found at
  the call.** That is the function's own for `logger.info(...)` as a statement, but for
  `return logger.info(...)` it is the name of the enclosing function, so that the script
  gets an error or another level. A Lua function called from C or by an index has no name,
  and a null pointer is compared, which ends the process; where the script has put something else in the place of the
  logger, `core` uses address 0 as a task's. Python raises instead.
* **The URL codec loses nothing it has encoded**, and reads behind the end only of a
  text that ends inside an escape.

## 4. Fairness

Every thread that can take a step takes one in the end (weak fairness of each
worker, caller, destructor, handler and runner). The mutex is not fair. Nobody is
assumed to send packets, to start the destructor or to wake a worker without a
notification. In `TaskService` a script need not end, nor the loading of one
(`Scripting` is outside of the fair `Launching`), also with Python in the live run; in
`LocalProgram` and `ServiceLifetime` it does, and in the latter nobody has to type
`exit`. Closing a VM may execute what the script left behind, and need not end, either.
In `NetworkService` the handlers of commands need not return (`HandlerGoesOn`). In
`ServiceLifetime` a worker that has missed the notification need not do anything more.

## 5. Proofs

The proofs hold for every value of the constants that meets the named
assumptions: workers are a finite non-empty set, markers such as `NoTask` differ
from what they mark.

`ThreadPoolProofs`: `TypeCorrect`, `MutualExclusion`, `EachTaskRunsOnce`,
`WakeupsSuffice`, `FillSuffices` and `Refinement`, each `Spec => []P`, the last
`Spec => WQ!Spec`. None of the invariants but `MutexHeld` is inductive alone.
`RunOnce` rests on `OnceInv`: a task is on the deque once
at most, and only after its `addRunable` call has put it there. `NoLostWakeup`
rests on `WakeupInv`: while the pool is in use, a worker about to sleep has seen an
empty deque and still holds the mutex, so nothing is appended behind its back, and
the length of the deque is at most the number of workers on their way to it plus
the notifications still to come. The first half is what fails in the destructor,
which appends without the mutex. `EnoughFill` rests on `FillInv`: during the
destructor's loop, `fill + |Takers| <= Len(m_tasks) + |Workers|`, where `Takers` are
the workers that will take one more callable: a worker that takes one is a taker no
more. `Refinement` needs the conjunct of `TypeOK` that ties `task` to `pc`: a worker
holds a callable exactly while it executes one.

`TaskServiceProofs`: `TypeCorrect`, `PromiseOutlives`, `RegistryNeverDangles`,
`RegisteredWhileOpen`, `WaitedForRunnerExists`, `LonePythonOpen`,
`ServiceDiesByRace`, `Refinement` (`Spec => Contract!Spec`) and `UsesQueue`
(`Spec => Pool!Spec`: every step is one of the queue or leaves it alone, what is handed
over stays so, and nothing is handed over twice). `PromiseInv` adds to `PromiseAlive`
that a run has no runner before its handler has submitted it. `RegistryInv` joins the
two invariants of the registry with `IdOwned` (a runner has an id from the creation of
its VM on) and `NoNullEntry` (no entry is null while the process lives). `ProducerInv`
ties each queued runner to its place in the queue and each started one to a worker.
`RaceInv` ties a query between its two look-ups to an entry or to the run that had it,
and a Python runner in an interpreter that is closed to a second Python run.
`ContractInv`, for `Refinement`, says that a run that has been replied to and not
reported has a runner whose VM is open and whose id is the one in the reply: ids of open
VMs differ, so a second reply with that id is impossible but for the shared one.

`NetworkServiceProofs`: `TypeCorrect`, `HandshakedOnly`, `EntriesLeadHome`,
`NoPacketStrays`, `PatientServed`, `UsesQueue`. The invariants of the runs hold together or not
at all, so `NetInv` contains them. `JobInv` says for each step of a packet's handler
what it has seen; `TransportInv` that open connections have different transport
objects; `EntryInv` that an entry is created by a handshake of its own client, and
since a connection never opens twice, that an erased entry means a closed one;
`FoundInv` that an entry `contains` has found is still there while the client is
connected, so that a reference dangles only after a close. For `PatientServed`,
`PatientInv`: a patient client's first command is accepted only when its entry has the
flag and its own handle.

`ServiceLifetimeProofs`: `FaultByOrder` and `UsesQueue`. A job that has begun is in a
worker's hand, and a runner that has not set its promise is waited for (`HandInv`), so
the pool is alive (`PoolInv`), and what is alive
precedes in the order of construction what is not (`AliveFirst`): whoever uses a static
outside of its lifetime is named by `LifetimeByOrder`.

`LocalProgramProofs`: `UsesPool`, `NotAbandoned`, `EndsAfter`. The pool of `local` is
an instance of the one `ThreadPoolProofs` reasons about, so `OnceInv` carries over;
`ProgramInv` adds how far `main()`, the callable and the registry can be apart.
What decides is `RegistryInv`: when `main()` leaves its loop the callable has closed its
VM, although it has not returned.

`ScriptCallsProofs`: `SplitRight`, `SuccessTrue`, `JobsDone`. The split is a recursive
function on positions; that its pieces joined by commas are the text is shown by
the least position at which it would not be (`LeastNumber`). `ResultInv`
says what the local variable `result` tells of the outcomes at any time, `JobsInv` when
JavaScript jobs can be left.

`JsonReaderProofs`: `StacksInStep`, `RootReturned`, `NodesAsText`, for texts of any
size. `OpenInv` is what the parser guarantees: the open nodes lie in each other, and
each is the last member so far of the one around it. A node is entered into the one around it when
it ends, a scalar when it is read; an open node is therefore not yet `Settled` as a
member, and `NodeHolds` says of every node, open or not, that it holds its settled
members. `CountersHold` adds what the two counters of an array say while it holds
nodes only, or scalars only. What an array that mixes them holds is not stated.

`ScriptModulesProofs`: `DecodingInverts`, `OverrunsExplained`, `RequestsTyped`,
`AnswersMerged`, `DumpsWriteJson`, `LoggerRight`. `Starts` places each byte of a text in what is encoded, and the
decoder's iterator is always at such a place (`DecodeInv`). `SentTyped` is a lemma
about the operator `Sent`. `HeadersOf` is what `AnswerMerged` says of the headers
at any time, and that each line without a cookie has an entry under its name: only
then is an entry that is made now that of the first line.

`DumpsWriteJson` is about values of any size and depth. `TextsExist` shows that the texts
exist, each defined by those of the nodes behind, and what holds of a node whenever it
holds of all nodes behind it holds of all (`Downward`). That plain values are
written right (`LuaPlain`, `PythonPlain`) needs no more. For the converse it is not
enough that one node is written wrong: what is around it could make up for it.
`Measure` counts the braces, commas and quotes of a text. What is written for a node
never has more of them than its JSON, unless it raises or the JSON has a token that
is never written (`Near`). A node that is not plain has fewer (`Less`), nothing
written around it gives them back (`NearConcat`), and so the whole value differs
from its JSON (`LessAtRoot`). `LoggerRight` follows from which step of the binding is
the first that fails (`FirstFailure`) and from which name the Lua binding finds.

The assumptions are those the constants are declared with: of `local`, that its workers are a
finite non-empty set and that the empty callable is not the runner; of the network
service, that a handle and an entry differ from their absence; of the texts of
the URL codec, that they are sequences of bytes; of the values that are dumped,
that they are trees of nodes (`IsValue`), and of their keys, that numbers, names and
booleans differ from each other and from the tokens. The external parts (the parser, libcurl,
yasio, the bindings) are assumed to do what their models do.

Only model-checked: liveness (`TasksServed`, `RunAnswered`, `StatusAnswered`,
`HandshakeAnswered`, `MainReturns`, `ExitEnds`) and `LocalExits`, since
liveness under fairness is beyond the prover. Every other property of the runs is a
theorem.

## 6. What is not modelled

`Service::stop` (returns false and changes nothing), formats of packets and the
layout of logs, the VMs, TLS and the transfer itself, cryptography (wrappers of a
library without state), `system.delay` (a sleep), the command line of `local`, the
conversions of tables to maps of texts, the templates that bind C++ functions to
QuickJS. The time a request takes is left out: a server that never answers is a
script that does not end. In `LocalProgram` a script that ends the process itself, by
`os.exit` or a crash, is left out: `main()` then ends with it. Weak memory and the damage a data race does inside a
standard container are outside all models.

## 7. Plan

1. Done: the modules, runs and theorems above.
2. What `json.loads` makes of arrays that mix nodes and scalars, once it is stated.
3. Pure parts with reference definitions: the command line of `local`.
