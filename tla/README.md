# A verification development for the BrowserPlus Ruby interpreter service

`bp-ruby` is a BrowserPlus service that lets other services be written in Ruby. It
embeds a Ruby interpreter, runs it on a thread of its own, and passes the host's
calls (load, allocate, invoke, destroy) to that thread. This directory holds TLA+
models of it, the TLC runs that check them on small instances, and theorems about
them that TLAPS checks for every instance.

Paths in this file are relative to `src/src/` unless they say otherwise.

## 1. The system

### Components

| Component | Source | State it keeps | Operations |
|---|---|---|---|
| Service entry points | `service.cpp` | `g_bpCoreFunctions`, `s_desc` | `BPPInitialize`, `BPPShutdown`, `BPPAllocate`, `BPPDestroy`, `BPPInvoke` |
| Interpreter thread and work queue | `RubyInterpreter.cpp`, `RubyWork.*` | `s_running`, `s_rubyLock`, `s_rubyCond`, `s_workQueue`; in each `Work` `m_syncLock`, `m_syncCond`, `m_done` and the results | `initialize`, `shutdown`, `runWorkSync`, `runWorkASync`, `rubyThreadFunc` |
| Service instances and their roots | `RubyInterpreter.cpp:126-230`, `RubyUtils.*` | `gcArray`, the instances themselves | the four cases of a `Work`; `Register`, `Unregister`; `invokeFunction`, `getLastError` |
| Transactions, callbacks, prompts | `BuiltIns.cpp` | `s_lock`, `s_outstandingPrompts`, `initd` | `complete`, `error`, `prompt`, `dummyCB`, `BPCallback#invoke`, `bp_load_builtins` |
| Data mapping | `DataMapping.cpp` | none | `rubyToBPObject`, `bpObjectToRuby` |
| Service definition | `Definition.cpp`, `ruby/browserplus.rb` | `@bp_doc`, `@bp_version`, `$BrowserPlusEntryPointClass` | `bp_doc`, `to_service_description`, `extractDefinition` |
| Mutexes and conditions | `util/bpsync*` | the primitive's own; on Windows a waiter count and two events | `lock`, `unlock`, `wait`, `timeWait`, `signal`, `broadcast` |
| Threads | `util/bpthread*` | the thread handle | `run`, `join`, `detach` |
| Files and text | `util/fileutils*`, `util/widetoutf8*` | none | `readFile`, `dirname`, `toUTF8`, `fromUTF8` |

### How they interact

The host calls the entry points on its own threads. `BPPInitialize` starts the
interpreter thread (`initialize`, which waits on `s_rubyCond` for `s_running`) and
then has it load the service. Loading, allocating and destroying are synchronous
(`runWorkSync`): the caller puts a `Work` that lives in its own frame into
`s_workQueue`, makes a mutex and a condition for it, and sleeps until `m_done`.
Invoking is asynchronous (`runWorkASync`): the `Work` is on the heap, and the
interpreter thread deletes it. The thread tells the two apart by whether
`m_syncLock` is null. It polls the queue, sleeping inside Ruby for 50 ms when the
queue is empty, until `s_running` is false. A Ruby method gets a `BPTransaction`
and calls the host back through `g_bpCoreFunctions` (`postResults`, `postError`,
`prompt`, `invoke`); the answer to a prompt comes in on a host thread
(`dummyCB`). `BPPShutdown` clears `s_running`, joins the thread, and finalizes Ruby.

### What is hard about it

* Ownership by convention: a `Work` on a stack outlives its call only because the
  caller waits, one on the heap is deleted by whoever finds no `m_syncLock`, and
  `runWorkSync` sets `m_syncLock` after it has queued the work.
* A reply that may come before its caller waits, spurious wake-ups, and loops that
  wait before they test.
* `s_running` read without its lock; an `unlock` by a thread that does not hold the
  mutex; a start that can fail and cannot say so; a second start in one process.
* Shutdown with work in the queue, and shutdown that overlaps calls.
* One thread object whose handle is overwritten by every start and used up by a join.
* Answers that come late, twice, or while another method runs; definitions the host
  reads through pointers that only a leak keeps valid.
* Garbage-collection roots kept in an array from which `==` removes, and in a map
  whose slots are erased while registered.
* Conversions that are not inverses: negative and large integers, symbols, paths.

`PROJECT.json` lists each of these under `hazards`, at its line.

### What makes each component correct

* *Interpreter*: no dangling `Work`; the wake-up of a synchronous call is not lost;
  one user of the queue at a time; initialize returns after the boot and shutdown
  after the thread's end, and joins every thread once; works are served once, in order,
  before the synchronous call returns; a caller that waits has its work in the queue or in
  the hands of a thread that goes on, until the host shuts down; every call returns.
* *Instances*: a live instance is rooted from allocate to destroy, and no root is left
  over; methods see only live instances.
* *Transactions*: a callback reaches the host with the transaction it came with; a prompt
  is in the map until its answer, and its block is rooted as long. That a service answers
  an invocation once is left to the service: the code does not count.
* *Data mapping*: a value that goes from the host into Ruby and back is the same, or
  null where the conversion has no case for it (callbacks, negative and too big numbers);
  a path arrives as one of the same file, resolved.
* *Definition*: what a service documents is what the host is told, one function for each
  key that it gave to `bp_doc`, or an error; what the host was told it can read until the
  shutdown.
* *Conditions*: a signal wakes a waiter, a broadcast all of them; no wake-up is lost.

## 2. The modules

| Module | Models | EXTENDS / INSTANCE |
|---|---|---|
| `BpSync` | mutex and signal as functions, POSIX build | |
| `PosixCondition` | a mutex and a condition as `util/bpsync.hh` promises them and the POSIX build has them | `BpSync` |
| `Win32Condition` | condition, Windows build | `BpSync` (for the mutex); refines `PosixCondition` |
| `Win32ConditionProofs` | its theorems | `Win32Condition` |
| `WorkQueue` | what the interpreter promises the host (abstract) | |
| `RubyInterpreter` | the interpreter thread and the host threads | `BpSync`; refines `WorkQueue` |
| `RubyInterpreterInductive` | the inductive invariant of `RubyInterpreter` | `RubyInterpreter` |
| `RubyInterpreterProofs` | its theorems | `RubyInterpreterInductive` |
| `ServiceInstances` | the four kinds of work, instances and their roots | instance of `WorkQueue` |
| `ServiceInstancesInductive` | the inductive invariant of `ServiceInstances` | `ServiceInstances` |
| `ServiceInstancesProofs` | its theorems | `ServiceInstancesInductive` |
| `Prompts` | prompts, their answers and the roots of their blocks | `BpSync` |
| `PromptsProofs` | its theorems | `Prompts` |
| `ServiceDefinition` | documenting and loading a service | |
| `ServiceDefinitionProofs` | its inductive invariant and theorems | `ServiceDefinition` |
| `DataMapping` | the two conversions of values (operators only) | |
| `DataMappingProofs` | what the conversions keep | `DataMapping` |
| `ServiceSession` | a loaded service: arguments, answers, callbacks | `ServiceDefinition`, `DataMapping` |
| `ServiceSessionProofs` | its inductive invariant and theorems | `ServiceSession`, `ServiceDefinitionProofs`, `DataMappingProofs` |
| `MC*` | small instances for TLC | the module they are named for |

Each module has a section "slips of the pen": variants of its definitions with a
plausible mistake. They are not part of the specification; putting one in place of
the definition shows that a property notices the mistake.

### BpSync

A mutex is its holder or `Free`; a condition is a set of sleeping threads.
`Unlocked(m, t)` gives the outcomes of an unlock: when `t` is not the holder POSIX
leaves the call undefined, and the builds either ignore it or free the mutex.
`Signalled` wakes one sleeper, any of them. `AlwaysLocks` and `NeverUnlocks` are slips:
they put a broken mutex under `RubyInterpreter` and `Prompts`.

### RubyInterpreter

A step of the model is a critical section, or the piece of code between two
operations another thread can see:

| Code | Actions |
|---|---|
| `ruby::initialize` (283-292) | `InitializeEnter`, `InitializeSpawn`, `InitializeTest`, `InitializeWake`, `InitializeReturn` |
| `ruby::shutdown` (294-307) | `ShutdownEnter`, `ShutdownClear`, `ShutdownUnlock`, `ShutdownJoin` |
| the four callers of runWork (309-369) | `BeginWork`, and the return in `Return` or `Unlock` |
| `runWorkSync` (257-270) | `Submit`, `Attach`, `Unlock`, `Sleep`, `Wake`, `Return` |
| `runWorkASync` (275-281) | `Submit`, `Unlock` |
| `rubyThreadFunc` (58-253) | `Boot`, `Announce`, `AnnounceUnlock`, `Loop`, `Pop`, `PopUnlock`, `Execute`, `Reply`, `ReplyUnlock`, `Delete`, `Exit` |
| a spurious wake-up (`util/bpsync.hh:70`) | `SpuriousWake` |

`running`, `rubyLock`, `queue` are `s_running`, `s_rubyLock`, `s_workQueue`;
`syncLock[w]` and `done[w]` are the fields of a `Work` (`syncLock[w] = Null` before
`runWorkSync` makes the mutex); `mem[w]` says whether the `Work` has been made and
still exists; `pc[c]` and `rubyPc` are the places of the threads; `work[c]` is the
argument of `runWork*`; `cur` is the local variable `work` of `rubyThreadFunc`;
`woken` are the threads that have left the sleep of a `Condition::wait` and are
about to take its mutex again; `builtins` is `initd` of `bp_load_builtins`, whose
assertion ends the process (`rubyPc = "aborted"`) in builds that keep assertions.
`thread` is the handle in `s_rubyThread`: `Run` is `Thread::run` of `util/bpthread*`,
which may fail, and `JoinReturns` is when `Thread::join` comes back: with a handle that
was joined before it is undefined and may come back at once. `sent` and `ran` are history variables: no action reads them.

The conditions of the code that decide what happens next have names of their own
(`MustStart`, `Booted`, `IsAnswered`, `GoesOn`, `HasWork`, ...), which the slips replace.

The host: `Main` starts and stops the interpreter, when none of its other calls is
in progress; the other clients, and `Main` between the two, load, allocate, invoke
and destroy. With `OverlappingShutdown` it may call shutdown while other calls run.
No address is used for two works, so a stale pointer shows as a pointer to memory
that is `"gone"`.

### WorkQueue

Three variables: the work of each client's call, the works sent, the works served.
`Serve` serves the next in order; `Return` of a synchronous call needs its work
served. `RubyInterpreter` implements it under the mapping `call <- work`,
`served <- ran`; `BeginWork` is `Call`, `Submit` is `Send`, `Execute` is `Serve`,
`Return` and the asynchronous `Unlock` are `Return`, and everything else stutters.

`ServiceInstances` uses `WorkQueue` in turn: what the threads do to the queue is
replaced by the promise that `Refinement` proves they keep.

### PosixCondition and Win32Condition

`PosixCondition` is small: a thread is `"out"`, has `"locked"` the mutex, is `"asleep"`,
`"awake"` (and about to take the mutex), `"back"` from its wait, or has `"called"` signal
or broadcast. `Wait` releases the mutex and falls asleep in one step, as POSIX promises;
`WakeUnasked` is a time-out or a spurious wake-up; `Promise` adds that a thread that was
woken returns. `Win32Condition` builds this out of a counter and two events, in several
steps, and implements it when one thread waits (`ImplementsCondition`): `Place` maps
its places, and a sleeper counts as awake from the moment a wake-up is owed to it.

`count` is `i`, `event` the two events, `pc` the places of the threads in `timeWait`,
`broadcast` and `signal`, `reason` the local variable `result`. What is done under
the condition's own critical section is one step (`Count`, `Leave`, `TestWaiters`);
setting and resetting events are steps of their own, because the code does them
outside. As everywhere in `src/`, waiters and signallers hold the mutex. `owed` is a
history variable: how many of the threads asleep have been promised to wake.

### ServiceInstances

An instance is named by the `Work` that allocated it; `instance[a]` says what became
of it, `roots` is `gcArray` (the order in the array never matters), `held` are the
instances the host has been given and not destroyed. `LoadRubyService`,
`AllocateInstance`, `Invoke` and `DestroyInstance` are the calls of
`RubyInterpreter.cpp:309-369`; `Send`, `Return` and `Execute` are the steps of the
queue, the last with one disjunct for each case of `rubyThreadFunc`. `Collect` is the
garbage collector. `RbEqual` is what `rb_ary_delete` compares with: identity, or
`==` of the service's class when `ComparesByValue`. The host destroys an instance
when none of its other calls on it is in progress; invocations may still be queued.
An allocation that fails gives the host instance 0, and the host may go on to use it:
Ruby takes 0 for `false`, so that an invocation of it may raise or, for the methods that
every object has, return, and a release of it takes no other instance's root.

### Prompts

`slot` is `s_outstandingPrompts`: the memory of each prompt's element. `registered`
are the addresses the collector was given; an erased element's memory may be handed
out again. `Prompt`, `PromptLock`, `PromptAsk`, `PromptRecord` and `PromptUnlock` are
`trans_prompt`, `AnswerPrompt` to `CallbackUnlock` are `dummyCB` on the host's
threads. `Collect` takes a block no registered element refers to; `CollectorCrashes`
is what reading an erased element may lead to. `PromptAsk`, the call into the host, always
returns: that the host could wait there for Ruby, which waits for `s_lock`, is outside.

### ServiceDefinition, DataMapping and ServiceSession

`entry` is `$BrowserPlusEntryPointClass`, `doc[c]` and `version[c]` are `@bp_doc` and
`@bp_version` of a class. `descs` is the memory of the descriptions, in the order they
were made, and `s_desc` the index of the one it points to, or 0: a later load overwrites
the pointer, and only `Shutdown` deletes what it points to. `Initialize` is
`BPPInitialize` without a script (it returns before it loads), with a file that is
missing or empty (`ReadFile` cannot tell the two apart), or with a script. A script
executes `BpVersion` and `BpDoc` in any order, and ends in `FailLoad` or in `FinishLoad`,
which is `to_service_description` and `extractDefinition` in one step (nothing else runs
meanwhile). `Parses` says on which texts `bp_doc` raises (no string, an empty one, one whose
last argument has only white space behind it); what it has changed by then
stays, and a script may rescue the exception. A second load adds to what the first left
behind, as the code does. `Places` are where a method stands in `@bp_doc` (a hash has
a key once), `Nth` counts in the arguments that the expression of `parse_bp_doc` finds.
`Methods` are the keys of `@bp_doc`, the symbols and strings that scripts give to
`bp_doc`, and `KeyNames` the names that `to_s` gives to these: a function is told by its
name (`Told`), so that a symbol and a string of one name are two functions of that name.

`ToRuby` and `ToObject` are `bpObjectToRuby` and `rubyToBPObject`. A value, of either
side, is a tree: a function from paths to nodes, where a path is the sequence of names
and places that lead to a part, and a node is a kind with its content. `Tree` puts a
value together from a node and parts, `Part` takes one out. `NodeToRuby` and
`NodeToObject` are the `switch` of each conversion, and a conversion converts every
node. The code converts one node and calls itself for the parts; that this comes to the
same is proved (`ToRubyIsRecursive`, `ToObjectIsRecursive`), and with values as functions
the rest can be proved of values of any depth. Widths are parameters (`IntegerLimit`,
`FixnumLimit`), so that a host integer may or may not fit a Fixnum. `RealPath` is the
file system: where a path leads, or `NoPath`; where it leads to is free of links and leads
to itself (`PathAssumption`). `NodeEchoes` says what may come back of a node, without
the conversions: of a path, one of the same file. `IsConvertible` says where `hashPopulator` reads what is no string, which ends the process (`crashed`).

In `ServiceSession` the host invokes methods it was told of (`Invoke`), with any object:
one that is no map reaches the method as `nil` (`AsMap`, the `dynamic_cast` of
`BPPInvoke`). The service
completes a transaction with nothing, with what it was passed, with a part of it, or
with a part in a hash of its own (`Complete`), reports an error (`TransError`), and
invokes any callback it was ever passed, with or without data (`InvokeCallback`): while
its method runs or at any time after, as often as it likes. The method returns or raises
(`Return`, `Raise`), and what it raises is posted, answered or not. `posted[t]` is what
the host was given for a transaction; with results and with invoked callbacks goes a
history field, `meant`, the host's own object that the service passed back.

## 3. The runs

| Run | Asks | Bounds | Result |
|---|---|---|---|
| `interpreter_safety` | the type invariant, eight safety invariants, the inductive invariant, refinement of `WorkQueue` | 3 clients, 2 synchronous and 2 asynchronous works, 2 starts, failing thread creation, overlapping shutdown | holds; 459,235 states |
| `interpreter_liveness` | every call returns; an invocation runs unless the host shuts down; no deadlock | 2 clients, 2 + 1 works, 2 starts, no overlap | holds; 9,402 states |
| `instances` | a held instance is rooted; an invocation finds its instance alive; no root is left over; the inductive invariant | 2 clients, 5 stack and 2 heap works, `==` of Object | holds; about 228,000 states (with symmetry) |
| `prompts` | the map holds the outstanding prompts; their blocks are rooted; the inductive invariant; both sides get out of the lock | 3 prompts, 3 slots, 2 host threads | holds; 16,354 states |
| `session` | the description is what was documented; bad scripts are refused; one entry point; definitions stay readable; values and callbacks come back right | 2 loads, 3 `bp_doc` calls of 10, 2 transactions, 6 arguments, 3 invocations, answers and callbacks | holds; about 1.6 million states (with symmetry) |
| `win32_one_waiter` | no wake-up is lost; the count is right; wait returns with the mutex; the inductive invariant; refinement of `PosixCondition`, and its woken threads return; no deadlock | 1 waiter, 3 signallers, time-outs | holds; 475 states |
| `shutdown_leaks_work` | `HeapWorkIsFreed` (the comment at `RubyInterpreter.cpp:272`) | 1 client, 1 + 1 works, 1 start | violated |
| `stray_unlock` | `LockIsHeld` (`util/bpsync.hh:37`) | the same | violated |
| `failed_start_hangs` | `EveryCallReturns` when the thread cannot be created (`RubyInterpreter.hh:47`) | the same | violated |
| `equal_instances` | `HeldInstancesAreKept` when the class defines `==` on values (`RubyUtils.hh:50`) | as `instances`, 2 values | violated |
| `stale_roots` | `RootsAreElements` (`BuiltIns.cpp:126`) | as `prompts` | violated |
| `win32_lost_broadcast` | `WakeupsAreKept` with two waiters (`util/bpsync.hh:65`) | 2 waiters, 2 signallers, broadcasts alone | violated |

*Bounds.* Three clients are enough for two of them to contend for a mutex that a
third holds, and for a signal to have a choice of sleepers. Two works of each kind
give every order of a synchronous and an asynchronous work in the queue, with one
more behind. Two starts reach everything a restart can do: the queue left over by
the first run, and the assertion of `bp_load_builtins`. `MaxInits` is the only bound
on behaviours; the works bound the number of calls.

Two instances, with an invocation each, are what `rb_ary_delete` needs to take one for
another; five stack works allow a load, two allocations and two destructions. Three
prompts on two threads have one outstanding, one being answered and one being asked
at once, and use an erased slot again. In `session`, three texts are what a method
documented twice, or two methods in an order, need besides the text of the class, and
one method may be documented by its symbol and by a string (`helloString`);
three events are a transaction that is answered while the method of another runs, one
that is completed before its method raises, or one that is answered twice;
limits of 8 and 4 (4-bit integers and 3-bit Fixnums) have negative integers, integers that fit and
integers that do not. One waiter is what every condition of the service has at most
(`s_rubyCond` has `initialize`, each `m_syncCond` its caller); three signallers
let a signal and a broadcast come between any two steps of it.

*Deadlock* is checked in `interpreter_liveness` (`Finished` is the legitimate end) and
in `win32_one_waiter` (waiters and signallers never end). In `interpreter_safety` the
host may overlap calls with the shutdown, or the start may fail, and then a call waits
for ever, with its work in the queue, so deadlock is not checked there; that only
these two strand a call is `NoCallIsStranded`. In the other runs the works, prompt ids or loads run out, or the process crashes.

*Fairness.* `FairSpec` of `RubyInterpreter` asks that a thread which is in the middle
of a call, and the interpreter thread, take a step if they can again and again. Strong
fairness is needed for the mutexes only, since every other step stays enabled until it
is taken: the interpreter thread gives up `s_rubyLock` in every turn of its loop and
sleeps between turns, so a waiting thread finds the mutex free again and again, and
the operating systems concerned starve no waiter for ever. The host owes nothing: no
fairness on `BeginWork`, `InitializeEnter` or `ShutdownEnter`, nor on spurious
wake-ups. The same holds for `Prompts` (no fairness on `Prompt` and `AnswerPrompt`)
and `Win32Condition` (none on `LockToWait`, `LockToSignal` and `TimeOut`); the liveness
of `PosixCondition` follows from the fairness of `Win32Condition`, and has none of its own.

*What the violations show.* All are disagreements between the code and what its
comments say, quoted in `PROJECT.json` under `findings`. Work left in the queue at
shutdown is neither run nor freed. The dying thread unlocks a mutex that shutdown may
hold. A failed start makes the load of the service wait for ever where an error was
promised. Destroying one instance takes the root of every instance that equals it. The
answer to a prompt frees an element whose address the collector keeps. On Windows,
the last waiter of a broadcast may undo the next one.

## 4. The proofs

### The interpreter

`RubyInterpreterProofs` proves, from `ConstantsAssumption` alone (any finite or
infinite sets of clients and works, any `MaxInits`, both settings of the two
switches):

| Theorem | States |
|---|---|
| `TypeCorrect` | `Spec => []TypeOK` |
| `NoDanglingWork` | `Spec => []WorkIsLive` |
| `DeletesWhatItOwns` | `Spec => []DeletesOnlyHeapWork` |
| `WakeupNotLost` | `Spec => []NoLostWakeup` |
| `BootBeforeReturn` | `Spec => []InitializeWaitsForBoot` |
| `QueueMutualExclusion` | `Spec => []QueueIsExclusive` |
| `CallsAreNotStranded` | `Spec => []NoCallIsStranded` |
| `ThreadIsJoined` | `Spec => []QuietAfterShutdown` |
| `HandleIsJoinedOnce` | `Spec => []ThreadIsJoinedOnce` |
| `InvariantHolds` | `Spec => []InductiveInvariant` |
| `Refinement` | `Spec => ImplementsWorkQueue` |
| `WorksRunInOrder` | `Spec => []ServedInOrder` |

None of the safety properties is inductive. `WorkIsLive`, for instance, needs that
the owner of a queued stack work is still waiting; it waits because `m_done` is not
set; `m_done` is set only by the thread that popped the work, which has it no longer
in the queue; and the owner is past `Attach` when the work is popped, because it
held `s_rubyLock` from `Submit` on, which in turn is true only as long as the thread
lives (after its exit the stray unlock has broken the mutex, but nobody pops any
more). `RubyInterpreterInductive` writes this down in eleven named parts:

* `HostPhases`, `ThreadPhases`: who can be where together. These are what
  `s_running` and the join are for.
* `RubyLockOwner`, `SyncLockOwner`: who holds which mutex, and when.
* `Fresh`, `Held`: who refers to a work before it is queued.
* `Queued`, `Current`: what is known of a work in the queue, and in the thread.
* `Answered`: what `m_done` means to the owner.
* `Remembered`: where the work of a call is that waits for its answer. It needs that a
  stack work which has run is answered or about to be, which `Answered` says.
* `History`: `sent` is `ran`, then the work about to run, then the queue.

The proof has one lemma per part (`HostPhasesStep` ... `HistoryStep`), with one step
per action that touches the part; `StartStopFrame` says once that initialize and
shutdown leave works, queue and calls alone. The refinement theorem uses `Fresh` for
`Call`, `Held` for `Send`, `History` for `Serve` and `Answered` for `Return`.
`WorksRunInOrder` (first in, first out, and no work twice) uses the refinement: it is
shown for the steps of `WorkQueue`, of which every step of the threads is one.

`NoCallIsStranded` joins `Remembered` (the work of a caller that waits is in the queue or
in the thread's hands) and the phases: between a start that created a thread and the call
of shutdown, `s_running` is set once `initialize` is through, and only `shutdown` clears
it, so the thread is at a place of its loop. It is the safety side of `EveryCallReturns`,
for any number of threads and works.

### Prompts

`PromptsProofs` proves, from `PromptsAssumption` alone (any prompts, slots and host
threads):

| Theorem | States |
|---|---|
| `InvariantHolds` | `Spec => []InductiveInvariant` |
| `TypeCorrect` | `Spec => []TypeOK` |
| `NoAnswerOvertakes` | `Spec => []OutstandingIsTracked` |
| `OutstandingBlocksSurvive` | `Spec => []OutstandingIsRooted` |

`OutstandingIsTracked` speaks of the moments when `s_lock` is free. To carry it over
the critical sections, `Tracked` says what the map holds at every moment, the prompt
being recorded and the one being erased included; `LockOwner` says that only one of
these exists; `AskedOnce` and `AnsweredOnce` say that the host's ids are fresh, so that
recording one prompt does not touch another. A crash freezes the state: these parts
speak of a process that runs.

### Service instances

`ServiceInstancesProofs` proves, from `InstancesAssumption` (any clients and
works, with either `==` unless a hypothesis says otherwise):

| Theorem | States |
|---|---|
| `InvariantHolds` | `Spec => []InductiveInvariant` |
| `TypeCorrect` | `Spec => []TypeOK` |
| `HeldInstancesLive` | `~ComparesByValue` implies `Spec => []HeldInstancesAreKept` |
| `InvocationsFindInstances` | `~ComparesByValue` implies `Spec => []InvocationsFindTheirInstance` |
| `NoRootLeaks` | `Spec => []RootsAreOwned` |
| `QueueIsWorkQueue` | `Spec => Queue!Spec` |

The question is why an invocation that may sit in the queue for long finds its
instance alive. The host calls for a destruction when none of its calls on the
instance is in progress, and a call of `runWorkASync` ends after its work was queued:
so every use was sent before the release (`UsesFirst`). What has run is the beginning
of what was sent, in which no work is twice (`QueueOrder`), so every use runs before
the release. Until the release has run the instance is live and rooted (`Kept`):
`Collect` takes what has no root, and only a release takes a root away. `Requests`,
`Targets`, `Instances` and `Ownership` tie the kinds of works, the instances and
`held` together; `Targets` says that nothing is invoked that was not allocated, by a
call that has returned.

`Kept` and the two theorems that need it have the hypothesis that the service's class
keeps the `==` of `Object`. A class does unless it defines its own, and
`equal_instances` shows that without it the property is false: a release then takes
the roots of others. `NoRootLeaks` holds with either `==`.
`QueueIsWorkQueue` says that the queue of `ServiceInstances` is the abstract one which
`RubyInterpreter` implements: the two modules meet there.

### The Windows condition

`Win32ConditionProofs` proves, from `ConditionAssumption` (any finite set of waiters,
any signallers, with and without time-outs):

| Theorem | States |
|---|---|
| `InvariantHolds` | `Spec => []InductiveInvariant` |
| `TypeCorrect` | `Spec => []TypeOK` |
| `CounterIsRight` | `Spec => []CountsTheWaiters` |
| `WaitersHoldMutex` | `Spec => []ReturnsWithMutex` |
| `PromisesAreKept` | `AtMostOneWaiter` implies `Spec => []WakeupsAreKept` |
| `IsTheCondition` | `AtMostOneWaiter` implies `Spec => Promised!Spec` |

`MutexOwner`, `CountsTheWaiters` and `OwedToSleepers` carry the first four. For one
waiter, `WakeupIsComing` says that while a wake-up is owed to the sleeper an event is
set, or a signaller is about to set one: a signaller that owes something has found
`i > 0` under the mutex, and the only thread that resets `e[1]` is the waiter, awake by
then. The hypothesis `AtMostOneWaiter` is about the use of the class: every condition
under `src/` has one waiter (`s_rubyCond` has `initialize`, each `m_syncCond` its
caller), and `win32_lost_broadcast` shows that the property is false for two.

`IsTheCondition` is the safety half of `ImplementsCondition`, for any number of
signallers. `Count`, `Leave`, `ResetBroadcast`, `SetEvent` and the wake-ups that were
promised stutter; `Release` is `Wait`, a `TimeOut` or `WakeUp` of a thread to which
nothing is owed is `WakeUnasked` (an event may be left over from an earlier wait), and `TestWaiters` is `Call`. That a woken thread returns is liveness and
checked by TLC.

### Loading a service

`ServiceDefinitionProofs` proves, from `DefinitionAssumption` and `VersionAssumption`
(any classes, keys, names of keys, scripts and files, any number of loads):

| Theorem | States |
|---|---|
| `DefinitionHolds` | `DefinitionSpec => []DefinitionInvariant` |
| `DefinitionTypeCorrect` | `DefinitionSpec => []DefinitionTypeOK` |
| `OneClassIsDocumented` | `DefinitionSpec => []OneEntryPoint` |
| `HostIsSpared` | `DefinitionSpec => []BadScriptsAreRefused` |
| `DefinitionsLive` | `DefinitionSpec => []DefinitionsStayValid` |
| `HostIsToldWhatWasSaid` | `DefinitionSpec => []DescriptionMatchesDocs` |
| `HostIsToldTheArguments` | `DefinitionSpec => []ArgumentsAreListed` |

`DescriptionMatchesDocs` compares the description with the calls of `bp_doc` that
returned, over all loads. A function is told by its name, which does not tell its key, so
the property asks for a list of keys that fits: all that were documented, in the order of
their first texts, each with a function of its name and its last text in its place.
`FunctionsAreOfKeys` finds the list in `@bp_doc`, and `ToldFields` says what is told of a
key. Three parts of `DefinitionInvariant` make the connection:
`KeysWereSaid` (a key is in `@bp_doc` where something was said of it),
`LastWordCounts` (with what was said last) and `FirstWordOrders` (in the order of what
was said first, so that each has one place). `DocumentEffect` and `RemoveAtEffect` say
what a `bp_doc` and the removal of the class's own text do to places and order;
`DescriptionIsCurrent` says that nothing is documented between the end of a load and the
next. `ArgumentsAreListed` speaks of texts that say something about every argument:
then `Listed` keeps them all (`AllAreListed`), and no induction over the text is needed.
TLC checked `DefinitionInvariant` on the states of `session` before it was proved.

### Values

`DataMappingProofs` proves, from `MappingAssumption` (any two limits, the Fixnums' not
above the integers'; any names) and `PathAssumption` (any paths, where what a path leads
to leads to itself), about any host object `o` (`IsObject`):

| Theorem | States |
|---|---|
| `RoundTrip` | `Echoes(o, ToObject(ToRuby(o, tid)))` |
| `ToRubyIsRecursive`, `ToObjectIsRecursive` | the conversion of a tree is the tree of the converted node and the converted parts |
| `CallbacksAreThoseOfTheObject` | the callbacks in `ToRuby(o, tid)` are those in `o`, each with `tid` |
| `EntriesHaveNoWayBack` | `IsConvertible(ToRuby(o, tid))` just if no map in `o` has an entry |

`RoundTrip` rests on one case per kind of node (`NodeComesBack`), of which integers are
the hard one: `UnsignedIs` and `SignedIs` say what the two's complement readings are, and
`IntegerEchoes` that a negative number becomes one which no Fixnum holds, hence null, and
not another number. That a resolved path leads to the same file is `PathAssumption`, the
one thing asked of the file system; of a path that leads nowhere `Echoes` claims nothing
(the code hands back the empty one). `PathsAre`, `TreeFacts` and `PartFacts` say where trees and parts
lead; no induction over values is needed, since a value is a function. That `Tree` builds
what the code's recursion builds is `NodeByNode`.

### Sessions

`ServiceSessionProofs` proves, from `SessionAssumption` and the assumptions of the two
modules it is built from (any transactions, arguments, errors and numbers of events):

| Theorem | States |
|---|---|
| `SessionIsDefinition` | `Spec => DefinitionSpec` |
| `DescriptionsInSessions` | `Spec =>` always `DescriptionMatchesDocs`, `ArgumentsAreListed`, `BadScriptsAreRefused`, `OneEntryPoint` and `DefinitionsStayValid` |
| `SessionHolds` | `Spec => []SessionInvariant` |
| `SessionTypeCorrect` | `Spec => []TypeOK` |
| `AnswersFaithful` | `Spec => []AnswersAreFaithful` |
| `CallbacksArrive` | `Spec => []CallbacksFindTheirTransaction` |
| `CrashesAreOfMaps` | `Spec => []CrashIsOfAMap` |

Every step of a session is a `LoadStep`, which is one of `DefinitionNext`, or leaves
`definitionVars` alone (`StepIsDefinition`), so the theorems about descriptions hold while
methods run. Three parts of `SessionInvariant` carry the rest: `HasItsArguments` (a
transaction has the conversion of what the host passed it, or nothing yet), `AreFaithful`
and `CallsAreFaithful` (results and the data of callbacks echo what the service meant),
and the property of callbacks. `EchoableEchoes` applies `RoundTrip` to whatever a service
may pass on, its parts and a hash of its own included (`PartToRuby`, `HashEchoes`);
`AppendFaithful` adds an answer to those of a transaction. TLC checked `SessionInvariant` on the
states of `session` before it was proved.

`CrashIsOfAMap` is about the one conversion without an outcome: the process ends in
`hashPopulator` only if the host passed a map with an entry to some transaction. That it
does then, when the map is passed on, is `EntriesHaveNoWayBack`.

### Only model-checked

* Liveness and the absence of deadlock: `EveryCallReturns`, `InvocationRuns`,
  `PromptReturns`, `AnswerReturns`, the fairness half of `ImplementsCondition`. Fairness
  and `ENABLED` are outside what the installed provers can do.

Every safety property that a passing run checks is also a theorem.

## 5. Plan

The order is by how much of the service rests on the part.

1. *Done*: interpreter thread and queue, with their abstract specification, liveness
   and proofs; instances, prompts, the Windows condition, the loading of a service,
   answers, values and callbacks, with proofs; the refinement of the POSIX condition;
   that `RubyInterpreter` implements the queue which `ServiceInstances` uses.
2. *Open*: one module in which `ServiceInstances` runs on the threads of
   `RubyInterpreter` and not on the abstract queue: instances would then survive the
   shutdown, with work in the queue.

## 6. Not modelled

* `util/widetoutf8*` and `dirname`: stateless conversions of text. `readFile` is part of
  the load; that it never closes its file is a leak of descriptors and changes no state.
* Signal masks (`blockSignal`), and `detach`, `ID` and `currentThreadID`, which have no
  caller: the operating system's part.
* The leak of one mutex and one condition per synchronous call
  (`RubyInterpreter.cpp:264`): it changes no other state.
* Two threads calling `initialize` at once: the host loads a service from one thread.
* An answer to a prompt on the thread that asks, from within the host's `prompt`: it
  would wait for the lock its own thread holds.
* How often a transaction is answered, and for which: the code passes on what the service
  does, with the transaction id that `trans_init` stored, and keeps no state about it.
* That the host is not told of a failed allocation (`service.cpp:72`): it is in the model,
  and no property speaks of it, because no document says what the host should be told.
* A `==` of the service's class that raises: `rb_ary_delete` is called without
  `rb_protect` (`RubyUtils.hh:71`), and what a raise does there is up to Ruby.
* Callback ids that do not fit the `unsigned int` of `BuiltIns.cpp:214`: the host makes
  the ids, and `NUM2UINT` gives back those that fit.
* What a path that leads nowhere should come back as, and a host that waits for Ruby
  inside its `prompt` (a cycle through `s_lock`): see `hazards` in `PROJECT.json`.
* The stray unlock of a mutex (`RubyInterpreter.cpp:247`) is modelled as POSIX leaves it,
  ignored or freed; the recursive critical section of the Windows build is not.
* Two waiters and plain signals on the Windows condition: no run has them, since no
  condition under `src/` has two waiters; `win32_lost_broadcast` has two and broadcasts.
* The description of the interpreter itself, which `BPPInitialize` returns when there is
  no dependent service: a constant.
* Texts: the wording of errors, the splitting of documentation into words, UTF-8.
* The duration of `timeWait` and its return value: it has no caller.
* Ruby itself: what a method does is one step, which may call the host back.
* Build files, packaging scripts, and the sample services under `src/unittest/`.
