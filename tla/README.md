# A TLA+ verification of ListTalk

ListTalk is a Lisp with a Smalltalk object system, written in C: a tree-walking
evaluator with a macro and constant-folding compiler, conditions and restarts, native
threads over a conservative garbage collector, and a library of classes.  This directory
models the parts of it whose correctness depends on the order of steps (the synchronisation
words and the classes built on them, threads, promises, the control stack of throw, catch,
handlers and restarts, and the state threads and callbacks share without one lock around
the whole operation) and the computations whose boundary cases are many: the evaluator
with its compiler, the reader, numbers, text, collections, classes, dates and JSON.  Paths
below are relative to the repository.

## 1. Inventory of the system

| Component | Source | State it keeps | Operations | Interacts with | What makes it correct |
|---|---|---|---|---|---|
| Mutex and condition words | `src/utils/lock.c`, `ListTalk/utils/lock.h` | a word of 0/1/2 per mutex, a counter per condition, 8 bits of hashed parking queues (a pthread mutex and condition each) | try_lock, lock, unlock, wait, signal, broadcast | every class with a lock | one holder; nobody sleeps on a free mutex; wait gives the mutex up and sleeps as one step |
| Read-write word | same | writer bit, reader count, waiter count in one word | read/write lock, try, unlock | ReadWriteLock, tables | writers alone; exact counts; nobody sleeps on a free lock |
| MessageQueue | `src/classes/MessageQueue.c` | ring, head, tail, count, two conditions | put, tryPut, get, tryGet | words above | bounded FIFO; no thread asleep beside work |
| Thread, thread state | `src/classes/Thread.c`, `src/vm/thread_state.c`, `src/vm/eval.c` (signal poll) | finished, joined, joining, detached, pointer to the native thread's state, one pending signal | start, exit, join, makeDetached, signal, POSIX signal, poll | words above, pthreads | one pthread_join; every join answers the result; no access to freed state |
| Promise, Future | `src/classes/Promise.c`, `src/classes/Future.c` | value, resolving flag and thread | force, value, isReady | words above, evaluator, unwind-protect | one evaluation; all callers agree; a throwing thunk leaves the cell forceable |
| Throw and catch | `src/vm/throw_catch.c`, `ListTalk/vm/throw_catch.h` | per thread: chain of frames on the C stack | catch, throw, unwind-protect | everything that must clean up | a throw reaches the nearest catch of its tag, running each cleanup between once |
| Conditions, restarts, errors | `src/vm/conditions.c`, `ListTalk/vm/conditions.h`, `src/vm/error.c`, `src/classes/Restart.c` | per thread: handler chain, restart chain, debugger hook | handler-bind, restart-bind, signal, error, cerror, invoke-restart | throw and catch | bindings last exactly as long as their body; the hook is off inside itself |
| Evaluator | `src/vm/eval.c`, `src/vm/stack_trace.c` | stack trace chain, trampoline markers | apply, tail call, send, poll for signals | all | a tail call keeps the caller's dynamic context |
| Compiler, closures, epochs | `src/vm/compiler.c`, `src/vm/epoch.c`, `src/classes/Closure.c` | compiled body and epoch of each closure, global epoch | fold constants, pure calls and macros when made and after a constant changes | environments, evaluator | a closure never runs a body folded with a constant that has changed; folding is not noticed |
| Environments | `src/classes/Environment.c` | bindings with a constant flag | bind, define, lookup, set | compiler | shadowing and constants agree with what was folded |
| Classes, dispatch | `src/classes/Class.c`, generic functions in `src/runtime/init.lt` | precedence lists, slots, method tables | make a class, addMethod, lookup, call-next-method | evaluator | precedence is a linear order of the superclasses, no two slots share a word, the most specific method runs first |
| Dictionaries, sets, weak references | `src/classes/IdentityDictionary.c`, `Dictionary.c`, `Set.c` | hash table under a lock, iterators and walks outside it | at, atPut, remove, iterate, do: | lock words, collector | an iteration meets each entry once, whatever grows meanwhile; a table is the map of what was put in it |
| Packages, symbols | `src/classes/Package.c`, `src/classes/Symbol.c` | symbol tables, use lists, nicknames | intern, export, use, print | reader | one symbol per name and package; what is printed reads back |
| Loader | `src/vm/loader.c` | list of provided modules | load, require, provide | reader, evaluator | a module is loaded once |
| Options, the listtalk program | `src/vm/cmdopts.c`, `src/modules/cmdopts.c`, `src/bin/listtalk/main.c` | lists of options and arguments under a lock, one state per parse; status and number of actions | parse, add an option or an argument; evaluate, load, require, run the script | loader, REPL | words mean what the parser says; actions in order, none after a failure |
| File writer | `src/vm/utils.c` | a temporary file, the path | create, write, close, rename | system calls | a reader of the path finds an old file or a whole new one |
| Reader, printer, REPL | `src/vm/reader.c`, the printers of the classes, `src/repl/repl.c` | a byte of pushback, a position; the lines typed | read a form, ask for a line | packages | the REPL reads what a file has; what is printed reads back |
| Numbers | `src/classes/Number.c`, `BigInteger.c`, `Integer.c` and others | none | arithmetic, comparison, hash, rounding, bytes | dictionaries | exact results in one representation; equal numbers hash alike |
| Strings, byte vectors, bit vectors, lists, iterators | `src/classes/String.c`, `ByteVector.c`, `BitVector.c`, `List.c`, `Iterator.c`, `src/utils/base64.c`, `hex.c` | bytes; the position of an iterator | search, cut, glue, encode, walk, map, filter | reader | sequences of characters, bits or values, whatever they are kept in |
| Dates and sleep | `src/classes/Instant.c`, `DateTime.c` | none | add, convert, print, parse, sleep | system calls | a moment survives its fields and its text; a sleep lasts as long as asked |
| JSON | `src/modules/json.c` | settings of a decoder and an encoder | decode, encode, encodePlist | dictionaries, strings | a text is the value it denotes; what is written reads back |
| INI files | `src/modules/ini.c`, `src/utils/ini.c` | settings of a reader; sections, the current one, the line | read:, readFile:, the settings | dictionaries, strings | a text is what its lines say together, or its first wrong line is named |
| Path names | `src/classes/Pathname.c` | the text of a path | make, append, parent, rootedAt: | strings, file system | equal places have one text, and it reads back |
| Regular expressions | `src/classes/RegularExpression.c` | a compiled pattern (PCRE) | match, split, substitute | strings | cuts at each match once; positions are those of characters |
| Streams, sockets, other modules, debugger commands | rest of `src/` | kernel objects | - | - | thin over system calls and libraries |

What is hard here: threads interleave inside the slow paths of the locks and between any
two locked sections; pthread conditions wake spuriously and, because parking queues are
shared by hash, wake the wrong sleeper; a thunk or handler may leave by `siglongjmp` from
any call; POSIX signals arrive in the middle of everything; a native thread's state dies
with it while others hold its object; tables, packages, parsers and closures are read and
written in several locked (or unlocked) pieces with callbacks in between; and a body is
folded long before it runs.  The list of hazards, each at its line, is in
`PROJECT.json`.

## 2. Modules

| Module | Models | Checked by |
|---|---|---|
| `Monitor` | abstract mutexes and condition variables, with spurious wakeups and signals that may wake several | refined by `LockWords`, used by the modules below |
| `LockWords` | mutex and condition words, one action per atomic access or pthread call | `MCLockWords` with `LockWords.cfg`, `LockWordsShared.cfg` |
| `RWLockWord` | the read-write word | `RWLockWord.cfg` |
| `BoundedQueue` | abstract bounded FIFO | refined by `MessageQueue` |
| `MessageQueue` | the ring, put, tryPut, get, tryGet | `MessageQueue.cfg`, `MessageQueueTryGet.cfg` |
| `ThreadLife` | one thread object, its native thread, its callers | `ThreadLife.cfg`, `ThreadDaemon.cfg` |
| `PromiseCell` | promises forced by threads whose thunks force promises | `PromiseCell.cfg` |
| `ControlStack` | the control stack of one thread: catch, throw, unwind-protect, handler-bind, restart-bind, signals, errors, the debugger hook, tail calls | `MCControlStack` with `ControlStack.cfg`, `ControlStackTail.cfg` |
| `Closures` | a closure whose body is a free symbol, applied by threads while another redefines the symbol | `MCSharedState` with `SharedState.cfg` |
| `Packages` | the symbols of one name in every package, read, exported, used and printed by threads | same |
| `Dictionaries` | the chained table of IdentityDictionary, weak keys, an iterator | same |
| `Tables` | sets and dictionaries by equality or identity, strong or weak in keys or values, and walks that call back | same |
| `Loader` | require, provide and load by threads, in cycles, with throws | same |
| `FileWriter` | writers of one path, failing calls, a crash at any step | same |
| `Options`, `Driver` | the option parser and several parses at once; the listtalk program | same |
| `BitSequence` | abstract bit vectors | refined by `BitVectors` |
| `BitVectors`, `BitConversions` | bit vectors in bytes; to and from integers | `MCData` with `Data.cfg` |
| `BigIntegers`, `Numbers` | integers as limbs; fractions, floats, complex numbers | same |
| `Classes`, `GenericFunctions` | precedence lists and slots; which methods a call runs | same |
| `Strings`, `Formats`, `Reader` (texts in `MCText`) | UTF-8 strings and where regular expressions cut them; format strings; the reader, the printer and the REPL's lines | same |
| `Bytes` | byte vectors, integers and lines in them, base 16 and 64 | same |
| `Lists` | walks over several lists, lists of lists, lazy iterators | same |
| `Calendar` | instants, date-times, their text, sleep | same |
| `Evaluator` (programs in `MCText`) | evaluation, environments, folding and macros | same |
| `Json`, `IniFiles` | decoder and encoder; a reader of INI files, line by line | same |
| `Pathnames` | path names as text | same |
| `LockWords_proofs` | theorems about `LockWords`, and that it implements `Monitor` | tlapm |
| `ThreadLife_proofs`, `ControlStack_proofs`, `MessageQueue_proofs`, `PromiseCell_proofs` | theorems about the module each is named after | tlapm |
| `Data_proofs` | theorems about what is packed in words and fields: `BitVectors`, `Calendar`, `RWLockWord` | tlapm |
| `SharedState_proofs` | theorems about `Closures`, `Packages`, `Dictionaries`, `Tables`, `Loader`, `FileWriter`, and about `MCSharedState`, which joins them | tlapm |
| `Driver_proofs` | theorems about `Options`, `Driver`, and what `MCSharedState` asks of them | tlapm |

The layers compose by refinement.  `LockWords` is shown to implement `Monitor`;
`MessageQueue`, `ThreadLife` and `PromiseCell` take their locks from `INSTANCE Monitor`, so
what they show holds over the real words as far as the refinement holds (private condition
queues, see section 5).

**Correspondence.**  `pc[t]` is the place of thread t in the code, named after the function
and the next line it executes; an action is what happens between two places where another
thread can interfere.  Sections of code under a mutex that touch only what the mutex guards
are one action after the lock is taken.  Definitions name their lines in `PROJECT.json`; a
helper whose lines another definition names already is not listed.

**LockWords.**  `word[m]` and `seq[c]` are the machine words of `ListTalk/utils/lock.h`;
`lockHolder[q]` and `condHolder[q]` the pthread mutexes of the two arrays of wait queues.
The inline fast paths are `TryLock`, `Lock`, `Unlock`; a failed fast path goes through the
labels of `lock_slow`.  A thread parked on a queue is in the label, not in a set, so that a
`pthread_cond_signal` chooses any thread parked on the queue, whichever word it sleeps for;
`rwAsleep[q]` says that sleepers of a read-write word may take the signal too.

**RWLockWord.**  The one word is split in its three bit fields; the compare-and-swap loops
are one action with the final value, the increments and decrements of the waiter count are
actions of their own.

**MessageQueue, ThreadLife, PromiseCell.**  `owner` and `waiting` are the monitor of
`Monitor`.  A thread that waits leaves `waiting` when it is signalled (or for nothing, the
action `SpuriousWakeup`) and takes the mutex again in a later step.  `ThreadLife` keeps the
bits of the object (`finished joined joining detached`), the native thread (`native`), the
pthread handle (`handle`) and the pending signal; `PromiseCell` keeps for each thread the
promises whose thunks it is inside, so that thunks nest and throw through each other.

**ControlStack.**  The C stack is the sequence `stack` of the activations of the functions
and forms that matter.  Each of the four chains of `LT_ThreadState` is linked from the
newest frame to the oldest through frames that live in activations, so a chain is the set of
the depths that hold its frames, its head the largest, and a saved "previous" pointer the
set the frame found; `entry` of an activation is the thread state it found and will
restore.  LT_throw's search and its jump are `UncaughtThrow` and `LongJump`.  A jump to a
frame of the program's unwind-protect runs the cleanup and throws again, so one throw is
several `LongJump`s.  Program code is any sequence of the actions in `Program`.  Once a
chain points into an activation that is gone (`FramesLive` fails) the program's behaviour
is undefined and the model stops following it.

**Shared state.**  `Closures`, `Packages` and `Loader` have a place per thread and one
action per read or write of memory, or per locked call where a table's lock is held for
it.  `Dictionaries` has the entries as they are linked in the buckets, and an iterator that
keeps a bucket number and an entry between calls; the pair it answered last keeps its key
alive, every other weak key may die at any moment.  In `Tables` a walk keeps what it has
still to see, and any operation may run inside its callback.  `FileWriter` has one action
per system call, each of which may fail, and `ProcessDies`.  `Options` has one action per
look at the parser's lists and the callback that follows; `Driver` is `Options` with the
callbacks of `main.c`, which act at once, then the script or the REPL.

**Computations.**  The functions of the code are operators of the same name or meaning and
an action calls one of them on the values the program holds (`vec`, `first`, `text`,
`octets`, `instant`, ...), so that results become arguments.  Sizes the code fixes are
parameters (`ByteWidth`, `LimbBits`, `FixnumMax`, `FloatBits`, the bits of a byte in
`Bytes`, the lengths of days and hours in `Calendar`), so that the boundaries come within
reach.  `Reader` is the recursive-descent reader over bytes with one byte of pushback, and
the REPL an action per line and per form.  `Evaluator` runs a session twice, once as the
code does and once by an interpreter that folds nothing, and compares.

**History variables** are read by no guard: `raced` of `Closures`, `grown`, `visits` and
`stayed` of `Dictionaries`, `made` of `Packages`, `loads` and `again` of `Loader`,
`contents` of `Tables`, `handed` of `Lists`, what was called by `Options` and `ran` by
`Driver`, `firstNumber` and `secondNumber` of `BigIntegers`, `trail` of `Pathnames`,
`iniSource` of `IniFiles`, and the last call in `Json`.
`raced`, `again` and the `exempt` of `Evaluator` name the schedules and programs in which the
code does not keep the promise; section 6 lists them.

## 3. Runs

| Run | Question | Properties | Shows |
|---|---|---|---|
| `lock_words` | do the words exclude, wake and sleep as a monitor would? | `IInv`, `MutualExclusion`, `NoLostWakeup`, `ImplementsMonitor`, `FreeMutexIsTaken` | yes, with two mutexes and read-write words on one wait queue; the refinement with a private queue per condition word |
| `lock_words_shared` | does a signal wake a waiter of its word when queues are shared? | `SignalWakesWaiter` | no: finding 1 |
| `rwlock` | do the fast and slow paths keep the counts exact and serve sleepers? | `IInv`, `WriterAlone`, `NoSleeperStranded`, `FreeLockIsTaken` | yes |
| `message_queue` | is the ring a bounded FIFO, and are single signals enough? | `IInv`, `NobodySleepsOnWork`, `ImplementsBoundedQueue`, `ValuesKeepMoving` | yes |
| `message_queue_tryget` | does tryGet answer nil only when empty? | `TryGetNilOnlyWhenEmpty` | no: finding 2 |
| `thread_life` | do joins, exits, detaches and signals of one thread agree? | `IInv`, `JoinAnswersFinalResult`, `OneJoinerAtATime`, `SignalFindsLiveState`, `JoinsEnd` | yes, but for a thread that sleeps joining itself |
| `thread_daemon` | is a daemon never joined? | `DaemonNotJoined` | no: finding 3 |
| `promise` | one evaluation, one value, nobody left asleep, also when thunks throw? | `IInv`, `CallersAgree`, `EvaluatedOnce`, `NobodySleepsOnSettled`, `ForcesEnd` | yes, but for crosswise forces of several threads |
| `control_stack` | do bindings last as long as bodies, are cleanups never skipped, do throws stop where they should? | `IInv`, `RethrowFindsTarget`, `CleanupsRun`, `NearestCatchTakesThrow` | yes, when no body ends in a tail call |
| `control_tail_call` | and when a body ends in a call inside a closure? | `HandlersEndWithBody` | the handler stays in force: finding 4 |
| `shared_state` | does state that threads and callbacks share in pieces mean what it would in one piece? | `SharedStateTypeOK`, `AnswersAreCurrent`, `SymbolsSound`, `OnceEach`, `DoneAsAsked`, `FileIsOldOrNew` | yes, but for the schedules the history variables name |
| `data` | do the computations agree with reference definitions? | `BitVectorsAreSequences`, `NumbersExact`, `DispatchSound`, `SequencesSound`, `CalendarSound`, `EvaluatorSound`, `ReadsAndPrints` | yes, but for the programs section 6 names |

The last two runs hold many components that share nothing.  `part` is chosen in `Init`, a
behaviour runs that component and leaves the others idle, and the product of unrelated
components, which would say no more, is never built.  Each of their properties joins what
is claimed of related parts:

| Property | Of |
|---|---|
| `AnswersAreCurrent` | an application answers a value its symbol had between its begin and its end, three races excused until the next change the epoch counts |
| `SymbolsSound` | a package makes one symbol of a name; a printed symbol reads back as itself |
| `OnceEach` | an iterator answers what stays exactly once; a module is loaded once, and once more for each race or throw that cost it a load; a table is the map of what was put in it, and a walk sees what was there when it began, once |
| `DoneAsAsked` | a parse calls back what its words mean; the program does what it is asked in order, up to the first failure |
| `FileIsOldOrNew` | the path names an old file or all of a successful call |
| `BitVectorsAreSequences` | `BitVectors` implements `BitSequence` |
| `NumbersExact` | limbs compute what integers do, in one representation; conversions lose nothing; numbers of different kinds compare, hash and round as one |
| `DispatchSound` | precedence and slots of every lattice; a call runs every applicable method once, the most specific first |
| `SequencesSound` | strings over codepoints, the cuts of regular expressions, formats, base 16 and 64, folds, lazy iterators and path names against their definitions |
| `CalendarSound` | a moment comes back from fields and text; a sleep that returns lasted as asked |
| `EvaluatorSound` | folding is not noticed; arguments reach their parameters |
| `ReadsAndPrints` | the REPL reads the forms of the file; a printed value reads back; JSON texts are what the grammar says, and what is written reads back; an INI text is what its lines say |

### Findings

1. `src/utils/lock.c:176`: `LT_CondWord_signal` sends one `pthread_cond_signal` to a queue that
   several condition words may share; the thread woken can be a waiter of another word,
   which sleeps again, and the signalled word's waiter sleeps on.
   `src/classes/ConditionVariable.c:93` promises to wake one waiter of the condition.
2. `src/classes/MessageQueue.c:410`: `tryGet` answers nil when the mutex is busy, whatever the
   queue holds; line 236 says "or nil when queue is empty".
3. `src/classes/Thread.c:384`: a joiner that slept while another join failed does not look at
   `detached` again, and joins a thread that became a daemon meanwhile.
4. `src/vm/base_env/special_forms.c:1224`: handler-bind (and catch, restart-bind) evaluates
   its body with the caller's tail-call marker.  A call that ends the body jumps to the
   trampoline, out of the form, without unlinking its frames; unwind-protect does pass
   NULL.  From there the thread state points into dead stack.

### Bounds, and why they are enough

- `LockWords`: three threads, two mutexes on one queue, sleepers of a read-write word on it at
  any time, one condition, two signals.  The races are among an owner, a sleeper and a
  newcomer; a third thread lets a newcomer overtake the one woken, or sleep for the other
  mutex and take its signal.
- `RWLockWord`: four threads, so that two readers can hold the lock with a writer asleep
  and a newcomer of either mode in between.  The fields do not overflow below 2^15 threads, on a 32-bit machine.
- `MessageQueue`: two putters and two getters on a ring of two slots, so that the ring goes
  round, both sides sleep and a single signal has two threads to choose from.
- `ThreadLife`: two callers and the thread itself, the fewest for a joiner, a sleeper and a
  self-join.
- `PromiseCell`: three threads and two promises: crosswise forces, a third thread asleep on
  either, and thunks nested two deep, where a throw passes through both.
- `ControlStack`: `MaxDepth = 6` lets a correctable error (three activations) run inside the
  debugger (two) of a first error, with a form of the program around or inside, and leaves
  room for two protected forms between a throw and its catch.  `Room` counts the depth
  before a step, so CError and the debugger reach beyond it.  Two tags are symmetric:
  properties mention none by name.  The theorems need no bound.
- `Closures`: two appliers, two values, two definitions: a definition in the middle of a
  recompilation, and another before the older one stores.
- `Packages`: two threads and four calls: a package nobody uses, one that is made, one that
  is used under a name it hides.
- `Dictionaries`, `Tables`: keys of one bucket that part when the table grows from two
  buckets, one of them weak, and equal keys that are two objects; four entries fill a
  bucket, empty it and grow the table under an iterator or a walk.
- `Loader`: two threads, two modules that require each other and a native one, three calls.
- `FileWriter`: two writers of two units, the fewest with a short write; the theorem has
  no bound.
- `Options`, `Driver`: command lines of up to three words of every form (clusters, values
  attached and apart, `--`, an unknown letter, an element that is no string), strict and
  not; two tasks and one late addition of each kind.
- `BitVectors`: bytes of three bits and vectors of up to four, so that a vector ends in,
  at and past a byte.  `BigIntegers`: limbs of two bits, fixnums up to 7, results up to 66,
  past the third limb boundary.  `Numbers`: parts up to 5 and two bits of a float, so that
  both rounding and the limits of small fractions are met.
- `Classes`: lattices of six classes over two native choices, enough for orders that
  contradict only through a third class; `GenericFunctions`: three methods of two
  parameters on two classes.
- `Pathnames`: every text of up to three of a slash, a dot and a letter, and a letter followed by
  any six slashes and dots, which climb past what they entered; twelve tails and roots, two
  calls.
- `IniFiles`: every pair of seventeen lines (sections, keys with and without a section or a
  value, comments, blanks and five wrong lines) and texts of six with sections and keys that
  come again; the three line ends; every setting.
- `Strings`: ASCII, two-byte, combining, line-end and every kind of broken UTF-8 text,
  before and after one edit.  `Formats`: all format strings of four of the directives and
  nested iterations.  `Reader`: the texts of `MCText`, one per construct and per way of
  breaking it into lines.
- `Bytes`: a byte of four bits, so that three bytes still are four digits of base 64; all
  bytes alone, and longer vectors of those that matter.
- `Lists`: up to three lists, proper and not, of up to four elements; iterators over up to
  three items with two stages and one put into the vector below, at any place of it, also
  where a filter has looked and its value is not yet used; lists that end improperly.
- `Calendar`: instants on both sides of the epoch, of leap days, centuries and the year 0;
  days of two hours, hours of two minutes, minutes of three seconds and seconds of ten
  ticks, so that a century fits; the calendar of days itself is unscaled.  `ExactDoubles`, 2^53
  in the code, is 2^24, with seconds on both sides of it.  The theorem has no bound.
- `Evaluator`: a setup (a constant, a variable or nothing under the name a body uses, a
  macro, three answers to an unbound symbol), a function with one of the bodies of
  `MCText` and up to three forms in all; every lambda list with every argument list.
  `ExpansionLimit`, 256 in the code, is 2, with macros nested as deep and deeper.
- `Json`: nine documents, each as it is and with one symbol lost or put in; three calls
  and changes of settings per codec.

### Fairness

`FairSpec` is weak fairness of each thread's `Continue`: a thread that can go on with the
call it is in is scheduled, which is what pthreads give a runnable thread.  pthread mutexes
are not fair, so no strong fairness of a lock is assumed, and the liveness properties are
those that hold without it: a free lock is taken by somebody.  `RWLockWord` adds that a
holder unlocks, `MessageQueue` that producers and consumers keep calling, `ThreadLife` that
the callable of a thread returns, `PromiseCell` that thunks end.  What the code does not
guarantee is a hypothesis of the property and not of the fairness: `JoinsEnd` and
`ForcesEnd` ask that calls and spurious wakeups cease, that the thread itself is not asleep in
a join (a thread that joins itself while another joins it deadlocks with its joiner), and
that no threads force each other's promises crosswise (only a cycle within one thread is
detected); `ValuesKeepMoving` asks that pollers do not keep the mutex busy for ever.

Deadlock is checked wherever `CHECK_DEADLOCK FALSE` is absent.  The two runs of `LockWords`
say it because all signals may be used up while threads wait on a condition.

## 4. Mutants

Every property of every passing run has a mutant: a definition in the module beside the one
that models the code (most are marked "Mistake" or "Variant"), put in its place, after which
TLC finds the property violated.  They are the bugs the properties are there for: a wakeup
sent before the word is marked, a single signal not passed on, a frame not unlinked, a jump
that goes straight to the catch, a byte pushed back at the wrong position, a write taken
to be whole.  In the two runs of many components a property has its mutant in one of its
parts.

## 5. Theorems

All are checked by tlapm to the last leaf, for every value of the constants, from the
assumptions the modules state on their constants (among them that the sets of threads are
finite, where a property counts threads) and these:

- `CondQueuesPrivate` (`WordsImplementMonitor`): no two condition words share a wait queue.
  Finding 1 is what happens without it.
- `NoTailCalls` (all of `ControlStack_proofs`): no body of catch, handler-bind or
  restart-bind ends in a call.  Finding 4 is what happens without it.

| Theorem | Argument |
|---|---|
| `TypeCorrectness`, `MutexExcludes` | `IInv` of `LockWords` is inductive as it stands: a word is 0 exactly when nobody holds it, and the sections of the slow path own their queue |
| `NoSleeperForgotten` | kept by a step from a state with `IInv`, however queues are shared: an unlock that finds the word contended becomes the waker of the queue; who is woken, of whichever mutex, marks its word contended or takes it, and so is itself the one who comes to the queue next; a signal that a read-write sleeper takes leaves `rwAsleep`, whose unlock wakes all |
| `WordsImplementMonitor` | refinement: the owner is the holder of the word; the sleepers of a condition are the threads that have given up their mutex in a wait and not seen the sequence number change.  A wait joins them when it gives the mutex up, with the condition queue's mutex in hand since it read the number, so that no signal comes in between (`SeenInv`) |
| `WordExact`, `WriterIsAlone`, `SleepersServed` | the fields of the word are the cardinalities of the holders and of the threads in the slow path; the lemmas add and remove one thread |
| `ThreadConsistent`, `JoinAnswers`, `OneJoiner`, `SignalIsSafe` | `IInv` with `JoinAnswersFinalResult`: owner of the lock, flags against the native thread, and exactly one thread in or back from pthread_join while `joining` |
| `StackInOrder`, `RethrowIsCaught` | every chain equals `Extent` of the stack, what the activations below a depth link; `Extent` depends on their kinds and phases only.  A push extends it (`AppendGood`), a return cuts it (`CutGood`), and a throw jumps to the newest frame that is not a foreign catch, so that no handler, restart or hook lies between it and the top and restoring one binding restores all (`JumpRestores`) |
| `CleanupsAlwaysRun`, `ThrowEndsAtNearestCatch` | action properties: a step keeps all forms in progress, takes the newest activation away, ends a protected body, or jumps (`StepShape`) |
| `QueueInvariant` | `IInv` of `MessageQueue` is inductive: the modulus is removed first (`RingForm`), then storing and taking shift the offsets of the slots by one |
| `NoWakeupIsLost` | while a getter sleeps, as many getters are on their way, or putters about to signal one, as there are values (and the same for slots).  A step moves one thread from one of the counted sets to another, or gives up a signal to a sleeper (`Counting`) |
| `QueueRefinesBoundedQueue` | refinement: the contents are the items from head on; `StoreAppends` and `TakeTakesHead` are the two steps, all others stutter |
| `PromiseInvariant`, `EveryCallerAgrees`, `NoSleeperIsForgotten`, `NeverEvaluatedTwice` | one invariant: a promise is being resolved exactly while one thread is inside its thunk, at one place of its stack; so who settles it finds it without a value.  `NoAnswer` adds that a thread that waits or fails remembers none |
| `AnswersStayCurrent` | the invariant of the epoch (`ClosureInv`): a body whose epoch is the current one was folded with a constant that is the symbol's value now, and one folded before a definition carries an older epoch; the three schedules in which that fails set `raced`, and a definition that the epoch counts takes it back |
| `SymbolsStaySound` | a package that has a symbol has made one, whose home it is, and a package that has none has made none (`OwnSymbol`); so whatever the exports hold, the printer's and the reader's lookups find one symbol |
| `StayersAreVisitedOnce` | `TableSound`: chains are the least sets closed under `next` (`Met`), end, and meet no entry twice; the lemmas show that a push, an unlink and a growth keep it.  For the iterator: a live entry of a key that stays is ahead of it exactly when the key is not yet answered (`Ahead`).  The only induction, over chains, is in `LeastNatural`, from the library's facts on well-founded orders |
| `TablesAreMaps` | `TableInv`: every chain holds entries of its bucket's hash only, the keys of its entries that can be found are apart, the live entries are `contents`, and the count is the length of all chains and at most the number of buckets.  One lemma per change of the buckets (`OneBucket`, `SetValueWell`, `RemovedWell`, `GrownWell`, `CollectedWell`); what a walk hands out is a list of entries apart (`ApartInjective`), so it sees each once.  The lemmas on the flattening of a list of lists are by the least counterexample (`LeastNatural`, `FrontInduction`) |
| `LinesParseAsMeant` | `OptionsInv`: the calls a parse has made are those of the words it has read (`Said`, with the letters read of the word it is in), the words left and the flag that closes the options agree with the roles of the words, and the argument next in turn is the one the count of positional words gives (`TurnWell`).  What a line means depends on the parser, so a parse keeps the one it began with (`began`), options and arguments are only added at the end (`OptionsGrown`), and a line that is understood means the same to the longer parser.  `Roles` is a recursive function: that it exists and gives each word the role its predecessors fix (`RolesExist`, `RolesAre`) is by the least number of words for which it would not |
| `CommandsAreDoneInOrder` | `CommandInv` adds to `OptionsInv` what the callbacks made of the calls so far: `Told`, the actions run up to the first failure, each with the resolvers there were, and `ArgumentsWell`, the script and its arguments in the places of the ready-made callbacks.  A step adds at most one call, and one lemma for each kind of call shows what it adds to the filters `Only`, `UpToFailure` and `Before` |
| `ModulesLoadOnce` | `LoaderInv`: frames are within their bodies, a frame past its provide has its module on the list, and a module loaded before is provided, being loaded, or charged to `again`.  It rests on `BodyAssumption`: a module provides itself before it requires others, which is what makes a cycle of requires end |
| `BitVectorsRefineSequences` | refinement: the abstract bits are those below the length.  Each operation of bytes is shown to give the bit the abstract one gives at every index; what lies past the last bit never shows |
| `CalendarStaysSound` | instants and fields are integers, and a sleep has slept or has still to sleep what was asked (`CalendarInv`); all else holds of any date-time.  `DoubleHolds`: seconds that a double holds come through it unchanged.  `CivilDays`: days_from_civil is the day count of gmtime_r, in every year; `GmtimeExact` and `LessIsSooner`: the proper date-times are the instants, in their order; `DigitsMean` and `SignificantDigits`: the digits of a field make it again, without the zeros at the end too; `ParsedIsDateTime`: whatever is parsed is a date-time |
| `PartsRunAlone`, `PartsKeepTheirPromises`, `PartsKeepTheirTypes`, `ProgramDoesAsAsked` | a step of `MCSharedState` is a step of one component and leaves the variables of the others, so its specification implies the specification of each, and with it their theorems.  `SharedStateTypeOK` speaks of closures, packages, dictionaries, the loader and files; the tables, the options and the program have their types in `TableInv`, `OptionsInv` and `CommandInv` |
| `FileWriterSafe` | a writer gets past its writes only with the whole file written (`Complete`), and the path moves to it in the step that makes it done |

`IInv` of `ControlStack` is stronger than what it is for: the chains alone are not inductive,
since a throw restores what its frame remembers, so each remembered state must be exact too.

Only model-checked:

- all liveness (`FreeMutexIsTaken`, `FreeLockIsTaken`, `ValuesKeepMoving`, `JoinsEnd`,
  `ForcesEnd`): the provers do not reach liveness under fairness;
- the run `data`, but for `BitVectorsAreSequences` and `CalendarSound`: its modules compute by recursion over data
  (`RECURSIVE` operators in `Reader`, `Strings`, `Formats`, `Evaluator`, `Json` and
  `Classes`, functions and folds elsewhere), of which the provers know nothing.

## 6. What is left out, and why

Not modelled:

- Sockets, streams, random-access files, zlib, sodium, curl, markdown, XML, the `os` module:
  one call of a library or of the kernel an operation.  Of path names, what the
  file system says of them.  Of regular expressions, the matcher, which is a library (here
  it matches the longest run of some characters, or an empty one), and substitution, which it
  does whole.  Digests and random numbers: fixed algorithms with published results.
- Dynamic variables and the package binding: unwind-protect forms of the runtime, which add
  nothing to the discipline of `ControlStack`.
- The debugger's own commands beyond a restart's choice and its nested return point;
  completion; the loop of the REPL over conditions, which it resets and signals again.
- The collector, but for weak keys that die at any moment.
- Failure of `pthread_create`; threads not made by ListTalk; a configuration without a
  debugger hook (`Interactive = FALSE` is in the model and the theorems, not in the runs).
- On a queue that mutexes share, whether the waiter of a mutex that is free is woken before
  other locks of the queue are released: `NoLostWakeup` promises that somebody comes to the
  queue, and for a queue of one mutex that it is for that mutex.
- A method cache: `Class.c:1470` fills one, but a hit walks the precedence list as well, so
  a stale entry cannot show.

Simplified:

- `FileWriter`: the code does not call fsync, so what a power failure leaves is not said.
- `Numbers`: infinities, not-a-number and the sign of zero; transcendental functions.
- `Calendar`: the range of years of `gmtime_r`; seconds past a fixnum, which no year of a
  date-time reaches; fractions of a microsecond (one of 999999.9999995 or more prints without its
  fraction, `DateTime.c:301`); a leap second reads as the first of the next minute.
- `Lists`: a map stage whose callable throws; the inner iterator used after it was wrapped.
- `Options`: ready-made callbacks of one parser raced by two parses, which write the same
  places; string lists gather over parses.
- `Json`: digits of a float past those that tell it from others (`Number.c:213` prints them
  without a fraction when there is none, so `7.0` comes back exact), and `strtod`'s range
  errors.  The order of a dictionary's entries is any.
- `Evaluator`: the effects of a macro's expander when a body is folded, and throws and
  handlers, which are those of `ControlStack`.  `Closures` alone has threads.

Where the code does not keep the promise of a property, the property has a hypothesis:

- `AnswersAreCurrent` (`raced`): a recompilation that stores after a younger one, a variable
  that becomes constant between the compiler's two reads, a new nearer binding, for which
  no epoch is counted.  The excuse ends with the next change that the epoch counts
  (`Recovers`).
- `LoadedOnce` (`again`): two threads that find a module missing at once, a provide lost to
  another, a body that throws before it provides.  Each is charged one load.
- `SymbolsSound`: a symbol whose package is hidden by a nickname of the package it is read in.
- `EqualNumbersHashAlike`: an exact number that is no fixnum and the float equal to it hash
  apart (`Number.c:602`); the property says exactly which pairs do.
- `LazyIsEager`: an item that changes after a filter has looked at it is handed out as it is at
  its use, whatever the filter said of it (`Iterator.c:586`).
- `StayersVisitedOnce` (`grown`): an iterator over a table that grew.
- `CompiledMeansSource` (`exempt`): a definition inside a body of a name that is a constant
  outside; a constant replaced while a folded body runs; a macro that comes after the
  folding of a call of it; a constant macro that expands to an atom; malformed forms, which
  are signalled when the function is made.  Not in the programs: a constant whose value is
  a symbol, which is folded to the bare symbol (`compiler.c:224`), a shadowed `quote`, a
  cond clause that looks like a pure call.
- `ReadsAsFile`: forms are compared up to the first error, and up to and with the first form
  that another byte than white space follows.  `LT_ReaderStream_stringOffset` (`reader.c:2211`)
  does not count back a byte that was pushed back, so of `a(b)` on one line the parenthesis is
  lost.  An end of input in a dotted tail is a plain error and the REPL
  drops the form (`reader.c:1781`).
- `ParsedAsMeant`: a required argument added during a parse is missed only if the parser had
  none before; after an argument that takes several values no other is reached.

Hazards that no property covers, or covers in part, carry a note in `PROJECT.json` that says
why: among them exports and unexports of a package at the same time, and the two deadlocks
that are hypotheses of `JoinsEnd` and `ForcesEnd`.  Contracts
the code leaves to its caller (unlock by a thread that does not hold the mutex) and behaviours
nothing promises against (a second signal overwrites the first, readers that starve a writer,
a handler that runs inside itself) are in the models and forbidden by nothing.

## 7. Plan

1. Done: words, monitor, read-write word, queue, thread, promise, control stack; closures,
   packages, tables, loader, file writer, options and driver; the computations of `data`;
   the theorems of section 5.
2. Next to model: the debugger's nested prompt in `ControlStack`; buffered streams
   (`Stream.c`).
3. Next to prove: `WalksAreFolds` and `LazyIsEager` of `Lists`, whose module has no
   `RECURSIVE` operator.  They need, for each of its folds, a recursive function with the
   same values, as `RolesAre` gives for `Roles`.
4. A composition of `Evaluator` with `Closures`: threads that run folded bodies of any form.

## 8. Running

`tlc -config X.cfg M` for the pairs of section 3 as listed in `PROJECT.json`; the longest,
`data` and `shared_state` (2.2 million states), take two to four minutes each with two
workers.  `tlapm M.tla` for the eight modules with theorems; the largest, `Driver_proofs`, takes
thirteen minutes from nothing, `SharedState_proofs` ten to twelve, `Data_proofs` three, the
others two or less.
