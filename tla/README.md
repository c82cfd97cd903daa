# A formal model of project-tool

The repository is a collection of C and C++ components for Windows clients: a
slice of log4cplus (reference counting, threads, synchronisation, sockets,
diagnostic contexts, time), a wrapper of SQLite, lockers and thread classes for
Windows, streams and wire commands for a phone protocol, statistics of a
video-on-demand log, and some small helpers. There is no main program but the
log statistics; the components are used by others. This directory models them,
checks the models with TLC on small instances and proves the most important
results with TLAPS for every instance.

## 1. Inventory

### 1.1 Components

| Component (source) | State | Operations | What makes it correct |
|---|---|---|---|
| **Shared objects** `log4cplus/pointer.h`, `pointer.cxx` | `count`, `access_mutex` of each object; `pointee` of each smart pointer | construct, copy, assign, destroy a pointer; `addReference`, `removeReference` | the count is the number of owners; nobody touches a freed object; the object is freed once |
| **Thread objects** `log4cplus/threads.cxx`, `threads.h` | `flags`, `handle`, the count of the base class | `start`, `join`, worker function, destructor | the object outlives the kernel thread and is freed after it; the flags are truthful; the kernel thread is joined or detached once |
| **Manual-reset event** `log4cplus/syncprims-pthreads.h`, `syncprims.h` | `mtx`, `cv`, `signaled`, `sigcount` | `signal`, `reset`, `wait`, `timed_wait` | no lost signal, no spurious return, the mutex is always given back |
| **Winsock start-up** `log4cplus/socket-win32.cxx` | `winsock_state` | `init_winsock`, the static destructor | started once, nobody passes before that, nobody waits for ever |
| **Sockets** `log4cplus/socket.cxx`, `socket-win32.cxx` | `sock`, `state`, `err` | constructors, `accept`, `read`, `write`, `close`, copy, assign, destroy | each open handle has one owner |
| **Socket buffers** `log4cplus/socketbuffer.*` | a buffer, its size and one position | append and read of fields, copies, a message sent and received | what is read is what was appended, or the message is not received |
| **Diagnostic contexts** `log4cplus/ndc.cxx`, `ndc.h` | a thread-local pointer to a stack of contexts | `push`, `pop`, `clear`, `remove`, `inherit`, `cloneStack`, `setMaxDepth`, `NDCContextCreator` | stacks belong to one thread and are not lost; a context prints its whole chain |
| **Transactions** `SqliteOperator.cpp` | `m_commited`; `_stmt_ptr`, `_cur_bind` | `AutoTransaction`, `Commit`, `~AutoTransaction`; `PrepareSQL`, `Next`, `Execute`, `Reset` | a scope is a transaction: all or nothing, and it leaves no lock |
| **Database handles** `SqliteOperator.cpp`, `.h` | `_ref_count`, `_sqlite_db` | open, close, copy, assign, destroy, prepare | closed once, after the last copy |
| **Windows lockers** `win_sync_func.h` | a handle, `_wait_time`, `_wait_ret` | `lock`, `unlock`, `try_lock`, `wait_for_locker`, `scoped_lock_t` | a locker excludes, and everybody who waits gets in |
| **Windows threads** `win_thread_class.h` | a thread handle, the derived object | construct, copy, `suspend`, `resume`, wait, destroy; the thread | the derived object exists while the thread runs in it |
| **Windows timers** `win_timer_class.h` | a timer handle | start, stop, callback | the object exists while the callback runs |
| **Byte-order streams** `TransByteOrderStream.*` | a cursor, what is left, two counters | the operators for numbers, strings and vectors, `reset` | the cursor stays in the buffer; what is read is what was written |
| **Wire commands** `MobileCommands.*` | the fields of 17 requests and responses | `SetData`, `Encode`, `Decode`, `Length` | three hand-written views of each command agree |
| **Output buffer** `cout_buffer.h` | `_buffer`, `_read_pos`, `_write_pos` | insert, extract, `reserve`, `reset` | first in, first out, however it grows |
| **Range lists** `range_func_test.c` | a list of ranges | `range_complete`, `range_list_is_head_relevant` | the answer is about positions |
| **Time** `log4cplus/timehelper.*` | seconds and microseconds | arithmetic, comparison, `getFormattedTime` | comparisons order instants; a format prints its items |
| **Video-on-demand statistics** `handle_vod_stat.cpp` | a bundle per machine and download mode, the result file | the program, the single statistics, three tools | each number is that of the lines it claims to be about |
| **Encoders** `base64.cpp`, `base64_code.c`, `utf8.c` | `g_base64_table` | encode, decode | a round trip is the identity; nothing is written behind the buffer |
| **Strings** `log4cplus/stringhelper.*`, `c_single_file.h` | none | `tostring`, `towstring`, `tokenize`, `trim_tstring` | text is kept |
| files, directories, stopwatch, configuration | none worth a model | wrappers of the system's API | |

### 1.2 How they interact

* An `AbstractThread` *is a* `SharedObject`: `start()` takes a reference for the
  kernel thread, which takes its own through an `AbstractThreadPtr` and gives
  `start()`'s back (`threads.cxx:266`, `:198-201`).
* The worker function calls `getNDC().remove()` as it ends (`threads.cxx:218`),
  the only automatic clean-up of a thread's diagnostic context.
* `SharedObject` uses the `Mutex` and the guard of `syncprims.h`;
  `ManualResetEvent::timed_wait` uses the time arithmetic of `timehelper.cxx` to
  compute its deadline.
* Every function of `socket-win32.cxx` that makes a socket calls `init_winsock()`;
  `Socket::read` and `write` carry the memory of a `SocketBuffer`.
* Every command of `MobileCommands.cpp` makes a stream of `TransByteOrderStream.h`
  per class of its hierarchy, on what the base class has left of the buffer.
* `CSqliteOperator` prepares statements on the connection of a `CSqliteDb`; the
  objects of several connections meet in SQLite's file locks only.
* The runs of the log statistics meet in the result file, which the tools read.

### 1.3 What is hard

Concurrency: the interleavings of counting, starting, joining and signalling;
unsynchronised `flags`; spinning on `winsock_state`; several connections to one
file; a base-class constructor that starts the thread of the derived object.
Failure: `pthread_create`, `WSAStartup`, `bind`, `connect`, `new`, `BEGIN`,
`END`; messages that are cut off or do not fit. Ordering: `signal` directly
followed by `reset`; `delete this` after the unlock; the last pointer dropped
while the kernel thread is being created; log lines and fields in another order
than expected. Timeouts: `timed_wait`, the second try of `Execute`. Numeric
edges: a whole second of microseconds, lengths that wrap, a buffer that is exactly
full. Stale state: buffers that grow, tables that keys overwrite, copies of
handles. `PROJECT.json` lists each hazard at its line with the properties that
would notice it.

## 2. Modules

The build modelled is log4cplus with `LOG4CPLUS_USE_PTHREADS` for threads and
synchronisation, the Windows sockets, no `UNICODE`, and
`LOG4CPLUS_WORKING_LOCALE` with a UTF-8 locale. One module is of the build with
`UNICODE`: `tostring` and `towstring` (`stringhelper.cxx:78-344`), which `Text`
models, are not compiled without it.

| Module | Models | Checked by | Proved in |
|---|---|---|---|
| `ObjectLifetime` | what sharing promises, without counters | as a property of two runs | |
| `SharedObject` | `pointer.h`, `pointer.cxx` | `shared_object` | `SharedObjectProofs` |
| `ThreadLifecycle` | `threads.cxx` (pthreads) | `thread_lifecycle` | `ThreadLifecycleProofs` |
| `ResetEvent` | what a manual-reset event promises | as a property of `manual_reset_event` | |
| `ManualResetEvent` | `syncprims-pthreads.h` | `manual_reset_event` | `ThreadLifecycleProofs` |
| `WinSock` | `init_winsock()` | `winsock_failed_start`, and within `Sockets` | `SocketsProofs` |
| `Sockets` | `socket.cxx` over `WinSock` | `sockets` | `SocketsProofs` |
| `NDC` | `ndc.cxx` | `ndc` | `ThreadLifecycleProofs` |
| `WinLockers` | `win_sync_func.h` | `win_lockers`, `win_event_timed` | `WinLockersProofs` |
| `SqliteEngine` | SQLite's locks and transactions (external) | within `AutoTransaction` | `ToolboxProofs` |
| `AutoTransaction` | `SqliteOperator.cpp` over `SqliteEngine` | `auto_transaction` | `ToolboxProofs` |
| `ByteStream` | `TransByteOrderStream.*` | within `Commands` | `ByteStreamProofs`, `CommandsProofs` |
| `CommandTable` | the fields of all commands, `MobileCommands.*` | within `Commands` | `CommandsProofs` |
| `Commands` | encoding and decoding, `MobileCommands.*` | `commands` | `CommandsProofs`, over `FoldInduction` |
| `VodStat` | `handle_vod_stat.cpp` | `vod_stat` | |
| `TimeArith` | `timehelper.*` | `toolbox` | `ToolboxProofs` |
| `Ranges` | `range_func_test.c` | `toolbox` | `ToolboxProofs` |
| `SocketBuffers` | `socketbuffer.*` with `Socket::read`, `write` | `toolbox` | `SocketsProofs`, over `ByteStreamProofs` |
| `CoutBuffer` | `cout_buffer.h` | `toolbox` | `SocketsProofs`, over `ByteStreamProofs` |
| `Base64` | `base64.cpp`, `base64_code.c` | `toolbox` | |
| `Text` | `utf8.c`, `stringhelper.*`, `trim_tstring` | `toolbox` | |
| `DbHandles` | `CSqliteDb`, `SqliteDbImpl` | `toolbox` | `ToolboxProofs` |
| `WinThread` | `win_thread_class.h` | `toolbox` | `ToolboxProofs` |
| `Toolbox` | the choice of one of the eight above | `toolbox` | |

For each property the project has a mutated form of one operator of the model
that makes it fail: a wait that is forgotten, a swapped pair of fields, a count
that is not kept, a buffer that grows without its contents. These operators
stand before the one they are a form of, no action uses them, and
`PROJECT.json` ("mutants") pairs them with their properties.

### State and actions against the code

**SharedObject.** `op[t]` is a thread's program counter inside an operation
together with the locals that matter: `tmp` is the unnamed smart pointer that
`operator=` swaps with its left-hand side, `mode` tells `addReference` from
`removeReference` and holds the local `destroy`, `reg` is the loaded count.
`Lock`, `Load`, `Store`, `Unlock` are the statements of both functions; `Delete`
is `delete this`, behind the unlock as in the code. A thread writes a smart
pointer variable only while no other uses it, as C++ demands.

**ThreadLifecycle.** `addReference` and `removeReference` are one step each,
which `SharedObject` justifies. `|=` and `&=` on `flags` are two steps, since
nothing guards them. `handle` is `Null` while uninitialised. `reclaimed` counts
joins and detaches of each kernel thread.

**ManualResetEvent.** Each method is a lock step, a body, and a release.
`pthread_cond_wait` gives up the mutex and sleeps in one step and wakes through
`Signal`, `Spurious` or `Timeout`. `BadDeadline` is the error path of
`timed_wait`, which an unnormalised time reaches. The history variable `granted`
says whose wait is justified.

**WinSock** and **Sockets.** Every interlocked operation is one step.
`Sockets` extends `WinSock` and adds the objects and the system's handles; a
closed number is given out again. `SetUpLeaks` is the code's behaviour: two
failure paths do not close the handle.

**NDC.** A block is the address of a stack; the thread-local pointer may dangle
after a failed `inherit()`, from when on the thread is `"undefined"` and nothing
is claimed of it. A failing allocation may happen wherever the code allocates,
and every method swallows it.

**WinLockers.** One module for the four classes: `owner` and `depth` are the state
of a mutex or critical section, `permits` that of an event or semaphore. `lock()`
is a wait that stores its result in `_wait_ret` (`WaitReturns`, `TimesOut`), for an
event the unconditional `ResetEvent`, and the test of `_wait_ret` (`Check`), which
may read what another thread stored; where no call lies between store and test the
compiler may as well use the value it stored. `timed` are the lockers with a
finite `_wait_time`. `Die` terminates a thread in its scope. A thread that calls
`lock()` holds nothing else.

**AutoTransaction.** A thread runs scopes: construct, select a row, update two
rows (the second perhaps inside a nested `AutoTransaction`), commit, finalize,
destroy, with exceptions between the statements. `SqliteEngine` gives the
results: file locks from `NONE` to `EXCLUSIVE`, `SQLITE_BUSY`, errors.

**ByteStream**, **CommandTable** and **Commands.** A stream is a record, its
operators are functions from streams to streams. The code of the 17 commands is
three lists of fields each, which the table has as data: what the struct
declares, what `TransByteOrderAndWrite` or `AndRead` moves, what `Length()` adds
up. One interpreter walks them. Where the code departs from the scheme (a field
that is moved the wrong way, `sizeof` of a string object) the table says so. The
phone at the other end is not in the repository; it reads and writes what the
structs declare. Uninitialised memory and variables are `Junk`. `asserts` is set
when an `assert(false)` is reached; a release build goes on, and so does the model.

**VodStat.** A line is a sequence of fields; every search goes forward from where
the last one ended, as the code's `find` does, and a field that is missing leads
to a place near the front of the line (`npos + size()`). The program tests for
that everywhere but at `cc` and at the `playtype` of a `firstbuffer` line; what
stands at these two places is the line's `wrapped`. `ReadLine`, `EndOfInput`
and `NextRun` are the program; the other actions use a tool on what it left.

**Toolbox.** Eight helpers that share no state. `task` chooses one at the start of
a behaviour, the others stutter. In it:
*TimeArith* has two `Time` objects and its operators; `signed` remembers a division
of a negative time or an overflow, of which C says nothing good. The walk of
`getFormattedTime` is `Walk`, the loop that doubles the buffer `Formatted`.
*Ranges* computes the end of a range modulo 2^32 (`U32`), and `LookUp` asks the list.
*SocketBuffers* has two buffers of the sender, the bytes on the wire and the
reader's buffer; `Send` lets some of the frame arrive.
*CoutBuffer* is the buffer with what is owed to its reader.
*Base64* has the tables of two processes, which keys overwrite for good.
*Text* makes narrow and wide texts of each other with buffers of several sizes;
`touched` is how many elements a function writes.
*DbHandles*: a handle points to an object with a count; `Dropped` is the destructor
of `CSqliteDb`, which counts down, deletes, and thereby counts down again. Who
follows a dangling or null pointer ends the behaviour (`undefined`).
*WinThread*: `New` and `Constructed` are the two halves of a construction, `Delete`
and `Deleted` those of a destruction; `launch` and `thread_proc` are the thread,
which finds the derived object, only its base, or nothing. A handle is a number,
`opened` the thread it names; a closed number is given to the next thread, so that
the copy of an object that is gone may close, wait for or suspend a thread that has
nothing to do with it (`shared` remembers whose number a second object had).

## 3. Runs

| Run | Instance | Shows |
|---|---|---|
| `shared_object` | 2 threads, 3 pointers, 2 objects | `CountIsExact`, `NoUseAfterFree`, and `ObjectLifetime` with its liveness |
| `thread_lifecycle` | 2 clients, 2 kernel threads, 2 starts | `RunningFlagTruthful`, `ReclaimedOnce`, `EventuallyFreed`, `ObjectLifetime` |
| `manual_reset_event` | 2 threads, counter modulo 3 | `NoUnjustifiedReturn`, `CounterTellsSignals`, `ResetEvent` with its liveness, `TimedWaitEnds` |
| `sockets` | 2 threads, 3 objects, 2 handles, 1 failed start | `StartedOnce`, `HandlesAccounted`, `CallsEnd` |
| `ndc` | 2 threads, depth 2, 2 messages, 1 failed allocation per thread | `StacksOwned`, `ContextsChained`, `ScopesNest` |
| `auto_transaction` | 2 connections, 3 scopes, 1 I/O error | `AllOrNothing`, `ScopeIsTransaction`, `NoLockLeft`, `ScopesEnd` |
| `win_lockers` | 2 threads, 2 lockers of any two classes, 1 terminated thread | `MutualExclusion`, `WaitersGetIn` |
| `commands` | 17 commands, empty and full, 5 buffer lengths, 5 lengths of arrival | `StreamInBuffer`, `LengthIsExact`, `RequestReadable`, `ResponseReadable`, `NoSilentTruncation` |
| `vod_stat` | 14 lines, 3 of them in 3 runs, 2 machines | `StatsAreOfTheLog`, `PlaytimeReaches`, `ToolsAgree` |
| `toolbox` | below | `TimesOrdered`, `TimeTold`, `RangesTold`, `MessageRead`, `FirstInFirstOut`, `RoundTrip`, `TextKept`, `ConnectionsShared`, `ThreadsSeeTheirObject` |
| `winsock_failed_start` | 2 threads, 1 failed start | `WaitersThrow` **fails**: a waiter hits `assert (0)` |
| `win_event_timed` | 2 threads, 1 locker, none terminated | `UnusedEventIsSet` **fails**: a time-out steals the signal |

The last two state what a comment says and show that the code does otherwise;
`PROJECT.json` quotes the lines. Many properties of the other runs are of the form
"right, exactly but for": `LengthIsExact` names the two requests whose length is
wrong, `RoundTrip` says when a key is safe, `ConnectionsShared` which copies of a
handle are lost, `ThreadsSeeTheirObject` what an owner must do for its thread.
The findings that came up while modelling are listed with the definition that
shows them.

**Bounds.** Two threads are enough for every race here: each hazard is between
one thread and another, and where more could matter (reference counts, the
event, Winsock and its handles, lockers, clients and kernel threads of a thread
object, diagnostic contexts of any depth, connections to a file, handles of
databases) the proofs cover any number. Three pointers give a variable, its copy and a third owner; two
objects let one assignment drop one object and share the other. Three thread objects
with two handle numbers are a thread, the copy of its object and a stranger that is
given the number. Two starts give a
restart that overlaps the first run. A counter modulo 3 wraps within a few
signals. Two handles are reused at once. Depth 2 has an inner and an outer context
and truncation between them. Three scopes of two connections let one thread commit
twice around another. `WinLockers`' `MaxDepth` stops a thread that takes, time and
again, a mutex it owns without having been told: without time limits and
terminated threads the depth is 1.

TLC's integers have 32 bits, so bytes are made smaller: a byte is a digit of base
4 in `commands`, in the message buffers and in the output buffer (`Byte`), 64-bit
numbers then have 16 bits; base64 works on bytes of four bits and eight
characters (`Q = 1`: the shifts scale with it); a second has 2^6 microseconds,
with digits of base 2 and `LongMax` 150, so that `*=` and `/=` overflow; positions of ranges
are modulo 9, so that ends wrap. None of these numbers is compared with another
kind of number in the code. Buffers are given the sizes around what is needed:
exact, one less, none, some to spare; messages arrive whole, without their last
byte, with their header only, not at all. Three nodes of a list leave a gap on each
side of a middle one; two waiting things make the output buffer grow with
unread data in it, `MaxWritten` stops it; three operators of time make an
unnormalised sum and compare, divide and print it (`MaxSteps`). Three lines of a
log are an interruption, its playing time and a third line before, between or
behind them. Three handles make the copy of a copy that never closes a
connection. `MaxThings`, `MaxReads`, `MaxCalls`, `MaxStmts`, `MaxSuspends`,
`MaxNodes`, `MaxLines` and the bounds of the other modules `MaxStarts`,
`MaxFailures`, `MaxErrors`, `MaxScopes`, `MaxDeaths` are in the guards of the
actions that count.

**Deadlock** is checked in `shared_object` and `manual_reset_event`. In the other
runs the program may really stop: all scopes used up, all threads ended, a message
read, a helper no longer used.

**Fairness.** A thread inside a call is scheduled (`WF` of its continuation); a
client is never forced to make a call. `::accept` on an open server, the name lookup
and `::connect` wait for a peer, and nothing makes the peer answer: `Sockets` has no
fairness for them, only for the steps that wait for nobody or for other threads
(`Local`), and `CallsEnd` promises an end or that wait (`Blocked`). Mutexes are not fair, so taking one is
strongly fair only for the single thread that tries time and again. A
`timed_wait` has an absolute deadline, hence `SF` of `Timeout`. `run()` is assumed
to return. A wait for a locker that could succeed time and again does (`SF` of
`Wait` in `WinLockers`): the system queues the waiters of an object. The loops
that repeat a busy `BEGIN` or `END` are weakly fair: they succeed when the lock
stays free. The modules of `commands`, `vod_stat` and `toolbox` are sequential
and promise nothing about progress: no fairness is assumed there.

## 4. Proofs

All proofs are for any values of the constants, under the named assumptions of
the modules: finite sets where a cardinality is taken, `Null`, `Nobody` and `Dead`
outside the sets, `CountMod` at least 2, microseconds of the clock below a second,
bounds such as `MaxScopes` natural numbers. The bounds that keep TLC's state
spaces finite (`MaxStarts`, `MaxScopes`, `MaxErrors`, `MaxDepth`, `MaxFailures`, ...)
are any numbers there. Every inductive invariant was model-checked on the instance
of the module's run before it was proved, but for those of `CoutBuffer` and
`SocketBuffers`: they speak of boundaries in the memory (`\E p`), for which TLC has no
set to enumerate, so that TLC has checked there only the property that follows.

* **`SharedObjectProofs`**: `TypeCorrect`, `CountsAreExact`, `MemorySafe`,
  `AssertsHold`, `SmartPointersShare`. `CountIsExact` is not inductive: a thread
  that has loaded the count must find it unchanged when it stores. The invariant
  `IInv` adds that the mutex is held exactly between `Lock` and `Unlock`, that
  `reg` equals the count at `Store`, that everything referred to is alive, that a
  temporary not counted yet is covered by the pointer it is copied from, and that
  a doomed object has nobody but its destroyer. The heart is the lemmas on how
  each action changes the set of owners (`Holders`): by one element at most. The
  refinement has one lemma per action, which maps it to a step of
  `ObjectLifetime` or to a stutter.
* **`SocketsProofs`**: `WinsockStartsOnce`, `ExchangeAssertsHold`, `TypeCorrect`,
  `HandlesHaveOneOwner`, `QueueIsKept`, `MessagesArrive`. The invariant of the start
  says that one thread at most is between its winning compare-and-exchange and
  its own second one, that `winsock_state` is `WS_INITIALIZING` exactly then, and
  how often Winsock is started at each place. It is proved of `WinSock` and
  carried over to `Sockets` by `SocketsUseWinSock`: every step of a socket
  operation is a step of `init_winsock()` or leaves it alone. For the handles,
  the invariant says without counting what `HandlesAccounted` counts (`OwnInv`),
  and needs to know that a call constructs an object that no other call
  constructs and nobody uses yet (`CallInv`).
  The two buffers of bytes have their sections here as well.
  *CoutBuffer*, `QueueIsKept`, which is `FirstInFirstOut` for any things: `Queue` says
  that what is owed lies in the memory, one thing behind the other, between the read
  and the write position, and `HoldsThing` what a thing looks like there: a number
  in its bytes, a string behind its length, a vector as its length and elements with
  boundaries of their own. Every way to write *extends* the memory (`Extends`): what was held
  stays where it is, also when the buffer is replaced by a larger one, hence so
  does the queue. Reading a thing that is held gives its value and moves to its end;
  reading from nothing moves nothing, whatever was left in the variable that takes
  the length. The assumption `ThingsAssumption` is that numbers and lengths fit an
  `unsigned`. The positions are numbers without an end: that a buffer of 4 GB would wrap
  them is not claimed to be harmless.
  *SocketBuffers*, `MessagesArrive`, which is `MessageRead` for any items and sizes.
  Until something is sent (`Composing`), each of the sender's buffers holds the items
  it has taken, one behind the other, between boundaries as in `CoutBuffer`: an item
  that fits extends the memory, one that does not changes nothing, a copy takes the
  memory over, and an appended buffer moves its items behind those that are held. After that
  (`Sent`) what arrives is the rest of a frame, the size of the message and then the
  message, cut off wherever the connection breaks. Each half is received whole or
  the buffer is closed and empty. A reader that has asked for the types that were appended
  stands at the boundary of the next item, reads it whole, and is not cut short; one that
  asks for other types reads something else but stays within the buffer. The assumption is
  that sizes fit the four bytes they are sent in and items fit their types
  (`SocketBuffersAssumption`, `MessagesAssumption`).
* **`WinLockersProofs`**: `TypeCorrect`, `LockersExclude`. A thread *uses* a locker
  from the return of its wait until its `unlock()` (`Uses`), which begins before
  it is told. The invariant says who uses what: an owned locker belongs to
  its user (`OwnerInv`), an event or semaphore has one permit or one user
  (`PermitInv`), and, until a thread is terminated, the result of a wait stays in
  the shared `_wait_ret` until it is tested (`ResultInv`) and nobody owns a locker
  without using it, or twice (`DepthInv`).
* **`ThreadLifecycleProofs`**: `TypeCorrect`, `CountIsExact`,
  `ObjectOutlivesItsUsers`, `RunningFlagIsTruthful`, `ThreadReclaimedOnce`,
  `ThreadObjectIsShared`. For any number of starts: the count is the number of
  references (`CountInv`; the lemma `Moved` says what a step of one agent does to
  them, and `CreateOkStep` that `pthread_create` hands one over), every call is
  made through a pointer of the caller (`CallInv`), and an object without
  references has exactly one agent left, which adopts or deletes it (`LifeInv`).
  From these follow that the object outlives everybody who is inside one of its
  functions and that each step is one of `ObjectLifetime`: `Stages` tells from the
  count which stage has been reached. The flags and the reclaiming of the kernel
  thread are claimed for one call of `start()`, as the two properties say, and need the
  rest (`OneStart`): before, during and after the call, and of the join, there is
  one phase at a time (`PhaseInv`); nobody stores into `flags` between another's
  load and store (`StoreInv`); `fJOINED` is set exactly when the one join has
  returned (`JoinInv`); and what the destructor did (`FreedInv`). With overlapping
  starts these parts are false, which is why they stand under `starts <= 1`.
  The module also proves, of `ManualResetEvent`, the primitive such threads wait on:
  `EventTypeCorrect`, `GuardsAreBalanced`, `NoSpuriousReturn`, `NoLostSignal`,
  `IsManualResetEvent`. That invariant (`EventIInv`) adds what
  holds before a wait begins (`Fresh`), that a thread about to signal has seen
  that the counter may move (`SignalSafe`), and that only `timed_wait` times out.
  The one assumption on the environment is `CountModSuffices`: fewer than
  `CountMod` (2^32) signals during one wait.
  A section of its own is about *NDC*, whose stacks such a thread frees as it ends:
  `NDCTypeCorrect`, `StacksHaveOwners`, `ContextsPrintTheirChain`,
  `ScopesAreNested`. Pointers and allocated blocks correspond one to one
  (`PointersInv`), the clone is chained too (`ChainInv`), only a thread with a failed
  allocation can have lost its stack (`StatusInv`), and the messages of a scoped
  thread are its scopes (`NestInv`). `PushChains` and `PrefixChained` are the lemmas
  on stacks; `AllocateStep`, `FreeStep`, `UpdateStep` say once what the three ways to
  change the heap do, and the lemma of each method names the one it takes.
* **`ToolboxProofs`**: `HandlesShareConnections`, `ThreadsFindTheirObject`,
  `ToldRight`, `MicrosecondsInRange`, `ComparisonsOrder`.
  *DbHandles*: each object is `Sound`: a
  live one counts its holders; of a deleted one the number of holders at that
  moment decides what was left, since the double count-down closes the connection
  at 1 and at 2 and passes 0 above that. Each action changes the holders of one or
  two objects by one handle, which lemmas on cardinalities turn into the counts.
  *WinThread*, with any number of objects and of handle numbers that are given
  again and again: the heart of the invariant is that an open number which names a thread that
  never shared it is held by that thread's object and by no other (`SoleInv`), so that
  nobody else can close, suspend or resume it. From it follow what a wait has shown (the
  thread is over, unless its number was shared: `WaitedInv`) and that a thread whose object
  is gone without having been waited for or held is among `alone` (`AloneInv`).
  *Ranges*, for any list and any width of integers: ends
  without wrapping turn the six answers of `range_complete` into inequalities;
  the list rises, so that the least node that is not wholly to the left decides
  (`WFMin`): every node before it ends too early, every node behind it begins
  too late.
  *TimeArith*: every operator
  keeps the microseconds between 0 and a whole second, that end included, for any
  base and any clock; this rests on a lemma on the remainder of a division. The
  order of two times is then that of their instants.
  *AutoTransaction* over *SqliteEngine*: `TypeCorrect`, `ScopesAreTransactions`,
  `NoLockStays`, `TransactionsAreAtomic`. `AllOrNothing` looks at the file alone; the invariant adds
  what each connection has seen and written by each place of its scope (`Saw` in
  `DataInv`): a reader that still has its lock has seen the current rows, and from
  the first change on it is the only writer, so that nobody commits between its read and
  its `END`. `OpenInv` ties the open transactions to the two flags `m_commited`, and
  `FlagsInv` says that a nested object owns a transaction only if the outer one's
  `BEGIN` has failed.
* **`ByteStreamProofs`**: the lemmas on one stream and on numbers in bytes that
  `CommandsProofs` and `SocketsProofs` share. `NtohOfHton`, for any base: the bytes of a number, read
  in the order in which they are written, are the number. `Hton` divides by powers of the
  base and `Ntoh` adds up multiples of them, for each of the four widths;
  `DivisionWhole` and `DivisionTwice` are the facts on `\div` and `%` that this needs.
* **`FoldInduction`**: what a left fold over a sequence computes, and a fold over a
  finite set, for any step. A theorem cannot take an operator that the provers are
  to find, so the step is a *constant* of this module; a module that reasons about a
  fold of its own writes `INSTANCE FoldInduction WITH Step <- ...` and the concrete
  fold unfolds to the instance's. `FoldInvariant`: a family of sets, one for each
  number of elements, that holds the base and is kept by every step holds the
  result. It follows from `FoldPrefixes`: a fold over a sequence goes through one
  value per prefix, each a step from the one before. `FoldOverSetAdd`: a fold over a
  finite set, which takes one chosen member after the other, grows by one step when
  a member is added, whichever is chosen, if the steps commute. The recursive function under the fold exists by induction on the
  cardinality of its argument, which itself rests on the least member of a set of
  numbers (`WFMin`), not on the library's induction rules.
* **`CommandsProofs`**: `BufferKept` and `MessageLengths`. For every base of the bytes, every size of
  `size_t` and of `std::string`, every way to fill in the fields and every content of
  uninitialised memory, `StreamInBuffer` holds of all seventeen commands. The
  invariant `IInv` says that the objects under way hold values of the types their
  structs declare, that what is on the wire is bytes, and that the last stream is one
  on the buffer the handler was told. Under it stands one lemma per operator of
  the stream (`<<` and `>>` of numbers, strings, vectors, structs), each of which
  yields a stream on the same buffer, then one per command table (each field that is
  moved is declared), per class and per action.
  `MessageLengths` is `LengthIsExact`: each `<<` moves the cursor by what
  `TransByteOrder_GetLength` counts for the value, or meets an assertion, so that the
  bytes written are a sum *along the list* of the fields that are moved, and
  `Length()` is a sum *over the set* of the fields that are added up. The two are
  equal because every field that is counted stands in the list once and the order of
  a sum does not matter (`FoldOverSetAdd`). The theorem supposes that `size_t` has
  the four bytes that a string's length is written with, as in the Win32 build, and
  that `sizeof(std::string)` is not four, which no library has: with an eight-byte
  `size_t` every request with a string would carry too large a length.

What stays with TLC. Liveness (`EventuallyFreed`, `TimedWaitEnds`, `CallsEnd`,
`ScopesEnd`, `WaitersGetIn` and the liveness parts of the two refinements), since
fairness and `ENABLED` are out of the prover's reach. What is computed
by folds over data (`RequestReadable`, `ResponseReadable` and `NoSilentTruncation`
of `commands`, `TimeTold`, `TextKept`,
all of `vod_stat`): a proof would need to know the value of each fold, which a second
fold then undoes; and `RoundTrip`, which rests on bitwise
operators. Nothing is claimed of `flags` and
of the reclaiming of kernel threads when several calls of `start()` overlap: updates
are lost then, and the handle of the first thread is overwritten.

## 5. Not modelled

* The Windows variants of the log4cplus primitives: one API call per method, and
  the event promises what `ResetEvent` does. `Semaphore` wraps `sem_t`.
* The timer classes of `win_timer_class.h`: wrappers of multimedia and waitable
  timers; what went wrong in them is a matter of arguments, see the findings.
* `stat_func_list.cpp`: a batch count of identifiers; the file and directory
  helpers but `trim_tstring`; `ElapsedTimer`: pure input and output.
* `strftime` is external; `gmtime`, `localtime`, `setTime(tm)`, `toUpper` and
  `toLower` call the C library and do nothing else.
* The binding and column operators of `CSqliteOperator` and `CSqliteMutex`: one
  call of SQLite per operator.
* Named objects, `event::reset`, `semaphore::release(n)` and nested scopes of the
  Windows lockers; the thread name, `yield`, `sleep` and signal masks of
  `threads.cxx`.
* Vendored code (`sqlite/sqlite3.h`) appears only as the external `SqliteEngine`;
  the configuration headers only as the build that is named in section 2.

## 6. Plan

Done, in the order in which the behaviour matters: the objects with state of their
own and their threads first, then the streams and commands, then the helpers.
What would come next:

1. That what is written is what is read (`RequestReadable`, `ResponseReadable`): the
   getter of each type undoes its putter on the bytes that were put, along the
   lists of fields with `FoldInduction`, as `QueueIsKept` does for one buffer.
2. `WinThread` with the timers of `win_timer_class.h` on top.
3. `stat_func_list.cpp` next to `VodStat`.
