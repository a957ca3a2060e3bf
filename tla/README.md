# eventdispatcher: a TLA+ verification project

`eventdispatcher` is a C++ library in which a process is one event loop,
`communicator::run()`, and a set of *connections*: sockets, pipes, signals,
timers, queues between threads. The loop waits in `poll()` and calls the
callbacks of the connections; the callbacks call back into the library. This
directory holds TLA+ models of the parts whose correctness depends on the order
in which these things happen, the TLC runs that check them and TLAPS proofs.

## The system

### Components, their state and their operations

| Component | State | Operations | What is hard |
|---|---|---|---|
| `communicator` | `f_connections`, `f_force_sort`, `f_running` | `add_connection()`, `remove_connection()`, `run()` | callbacks change the list, the flags and the timeouts that `run()` copied before `poll()` |
| `connection` | enabled, priority, date and delay timeouts, done flag | setters, default error callbacks | the schedule of ticks, stale timestamps |
| `timer` | a connection without a descriptor | `process_timeout()` | |
| `inter_thread_message_connection` | two FIFOs, two eventfd semaphores | `send_message()`, `poll()`, `process_read()`, `close()` | two threads; each queue is two objects |
| `tcp_client_permanent_message_connection` (and `local_stream_...`) | timer, messenger, cache, background thread, done flags | connect, retry, cache, flush, `disconnect()`, `mark_done()` | retries, a thread that ends late, callbacks that destroy their own object |
| buffered connections (TCP, local stream, pipe, fd) | output buffer and position, input line | `write()`, `process_read()`, `process_write()`, `process_hup()` | partial writes, lines cut anywhere, hang up with data left |
| `dispatcher`, `dispatcher_match` | matches by priority, the catch-all entry | `add_match()`, `remove_matches()`, `dispatch()`, `get_commands()` | which callbacks run, and in which order; definitions cached in a match |
| `connection_with_send_message` | commands, service | READY, HELP, STOP, QUITTING..., `register_service()`, `unregister_service()` | services that answer each other; what COMMANDS promises |
| `message`, `message_definition` | command, service, parameters, cached line | `to_string()`, `from_string()`, setters, verification | escaping, a cached line that is stale |
| `signal`, `signal_child` | the process-wide mask, listeners by child | `process_signal()`, listeners | one signal for several children, deaths that are not consumed, listeners changed in callbacks |
| `file_changed` | inotify watches by number | watch, merge, stop, `process_read()` | events of watches already removed, a queue that overflows |
| `socket_events` | objects that wait for a service, one listener for all | create, destroy, `lost_connection()`, `process_read()`, `process_write()`, `process_timeout()` | answers that are old when they are read, a listener that goes to sleep |
| `process_changed` | a netlink socket | `process_read()` | decoding of kernel structures |
| `cppprocess` | a pipeline of processes and their I/O | `start()`, `wait()`, callbacks | ends of pipes and of children in any order, inherited descriptors |
| `reporter` | program, state machine of a test script | lexer, parser, executor, instructions | a thread of its own that waits for connections and ends the loop of another |
| `snaplogger` | appenders, daemon | forwarding of log messages | reconnection |

Components interact by calls within one thread: `run()` calls the `process_*()`
callbacks; a permanent connection owns a messenger connection and the signal of a
background thread, all in the same communicator; a message connection hands its
messages over to a dispatcher; `wait()` of a process runs the communicator with
the pipes of the process and the `signal_child` singleton in it. Threads meet in
three places only: the inter-thread connection, the background thread of the
permanent connections and the background thread of the reporter, which stops the
communicator of the main thread through a pipe.

### What makes each modelled component correct

* **communicator**: every event `poll()` reported is served exactly once,
  connections are unique and in order, `poll()` neither oversleeps nor is given
  up wrongly, ticks keep their schedule, due timeouts are not starved.
* **inter-thread connection**: no lost wake up, no spurious one, messages once
  and in order: the two objects behave like one queue.
* **permanent connection**: at most one connection at a time, no unlocked access
  while the thread runs, messages in order through cache, buffer and socket, and
  it reconnects for ever until it is marked done.
* **buffered connections**: the byte stream and the lines are intact however they
  are cut, a reader leaves the others their turn, a connection marked done drains
  its buffer before it goes.
* **signal_child**: no death is lost although one SIGCHLD stands for many, a
  listener hears of it once, the child is released after its listeners were
  called, and the count that keeps the singleton in the communicator is right.
* **cppprocess**: `wait()` returns once children, input and output have all
  ended, in whatever order, with all the output and the right exit codes.
* **file_changed**: the map agrees with the kernel, what is told was asked for,
  what changed is told.
* **socket_events**: an object that waits is one the kernel is asked about, and it
  is called once its service listens.
* **messages and dispatcher**: a line carries the message as it is now, callbacks
  run by priority, COMMANDS is honest, services do not answer each other for ever.
* **reporter**: data is read once and in order, a hang up closes its own client,
  the end of the script ends the loop of the test, once.

## Modules

| Module | Models |
|---|---|
| `Communicator` | `communicator.cpp` and the part of `connection.cpp` that `run()` drives |
| `Communicator_proofs` | theorems about `Communicator` |
| `Channel` | abstract: what an inter-thread connection promises |
| `InterThread` | `inter_thread_message_connection.cpp`; implements `Channel` |
| `PermanentConnection` | `tcp_client_permanent_message_connection.cpp`, `pause_durations.cpp`, the constructor of `timer` |
| `Threads_proofs` | theorems about `PermanentConnection` and about `InterThread` |
| `BufferConnection` | `tcp_server_client_buffer_connection.cpp` and its variants |
| `BufferConnection_proofs` | theorems about `BufferConnection` |
| `SignalChild` | `signal.cpp` for SIGCHLD, `signal_child.cpp` |
| `Process` | `cppprocess/process.cpp` and its pipes, composed with `SignalChild` |
| `Process_proofs` | theorems about `SignalChild` and about `Process` |
| `FileChanged` | `file_changed.cpp` |
| `SocketEvents` | `socket_events.cpp` |
| `KernelEvents_proofs` | theorems about `FileChanged` and about `SocketEvents` |
| `Message` | the line of a message: `message.cpp`, `message_definition.cpp` (operators only) |
| `Dispatcher` | `dispatcher.cpp`, `dispatcher_match.cpp`, `connection_with_send_message.cpp`, composed with `Message` |
| `Dispatcher_proofs` | theorems about `Message` and `Dispatcher` |
| `Reporter` | `reporter/executor.cpp`, `state.cpp`, `basic_instructions.cpp` and the TCP server of a script |
| `Reporter_proofs` | theorems about `Reporter` |
| `ListTheorems` | lemmas about lists, and induction, for `Dispatcher_proofs` and `Reporter_proofs` |
| `MC*` | values of the constants for TLC |

A module of proofs may be about two components. Where it is, one of them
(`InterThread`, `SocketEvents`) has names with a prefix for what every module has:
`ThreadsInit`, `ThreadsSpec`, `SocketInit`, `SocketSpec`...

An operator marked *Mutant* in a comment is a plausible bug of the definition
that follows it. Substituting it makes TLC find the property it is paired with in
`PROJECT.json` violated: it shows that the property can fail.

### Communicator

`list`, `forceSort`, and per connection `enabled`, `prio`, `valid`, `wants`,
`date`, `delay`, `start`, `next`, `saved` are the members of the two classes;
`pass`, `live`, `fds`, `revents`, `idx`, `todo` are the local variables of
`run()`. One iteration of `run()` is: `Prepare` (sort, copy, save, compute the
timeout; or `ReturnTrue`, `ReturnFalse`), one of `PollReports`, `PollTimesOut`,
`PollFails`, then a `ProcessEvent` per event and a `ProcessTimeout` or
`NoTimeout` per connection, then `EndPass`. Between `ProcessEvent` and `EndEvent`,
and between `ProcessTimeout` and `EndTimeout`, the callback runs: any sequence of
`add_connection`, `remove_connection`, `set_enable`, `set_priority`,
`set_timeout_date`, `set_timeout_delay`, `set_output`, `close`, or an exception.
The default `process_error()`, `process_hup()` and `process_invalid()` remove the
connection. `stable_sort()` is defined by the order it results in.

Abstracted: `POLLPRI` with `POLLIN`, `POLLRDHUP` with `POLLHUP`; the callback
called for `POLLIN` (signal, listener or reader); names and logs; a microsecond
is the unit of the clock and `Milli` units are a millisecond.

### InterThread

Thread A owns the connection and waits in `communicator::run()`; thread B waits
in `poll()`. `Push` and `Post` are the two halves of `send_message()`,
`PopFront` and `ReadEventfd` those of `process_read()`, `CloseA` and `CloseB`
those of `close()`. A message is named by its number. The inductive invariant
`IInv` says of each direction that semaphore + (sender between push and post) =
FIFO length + (reader between pop and read) while it is open, and no more than
that once posts are lost on a closed eventfd; that the FIFO holds the last
messages sent, in order; that a reader that was woken up still finds the
semaphore posted.

`Channel` is the specification of its users: a FIFO per thread. The refinement
mapping puts the message a reader popped and did not deliver yet back in front
of the FIFO.

### PermanentConnection

The permanent connection (a timer), its messenger and the signal of its thread.
`StartThread`, `ThreadConnects`, `ThreadSignaled` are the asynchronous path,
`ConnectNow` the synchronous one (`useThread`, a parameter of the constructor, is
chosen once); both continue in `thread_done()`, which flushes
the cache one message per step (`FlushOne`), because sending a message can remove
the messenger, and ends in `process_connected()` (`Flushed`). `MessengerWrites`
and `MessengerLost` are the events of the messenger. `FlushNull` is the call
through the null `f_messenger` that the code makes when the flush removed it.

Abstracted: addresses are an index; a message written in part counts as not
written; the destructor, which joins the thread, is not modelled.

### BufferConnection

A sender and a reader, each in its own process, at the ends of a socket of
`Room` bytes. A byte is its position in the stream, so that loss, duplication
and reordering show. `Write(length, n)` is `write()` of a line of which `n`
bytes leave at once, `ProcessWrite(n)` one `process_write()`. The reader's
`process_read()` is `ReadChunk`, then `FoundLine`/`EndLine` per newline, then
`EndChunk`, until it runs out of data, fails or reaches its limit; `EndRead` is
the rest of the pass, with `process_hup()` if `poll()` had reported it.
`immediate`, chosen once, tells the TCP connections from the variants that always
buffer (local stream, pipe, fd).

### SignalChild

`proc` is the state of each child as `waitid()` sees it, `pending` and `blocked`
the bits of SIGCHLD; `f_listeners`, `f_count`, `in_comm` are the members of
`signal_child` and of its base class. `Signal` and `CloseOther` are the constructor
and `close()` of `ed::signal`, for the singleton and for another object that had
SIGCHLD before. `Poll`, `Process` (the read of the signalfd), `WaitId`, `Call`,
`Return` and `Release` are one turn of `process_signal()` after the other; while a
callback runs (`pc = "callback"`) and between two passes the application forks and
adds or removes listeners, and children die, stop and continue at any moment.
`missed` is a history of the deaths SIGCHLD was not left pending for: the kernel
throws it away when it is not blocked, and another object may have read it.

Abstracted: the list of listeners is a set ordered by identifier; core dumps are
kills, traps are stops.

### Process

`EXTENDS SignalChild`: one command, or a pipeline of two, with data for the input
and a capture of the output. The size of the input is one of `Inputs`, which may be more
than the pipes hold. A pipe is the number of bytes in it and the
processes that hold its ends; `StartProcess` is `fork()`, after which the child
holds what its parent had open, and `ExecuteCommand` closes what
`execute_command()` closes. `Wait` and a `Listen` per command enter the loop of `wait()`,
which serves `SignalEvent`, `CaptureEvent`, `InputEvent` in any order until
`RunReturns`. `write()` of the parent blocks: `WriteStep` moves a byte when there is
room, and the parent does nothing else until all is written or nobody can read it. The
bytes are counted, not named: the pipes of the kernel keep them
in order.

### FileChanged

`watches` and `queue` are inotify, `f_watches` the map. `NewWatch` and `MergeWatch`
are the two branches of adding a watch, `StopWatch` removes one, `Poll`, `Read`,
`Tell`, `Handled`, `ReadAgain` are `process_read()`; the application changes its
watches between two passes and in `process_event()`. `Change`, `Rename`, `Delete`
and `Create` are what others do to the files. `dead` marks an exception out of
`run()` or the double erase described below.

### SocketEvents

`f_socket_events` is the list of the shared listener, `listener_enabled` its
`connection::f_enabled`, that is, whether it is awake, `answers` what the kernel
answered and nobody read. `PollListener`, `process_read`, `process_write` and
`process_timeout` are the callbacks of one pass; `process_listening(o)` is the callback
of the application with the assignment that follows it. `ServiceChanges` starts and
stops services.

### Message and Dispatcher

A text is a sequence of characters of a small alphabet in which every character
that has a meaning to `to_string()` or `from_string()` occurs. `Dispatcher` has two
services. The application of "c" changes one `message` object and sends it again
(`set_command`, `add_parameter`, `set_sent_from`, `send_message`, with
`f_cached_message`); `Receive` is the whole of a message received: `from_string()`,
`dispatch()` over the matches and the replies of the system commands. "s" adds and
removes matches between two messages.

### Reporter

A script is a sequence of statements and `f_ip` the next one; there is an action
per instruction. `wait()` is `Wait`, `PollReturns`, one `Accept` or `Client` per
connection (`Serve`) and `WaitEnds`. `Enter`, `StepDone`, `ThreadDone` and `Leave`
are the runner of the background thread, `ProcessDone`, `Stop` and `Stopped` the main
thread, which is in `communicator::run()`. Two peers connect, send and hang up at any
moment. Instructions that print, sleep or compute what no property looks at are
the instruction "other".

In drain mode the loop of `wait()` can take the hang up of a peer for that of another
and close the connection of a messenger that goes on sending. What it sends then is
lost (`Hung`).

## Runs

| Run | Instance | Shows |
|---|---|---|
| `threads_and_sockets` | 2 messages each way, timeouts of 10 µs, 2 ms and 5 s; 2 objects, 2 addresses, 3 starts or stops | `IInv`, `NoLostWakeup`, refinement of `Channel`, `Delivered`; `WaitingIsAsked`, `ListeningTold` |
| `communicator` | 3 connections, 2 priorities, 6 calls | `OldConnectionsSorted`, `OrderKept`, `EventsServedOnce`, `GivesUpOnlyIfStuck` |
| `communicator_timers` | 1 descriptor, 1 timer, all events, 4 calls, 4 units of time | `PollNotLate`, `TickOnSchedule`, `DueServed` |
| `permanent` | with and without a thread, 2 addresses, 2 pauses, 3 messages, all calls | `OneConnection`, `CloseDoesNotRace`, `WireInOrder`, `Reconnects` |
| `permanent_flush` | 2 messages, `mark_done()` | *violation* of `CachedForwarded`: null pointer in the flush of the cache |
| `buffer` | lines up to 3 bytes, 5 bytes, socket of 3, chunks of 2, limit 1, with and without immediate writes | `StreamIntact`, `TurnBounded`, `DoneDrainsFirst`, `LineProcessed` |
| `signal_child` | 2 children, 3 listeners, 2 stops | `CountMatches`, `NoLostDeath`, `DeathToldOnce`, `ReleasedAfterCalls`, `DeathHandled` |
| `process` | 1 or 2 commands, input of 1 or 4 bytes, pipes of 1 byte, 1 byte of own output | `OutputComplete`, `ExitCodeKnown`, `WaitReturns` |
| `process_blocked` | 1 or 2 commands, input of 4 bytes, pipes of 1 byte | *violation* of `WriteReturns`: the parent and its commands wait for each other |
| `file_changed` | 1 directory, 2 files, 3 watches, 3 changes, a queue of 2 | `MapConsistent`, `ToldWasAsked`, `ChangeTold` |
| `reporter` | 8 scripts, 2 peers, 2 bytes or messages each | `StreamIntact`, `EndsOnce`, `HupOnlyOwn`, `RunReturns` |
| `dispatcher` | 6 commands, 4 values, 3 user matches, 2 messages, 2 matches added | `WireFaithful`, `AnswersEnd`, `DispatchedRight`, `CommandsHonest` |

`threads_and_sockets` checks `InterThread` and `SocketEvents`, which share nothing and are
small, in one run: in a behaviour one of them is active, with its own fairness, and the
other one does not move.

The module of the `dispatcher` run also has an assumption TLC evaluates,
`RoundTrip`: of all values of up to three characters, exactly those that
`LossyValue` describes do not come back from `from_string(to_string())`; the tab,
which stands for white space that is not escaped, and the character 0 are among
the characters.

**Bounds.** Two messages each way put one in the FIFO and one in the hand of the reader,
the most the invariant tells apart; the proofs cover any number. Three connections are
needed for one to be added between two that are sorted; six calls to add three, change a
priority and add or remove again; the proofs cover any number. A delay of 2 with a clock
up to 4 gives ticks served on time, late, and late by a whole delay; the date 1 is to
come or in the past; four calls add two connections and give each a timeout, or add one
whose events never stop next to a timer. Three messages put one on the wire, one in the
buffer and one in the cache. Lines of up to three bytes with chunks of two and a socket
of three give lines in several chunks, several lines in a chunk and partial writes. Two
children die with one signal, and three listeners give one of them two; the proofs cover
any number. Pipes of one byte make commands block on each other at once: an input of one
byte and an own byte of output are as much as they can hold. An input of four bytes is
more than the pipes of one command and the command hold together and, with the own
bytes, more than those of a pipeline of two, so that the parent blocks in `write()` too.
Three watches let a path be watched, merged and watched again; a queue of two overflows
with three changes. Two objects share an address or not, and three changes let a service
start, stop and start again. Two bytes per peer are read in one buffer or in two. Two
messages are an object that is sent, changed and sent again. `MaxCalls`, `MaxNow`,
`MaxSent`, `MaxMsg`, `MaxBytes`, `MaxListeners`, `MaxStops`, `MaxWatches`, `MaxChanges`,
`MaxServiceChanges`, `MaxAdded` bound the state space and nothing in the code
corresponds to them, which is why most runs do not check for deadlock.

**Fairness.** `Communicator`: `run()` goes on, callbacks return, `poll()` returns
when its timeout is over, the clock moves; that `poll()` reports an event is never
assumed. `InterThread`: a thread does not stop in the middle of a library function
or of a callback and goes back to wait. `PermanentConnection`: the loop serves
what is due, the thread ends, output is written or fails, and an attempt made for
ever succeeds once (an assumption about the peer; without it nothing can be said
of reconnecting). `BufferConnection`: each process comes back to its loop.
`SignalChild`, `FileChanged`: the event loop goes on and callbacks return; nothing
is assumed of children and files. `Process`: the parent goes on, each of its
connections is served when it has something (the communicator serves all that
`poll()` reports), and a command that can read, write or end does. `SocketEvents`:
the loop goes on, `sendmsg()` does not fail for ever, and the application notices
whether it connected. `Reporter`: the script and the main thread go on; peers need
not do anything. `Dispatcher` has safety properties only: that answers end is
stated as a bound on the length of a chain of answers.

## Proofs

`Threads_proofs` proves of `InterThread`, for any number of messages and any timeouts, that
`IInv` is inductive, from which type correctness, that a woken reader finds a
message, that `process_read()` throws on a closed connection only, `NoLostWakeup`,
the order of the messages and the refinement of `Channel` follow. The argument goes
lane by lane: a lemma per kind of step says how it changes the FIFO, semaphore and
labels of one direction, and every action is an instance of one of them on one lane
and leaves the other alone.

Of `PermanentConnection`, it proves, for any pauses, addresses, calls and number
of messages, with and without a thread:

* `TypeCorrect`: in particular the position in the list of pauses stays in it;
* `SingleConnection` and `NoRaceOnClient`, from `Exclusive`. `OneConnection` is
  not inductive: losing the messenger enables the timer again, which is right
  only if no thread is connecting at that time. `Exclusive` adds that a messenger
  excludes a thread (a thread is started by an enabled timer, hence without a
  messenger, and joined before the messenger is created), and that a messenger in
  the communicator is the one of `f_messenger`;
* `BuffersOrdered` and `WireOrdered`, from `MessageOrder`: output buffer before
  cache, both in order, after the last message written and not after the last one
  sent; the cache is empty whenever the application can send to a messenger, and
  the output buffer goes away with the messenger.

`Communicator_proofs` proves, for any connections, priorities, dates, delays and
reports of `poll()`:

* `TypeCorrect` and `TicksOnSchedule`, together, from `TInv`: that a tick is a
  date needs `next >= start` to divide, and that it is on the schedule needs the
  types. `TodoValid` (events are left to serve only during a scan, at a position
  of the copy of the list) makes the callbacks well defined;
* `ListedOnce`, `OldStaySorted` and `StableOrder`. A lemma, `ListSteps`, sorts all
  the steps into five kinds by what they do to the list. That the old connections
  stay sorted needs `NoDuplicate`: erasing one also drops it from the set of those
  added since the last sort, which would let a second occurrence count as old;
* `PollInTime`, in both directions (not late, and at once if and only if the first
  timeout is in the past), and `TimeoutsConsumed`, from what rounded division gives;
* `GivesUpRightly`, from `ResultInv` (no result while `run()` runs; what has a
  descriptor is read) and the schedule (a delay that is set has a tick);
* `EveryEventServed`, from `PassInv`: the callbacks made so far are those of the
  events reported for the positions before `idx` and, for `idx`, all but the ones
  in `todo`. It needs the copy of the list to hold each polled connection once:
  once by `NoDuplicate`, and at all because an injective order of the positions of
  a finite list is onto (`SortKeeps`).

`Process_proofs` proves, for any two or more children and any number of listeners
and stops, the four safety properties of `SignalChild` from an invariant in three
parts:

* `CInv`: the types together with `CountMatches`, because that the count does not
  become negative follows from its being the number of a finite set of listeners
  (`FiniteSetTheorems`): `CountCorrect`, `TypeCorrect`;
* `TInv`: a listener that was told of a death is not in the list any more, or
  its child is the dead child that `process_signal()` is at and the listener is not
  in `todo`. `DeathToldOnce` is not inductive without it, since the death is still
  there while the callbacks run, and neither is `ReleasedAfterCalls`: `ToldOnce`,
  `ReleasedLast`;
* `DeathPending`: `NoLostDeath` for whatever object has SIGCHLD: `NoDeathLost`.

It also proves, of `Process`, `OutputComplete` (`OutputIsComplete`) and `ExitCodeKnown`
(`ExitCodesKnown`), for pipes and data of any size, one command or two. First,
`UsesSignalChild`: every step of `Process` is a step of `SignalChild` or leaves its
variables alone, so that `IInv` of `SignalChild` is an invariant here too and
`SignalChildSafe` and `ReleasedAfterDone` follow. It needs `Control`: where the parent
is, and which children can have been forked by then. The rest of `PInv`:

* `Listening`: from `add_listener()` until it is reaped, a child has exactly one
  listener. So the callback is called once when `waitid()` finds the child, and a
  child without a listener was reaped;
* `Reported`: the callback was called for a child once it is reaped or being
  released, and its exit code is the status the child died with. `ExitCodeKnown`
  follows because `run()` returns when the object left the communicator (`Ended`),
  hence when its count is zero, hence when there is no listener left: this is where
  `CountMatches` is used;
* `Captured`: what was written was read or is in the pipe, and the output is closed
  only if nobody holds its write end. That a running last command holds it
  follows the end from the parent through `fork()` and `dup2()`. That nothing is left
  behind when the pipe is closed needs the buffer of `process_read()` to hold as much
  as a pipe (`ReadSize >= PipeSize`; both are 64Kb).

`BufferConnection_proofs` proves, for any sizes of the socket, of a chunk and of
the lines and any limit, the three safety properties of `BufferConnection` from
`IInv`, the conjunction of the types and of

* `InTransit`: the chunk being read, the socket and what is left of `f_output` are
  adjacent parts of the stream. `StreamIntact` says it of their concatenation; a step
  that moves bytes from one part to the next needs it of each, and of the bytes of
  `f_output` that were sent and are kept: `StreamSafe`. `DrainedFirst` is proved of
  each step;
* `LineSoFar`: `f_line` is what follows the last newline, in every state;
  `StreamIntact` says it only when a line is complete;
* `Counted`: the lines counted in this turn and the bytes left in the chunk stay
  below the bound together, as each line takes a byte at least: `TurnIsBounded`.

`KernelEvents_proofs` proves of `SocketEvents`, `WaitingIsAsked` for any objects and
addresses (`WaitersAsked`). Its `IInv` adds that an object is in the list at most once
(`Types`), that `process_read()` is at a position of the list only while it handles an
answer, so that the list does not change under it (`AtPosition`), and what the flags of
an object in the list are in each of its states (`Asked`).

Of `FileChanged`, it proves `MapConsistent` (`MapAgrees`) and `ToldWasAsked`
(`OnlyAskedTold`), for any files, requests, watches, changes and size of the queue,
from `IInv`:

* `OneEntry`, `Covered` and `Keyed` are the three parts of `MapConsistent`. The first
  two are inductive with the types alone, and hold even after an exception left the
  loop. `Keyed`, which excepts the paths that were watched again, is proved from the
  others;
* `ToldWasAsked` is about the step from an event to its callback, and an event is old
  when it is handled. `EventAsked` says of every event of the queue and of the buffer
  that, if its number is still a key of the map, its flags were asked for the path of
  that entry. A kernel watch whose number is a key satisfies the same (`MaskAsked`): it
  was never merged, since a merge gives the path a watch of another number, which is the
  key of no entry. That an old event never meets a new entry of the same number needs
  the numbers to only grow: no event is beyond `created`;
* `PatternsAsked`: the patterns of an entry were asked for since its path is watched.

`Dispatcher_proofs` proves the four properties of `Dispatcher`, for any commands,
names, values, definitions and matches and any number of messages and matches. Two
thirds of it are about data:

* a list of matches in order stays in order when `add_match()` inserts,
  `remove_matches()` removes and `dispatch()` fills in definitions (`ListOK`); what
  `dispatch()` calls is then what `DispatchedRight` expects (`CalledRight`);
* `ReadBack`: `from_string(to_string(m)) = m` for every message that is not `Lossy`.
  The text is described by the offsets of its parts (`TextIs`: sender, recipient, one
  piece per parameter), and the functions of the parser are evaluated on them from
  the end of the text to its start: the value in quotes (`QuotedFrom`), the escapes
  (`UnescapeFrom`), the parameters (`ParametersFrom`). Lossy are a server without a
  service and the values that the code cannot read back: with a character 0, with a
  backslash at the end in quotes, with white space at the end without. That the text
  of any other message has no character 0 (`LineNoNul`) and nothing to trim makes what
  is parsed the whole of it. A lossy message is refused or read with the right names
  (`ReadHeader`), which is all a reply depends on: what the 0 and the trimming remove
  comes after them (`HeaderCut`, `HeaderBeforeNul`).

The recursive functions of the parser are what makes this induction over data. The
theorems of the library on induction take an operator, which the provers cannot
instantiate. `Upward`, `Downward` and `Recursion`, in `ListTheorems`, say the same of
sets of numbers and of functions, and follow from a set of numbers having a least
element.

The invariant, `Inv`, of which one lemma per action shows that it is kept:

* `MatchesOK`: the list of "s" is in order and has the match of UNKNOWN;
* `WireOK`: every line is the text of its message, which is one that can be written,
  and a line that is an answer to an answer is an UNKNOWN. `AnswersEnd` follows
  because UNKNOWN is known to every list, and is not inductive without it;
* `ObjectOK`: the cache is empty or the text of the message object as it is now. With
  `WireOK` and `ReadBack` it gives `WireFaithful`;
* `ListedOK`: what a service listed has a match in its list. It gives `CommandsHonest`,
  because a command that has a match is executed, by that match or an earlier one.

`DispatchedRight` and `CommandsHonest` are proved of each step: the wire to a service
gets shorter only if the service dispatched the first line (`DispatchStep`).

`Reporter_proofs` proves the three safety properties of `Reporter`, for any scripts,
any clients and any number of bytes or messages: `StreamIntact` (`StreamKept`),
`HupOnlyOwn` (`HangUps`) and `EndsOnce` (`ScriptEnds`), from `ScriptInv`:

* `ThreadInv`: where the two threads can be at the same time, since each waits for the
  other at some point. `EndsOnce` follows from it;
* `FlowInv`: the script is in its program, whatever it calls and goes to. This is where
  the labels have to exist (`ProgramsAssumption`);
* `NetInv`: a peer has at most one client, and only a messenger is closed by the script;
* `ServeInv`: a hang up `poll()` reported and the loop has to serve is of a client whose
  peer closed it or, in drain mode, of one that had nothing to write while the peer of
  another one closed it (`Misplaced`); it gives `HupOnlyOwn`. That the other one exists
  needs `poll()` to be called with a connection at least, and that it is a client, a
  set of numbers to have a least element (`FirstIs`);
* `DataInv`: per peer, what the script has of it followed by what is on the way has
  consecutive numbers and ends with the last one sent, unless the script closed the
  connection; nothing of another peer is on its socket; a direct client misses nothing
  (`LineOK`). `StreamIntact` does not say where the messages of a messenger end, without
  which the next one could not be shown to be consecutive. `read_data()` reads buffer by
  buffer, so that its case is an induction on the turns of its loop (`TurnOK`).

The proof found a case the run does not reach: a messenger that sends after the script
closed its connection, which takes three messages of one peer to violate
`StreamIntact`. What is sent then is lost, which the model did not say (`Hung`).

The assumptions are those of the modules on their constants (`PermAssumption`,
`TimeoutsAssumption`, `ChildrenAssumption`...), which TLC evaluates in the runs.
Those of `Dispatcher` say that a match of one command names it (`MatchesAssumption`)
and that a name has none of the characters that have a meaning (`TextAssumption`;
`verify_message_name()` allows letters, digits and underscores only).
`ProgramsAssumption` says that enumerated parameters have one of their values, which
the instructions verify, and that the labels a script goes to exist: for one that does
not `get_label_position()` throws, which the model leaves out.

Every safety property and every refinement of a passing run is stated by a theorem.
Model-checked only: liveness (`Delivered`, `DueServed`, `Reconnects`,
`LineProcessed`, `DeathHandled`, `WaitReturns`, `ChangeTold`, `ListeningTold`,
`RunReturns`), which needs fairness and ENABLED and is out of the prover's reach.

## What the violations show

Each is in `findings` of `PROJECT.json` with the text of the repository that the code
does not do.

* `permanent_flush`: the flush of the cache of a permanent connection marked done
  goes through a null pointer
  (`tcp_client_permanent_message_connection.cpp:662`), although the documentation
  says that cached messages are forwarded.
* `process_blocked`: the input pipe is a blocking one (`pipe_connection.cpp:120`,
  against the comment at 86) and `io_data_pipe::process_write()` writes all of the
  input at once. If the commands copy their input to a captured output and the input
  is larger than all the pipes together, the parent blocks while the commands wait
  for it to read, and `wait()` never returns. `WaitReturns` excepts that state
  (`Stuck`) and no other.

## What to know of the code

What the models had to be told, because the code does it. Where a property holds
only with an exception, its comment names the exception, and it is one of these.

Four of them contradict what the repository says of itself, and the properties say what
the code does:

* **a timeout date in the past** gives `poll()` a timeout of 0
  (`communicator.cpp:636-642`); the documentation promises a pause of 1 ms "to avoid
  tight loops" (`connection.cpp:671-675`). `PollNotLate` asks for exactly the 0;
* **a path watched again** gets another number from the kernel and the map keeps the
  old one as its key (`file_changed.cpp:374`), although "the new events get added to
  the existing instance" (312-314). Events of the new number are dropped, and the
  IN_IGNORED of the old one finds the entry, so that `process_read()` removes the new
  watch. `MapConsistent` excepts the key of such a path, `ChangeTold` its events;
* **`wait()` in drain mode** does not poll connections that have nothing to write but
  looks up their events, at the position 0 of another one
  (`basic_instructions.cpp:2902`): when that one hangs up, they are closed too, although
  "at the moment you cannot disconnect clients" (`reporter/README.md:140`).
  `HupOnlyOwn` covers drain mode and excepts these connections only;
* **values of parameters** do not "support absolutely any character"
  (`message.cpp:144`): one with a character 0, with a backslash at its end in quotes or
  with unescaped white space at its end is not read as it was sent (217-231).
  `WireFaithful` excepts exactly what `Lossy` names.

And of each component:

* **inter-thread**: `close()` by one thread while the other is in `process_read()`
  makes it throw.
* **communicator**: `add_connection()` does not sort: a connection added by a
  callback waits for the next sort for its place.
* **permanent connection**: removed from the communicator by the application it
  leaves its messenger there; marked done while it is not connected, it never
  leaves by itself.
* **buffered connections**: a hang up that is reported together with data closes
  the socket after `process_read()` stopped at its limit, with lines unread. What is
  written to a connection marked done after its buffer was drained is kept for ever.
* **signal_child**: `status_mask()` returns RUNNING for a continued child
  (`signal_child.cpp:243-273`); a stopped or continued child is looked at with
  `WNOWAIT` and never consumed, so that `process_signal()` finds it again and again
  (496-565).
* **cppprocess**: a child that dies before `signal_child` blocked SIGCHLD is never
  heard of, when `wait()` is the first to ask for the singleton; a dead command
  ends the application with SIGPIPE when there is input to write; `f_running` is
  not reset (`process.cpp:1291`); an empty `io_data_pipe` is never closed; the
  input is written with a blocking `write()`; `start()`
  starts the direct next process only; a failed `fork()` leaves pipes in the
  communicator.
* **file_changed**: IN_IGNORED erases with an iterator that was
  erased already (709-711); IN_MOVE_SELF converts to an empty mask, which the
  constructor of `file_event` refuses.
* **socket_events**: `lost_connection()` called in the object's own
  `process_listening()` is overwritten when it returns (`socket_events.cpp:569-570`,
  against the documentation at 815-821); an object created or destroyed in the
  callback changes the list being walked. While an object waits the socket can
  always be written to, so the listener does not sleep between two questions.
* **messages**: a server without a service does not survive the wire; a match that
  catches several commands keeps the definition of the first one it saw
  (`dispatcher_match.cpp:323-327`).
* **reporter**: `data_size()` ignores the position in the first buffer (`state.cpp`;
  `reporter/README.md:245-246` says otherwise); a direct TCP client that hung up is
  never closed and makes `wait()` return at once; `send_message()` sends to the first
  connection only.

## Not modelled

Components with status `not_modelled` in `PROJECT.json`:

* sockets, OpenSSL, ncurses, Qt and `/proc` (TCP BIO, local stream and datagram
  sockets, `cui_connection`, `qt_connection`, `process_info`, `process_list`,
  `process_changed`): calls of a library or of the kernel, with little state and no
  protocol of their own;
* the blocking message clients: one thread that reads byte by byte, with nothing to
  interleave with;
* `signal_handler`, `signal_profiler`, certificates, tools and examples: output and
  command lines;
* `snaplogger`: built on the permanent and datagram connections.

Of the modelled components:

* **communicator, permanent connection**: the destructor of the permanent connection,
  which joins its thread; `process_timeout()` of a permanent connection that was
  removed earlier in the same pass of `run()` (`communicator.cpp:722-829`);
* **inter-thread**: the removal of the connection from the communicator when the thread
  that calls `poll()` meets POLLNVAL (`connection.cpp:1198-1211`);
* **buffered connections**: the local stream, pipe and fd variants where they differ
  from TCP;
* **signal_child**: callbacks that throw out of `process_signal()`, and listeners added
  or removed by another thread than the one of the communicator;
* **cppprocess**: the error output, files and tees;
* **file_changed**: numbers of watches that are used again. The kernel hands them out
  in increasing order and starts over after 2^31 of them;
* **messages and dispatcher**: JSON and broadcast; changes of the matches within a
  dispatch, which are undefined behaviour in C++; callbacks that change the message
  they are called with (`dispatcher_match.cpp:155-157`) and the exception that debug
  builds throw for a message without a definition (`message_definition.cpp:363-370`);
* **reporter**: the lexer, the parser and the expressions.

## Plan

1. The lexer and parser of the reporter as operators, checked against a reference.
2. `Process` with an error output and more than two commands.
