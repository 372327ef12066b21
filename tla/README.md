# A TLA+ verification of cajave

This directory holds TLA+ models of the programs in this repository, the TLC
configurations that check them on small instances, and proofs, checked by
TLAPS, of their main properties for every value of the parameters.
`PROJECT.json` is the index: the parts of the repository, the runs, the mutants
that show each property can be broken by a plausible bug, the source lines each
definition stands for, the hazards, the findings and the theorems.

To check: `tlc -config X.cfg M` for a row of the table of runs below, and
`tlapm M.tla` for a module of proofs.

## Inventory

The repository is a personal collection. Nearly all of its 4840 files are
third-party (protobuf, TBB, STLport, dmalloc, sqlite3pp, the Irvine assembly
examples). The programs that have a state of their own are small, and except for
the two parts of `JQHttpServer` they do not interact with each other.

| part | state | operations | what is hard | what makes it correct |
|---|---|---|---|---|
| `timer_unit::Timer`, `src/cpp/demotimer.cpp` 111-285 | pool of events, ordered set of what is scheduled, stack of free ids, stop flag, mutex and condition variable | `Add`, `Remove`, the worker `Run`, constructor, destructor | clients, a worker and handlers that call back; lost wakeups; ids that are reused; shutdown | ids are in use once, no timer is slept past, a handler is the one that was registered, shutdown ends |
| `os::OsTimer`, `src/cpp/demotimer.cpp` 1-107 | a POSIX timer made on first use | `Start`, `Stop`, `Init`, the callback, destructor | racing first calls, callbacks after the destructor, an unsigned product that wraps | one timer is made, a stopped timer may be deleted |
| `BankerAlgorithm`, `src/cpp/Banker.cpp` | three books (available, allocation, need), work vectors, the pending request | `set_cur_proc_req`, `operator bool` | books that must agree, all or nothing, the boundary of the comparison | the books balance, nothing is overdrawn, unsafe requests are refused |
| `JQHttpServer::Session`, `src/cpp/JQHttpServer/library/JQLibrary` | buffer and parser, reply and its device, counter of bytes, timer, posted events | parse what was read, reply from any thread, write on, time out, delete | requests cut into any reads, replies posted by several threads, a reply that races the timer | whole requests and no others are handled, one whole reply is written, every session ends |
| `JQHttpServer::AbstractManage` with `TcpServerManage`, `SslServerManage`, `LocalServerManage`, same place | the server, its thread and event loop, the set of sessions, two thread pools | `listen`, `close`, destructors, TLS handshakes, new sessions, handlers | a start that fails, shutdown in the right order with handlers at work | listen tells the truth, nothing is used after its end, shutdown returns |
| `JQNet::HTTP`, same place | the manager with its replies; per call a timer, a flag its three handlers share, and for a blocking call an event loop on its stack | `get`, `deleteResource`, `post`, `put`, `patch`: blocking, static, or with callbacks | blocking calls that nest in each other's event loops; answers that race the timer or come late; destruction and quitting in between | every call is answered once, by its own reply; no handler uses a frame that is gone; calls with a timeout end |
| subject and observers, `Events`, `src/cpp/obsject.cpp` | a state id and the set of observers; a map from keys to callbacks | attach, detach, change of state, notify; connect, disconnect, notify | callbacks that call back in the middle of a notification; keys | every observer ends with the last id; a key disconnects its own callback |
| algorithms, `src/pyn/algorithm_utils.py` | an array changed in place | sorting, searching, partition, rotation | loop bounds | the result is a sorted or rotated permutation |

Not modelled: the algorithms (sequential functions on an array that keep no
state, within reach of unit tests), `vectors.cpp`
(sequential, and does not compile as it is), templates without state
(`visitors.cpp`, `range.cpp`, `finds.cpp`), logging and file tools (pure I/O), study
notes, debugger scripts and the driver loader (the state they act on is the
debugger's or the system's), and all third-party trees except `JQHttpServer`,
which is here because it holds the concurrent server and client of the repository.

## Modules

| module | what it is |
|---|---|
| `Timer`, `AlarmClock`, `MCTimer` | the timer, the abstract alarm clock it implements, small instances |
| `TimerProofs` | its invariants, and the refinement |
| `OsTimer`, `MCOsTimer`, `OsTimerProofs` | the POSIX timer |
| `Banker`, `MCBanker`, `BankerProofs` | the banker's books |
| `HttpSession`, `MCHttpSession`, `HttpSessionProofs` | one HTTP session |
| `HttpServer`, `HttpServerProofs` | the server that keeps the sessions |
| `HttpClient`, `HttpClientProofs` | the HTTP client `JQNet::HTTP` |
| `Subject`, `SubjectProofs` | the subject and its observers |
| `Events` | the table of callbacks |
| `SessionLife` | what a session promises the server: `HttpSession` implements it, `HttpServer` relies on no more |
| `Induction` | induction over the natural numbers and recursive functions, for `BankerProofs` and `HttpSessionProofs` |

### Timer

The schedule, the free ids and the pool are changed with `mutex_` held only, so a
locked section is one action: `Add` (`Grow` with `push_back`, `Reuse` of a released id),
`Remove`, `WaitForTimer`, `WaitUntilNext`, `TakeDue`. What happens outside the mutex has
actions of its own: the test of `stop_` (`TestStop`; `test_and_set` sets the flag
again), the sleep (`asleep` is the wait set of `cond_`; it ends by `NotifyAll`,
`WaitTimeout` or `SpuriousWakeup`, and `WaitReturns` takes the mutex again), and the
handler's call.

That call (line 256) indexes `events_` and runs the `std::function` stored in it, in
place and without the mutex, while an `Add` of another thread or of the handler itself may
overwrite the slot, or have `push_back` move all events. It is therefore three steps:
`FindHandler` finds the function object (`called`), `CallHandler` enters it,
`HandlerReturns` is its end. From the first to the last `disturbed` records that an `Add`
overwrote the object or that the growing vector moved it (it may or may not, as its
capacity is not modelled). What a disturbed object does is undefined behaviour, of which three
outcomes are kept: the handler that was found is run, the one that is there by now is run, or the
program ends (`Crash`). A single torn access within one of these steps is not modelled.
`CallFindsItsTimer` says which handler may be run, of one-shot timers too, and
`DisturbedByGrowthOrReuse` when the object may be disturbed at all.

A handler may call the timer (`HandlerOperation`). The destructor is the only code that
keeps `mutex_` over a blocking call, so `MutexFree` is about it alone.
`std::set::insert` under an `operator<` that compares times only is `Insert`: an entry for
a time that is taken is dropped. Handlers are named by the rank of the `Add` that
registered them; `due` and `removed` are history variables for the properties. A write
behind the last event (`Remove` with `id = size()`) is outside the modelled state.

`AlarmClock` is the timer seen from outside: the schedule, a function from ids to times
and handlers, and two outputs, the alarm that is `ringing` and the handlers that were
`cancelled`. An alarm is set for an id that has none; it goes only by ringing, by being
cancelled, which the second output shows, or with the whole service, which does not go while
one rings. It rings when its time has come, as the earliest one, after the last one has
ended, and not once it was cancelled; only then may it be set again. A one-shot timer taken
early or out of order is a step of no kind of `AlarmClock`. `Ringing` is the timer that was
taken out; whether the handler run for it is its own is the question of `CallFindsItsTimer`.

### OsTimer

`Start` tests `initialized_` without the lock, `Create`, `CreateFails` and
`AlreadyCreated` are the locked body of `Init`, `Set` is `timer_settime`. The system
is external: `Expire` starts a callback thread, `TimerCb` is its read of the object.
`Nanos` wraps at the width of `unsigned int`. The object's deletion records whether
it was quiet: `Stop` was the last setting and no callback was under way.

### Banker

A test of the object (`operator bool`) is one action, `Test`: the program is
sequential. `check_precondition` compares as many resources as there are processes,
since its loop ends at the shortest of three vectors. `check_safety` runs its pass, as
written, and returns true. Amounts may be negative.

### HttpSession

The server's thread is either in its event loop or in the parser (`pc`); one round
of the parser's loop is an action. A line of a request is a sequence of symbols,
its first one says what the line is, and all that follows the head is body, so that
a read may end within any line, within the body, or between. The symbol `colon` is text
that begins with one, which a header line may not. `Complete` and `WellFormed`
define from the symbols alone what a request is, and are what the parser is
checked against. Handlers run in other threads: a call of a reply function is
tested there (`HandlerReplies`) and carried out when the event it posts is taken
from `posted` (`DropReply`, `FailReply`, `BeginReply`); `deleteLater` posts an
event to the same queue. `wait` is `waitWrittenByteCount_`, `unsent` what is in the
socket, `device` what is left of the file or buffer; the head of a reply counts as one
unit. The timer is on or off, and when on may run out at any time. Parsing of URLs and
the wording of replies are left out.

The server may be closed at any time (`ServerFinishes`): the event loop returns, in
between two events, and `onFinish` deletes the server with the sockets it owns (those of TLS
connections have no owner). After that (`pc` is "ended") nothing is read, written, parsed
or taken from the queue and no timer runs out; handlers may still post replies,
which nobody takes. Only a deletion that is posted by then is carried out, when the thread ends
(`DeleteAtThreadEnd`). That a reply finds its device gone, as the reply functions test, does
not happen to a session of a running server; `FailReply` has the test all the same.

### HttpServer

The owner's thread (`main`), the only thread of `serverThreadPool_` (`thread`,
with the jobs that wait for it) and the handlers (`queued`, `running`).
The semaphore of `startServerThread` is on the owner's stack: `permits` are those of
the call that waits. After a failed start it is released twice; the second
release may find that semaphore gone, and then hits nothing or the semaphore of the
next call (`Started`). `Destroy` is `close` up to its wait; `ServerThreadDone`
is the end of the wait, with the deletions a `QThread` carries out when it ends;
`HandlersDone` and `MembersDone` are the rest of the destructors. `listen` can only
be called by the owner's thread, as `begin` demands; `close` is protected, and only the
destructors call it. The three managers start and stop with the same code. With `Ssl` it
is `SslServerManage`: `ListenUnreadable` is the return of `listen` when a certificate or key
cannot be read, `IncomingConnection` begins the TLS handshake of a connection, and only
its end makes the connection a session (`NewSession`), also when the event loop is about
to end.

Between sessions and server: a session is made by `NewSession`, hands a request
over by `HandleAccepted`, and is deleted by the event loop. `SessionLife` says so
for one session. `HttpSession`'s `LifeSpec` shows that the session in all its detail
does no more, and `HttpServer`'s `LifeSpecs` that every session of the server, at its
shutdown too, lives by it. `Quit` and `OnFinish`, which deletes the server and with it the
sockets it owns, are `ServerFinishes` of `HttpSession`; the deletions of `ServerThreadDone`
are its `DeleteAtThreadEnd`.

### HttpClient

All calls are made, and all their events handled, in one thread. `get`,
`deleteResource`, `post`, `put` and `patch` differ only in the function of the manager
they call, so a call is one of three kinds: blocking on the application's object, static
(its own object for one blocking call), or reporting to callbacks. `stack` holds the
blocking calls under way: `CallBlocking` is a call up to `eventLoop.exec()`, `Return` the
rest of it once `exit` has been called (`code`) and the loops inside have returned. `Answer`
is what the three lambdas of `handle` have in common, `Error`, `Finished` and
`Timeout` are the lambdas, `Late` is one that finds `isCalled` set. Qt is external: a
reply may report an error and then that it is finished, or only the latter, at any time in
whichever loop runs (`InLoop`). `Destroy` deletes the object with its manager and the
replies, not the timers. `Quit` is `QCoreApplication::exit`, after which `exec`
returns at once (`CallAfterQuit`); `cut` records the calls that came over. The timer's
`deleteLater` is taken as the end of the timer: until it is carried out the timer can only
run into `isCalled`. The content of answers is left out.

### Subject, Events

`Subject`: a notification is its place in the set (`at`, the observer whose `update` runs,
and `rest`, those still to come, in no order, as in an `unordered_set`). `ChangeState` is
`change_state` with the call of the first `update`, `UpdateReturns` the rest of
the loop. An `update` may change the state or detach others, at any depth up to
`MaxDepth`; it may not attach, nor detach its own observer, which leaves the
iterator of the loop undefined. `Events` has the keys of the map, which name the callbacks
stored under them; what `connect` returned is kept in `returned`.

## Runs

| run | shows | bounds, and why they are enough |
|---|---|---|
| `timer` | ids in use once, no oversleeping, which handler a call without the mutex may run and when its function object is disturbed, the refinement of `AlarmClock`, every scheduled time is served, a destructor that meets a busy worker returns | three adds, times 0 to 2, periods 0 and 1: an id is reused while the worker is between unlock and call, two timers compete for a time, a third one comes in between, the pool grows under a handler |
| `timer_released` | **violation**: a dropped timer is lost to the pool | two adds for one time |
| `timer_destroy` | **violation**: the destructor does not return | one add |
| `banker` | the books agree, nothing is lost or overdrawn where the code compares | two processes, three resources, of which one escapes the comparison, one is claimed by both and one not by all; requests of -1, 0, 1; two units of distance from the start (`Depth`) |
| `banker_safe` | **violation**: unsafe requests are granted | two processes, two resources, requests of 0 and 1 |
| `os_timer` | one creation, deletion when quiet | two threads, two callbacks, an `unsigned int` of four bits and a factor that shares a divisor with its width |
| `http_session` | whole requests only, once, one reply, complete and without stalling, the end of every session of a server that is not closed, the refinement of `SessionLife` | seventeen requests, good and bad, in every cut; three reply calls (one is carried out, one passed the test before, one comes after); devices of 0 to 3 units in pieces of 2 |
| `http_split` | **violation**: a good request in two reads is rejected | four good requests |
| `http_server` | `listen` and the destructor with handlers and sessions, starts that fail | a TLS server, which does all the other two do and more; two connections that hand over twice, two handler threads, three calls of `listen`: one that fails, one that gets the stray permit, one that is stuck |
| `http_client` | one answer per call, the result is that of the own reply, no use of frames that are gone; blocking calls return, callbacks come | one call of each kind: two blocking calls nest in both orders, with the third handled in either loop; a second member call (three levels, 862 thousand states) shows nothing new |
| `subject` | nobody detached is called, everybody attached ends with the last id | three observers, two ids, three notifications inside each other: one is under way, one overtakes it, one comes back to the first id |
| `events_key` | **violation**: `disconnect` with the key of a callback leaves it connected | three connects; one is enough |

`Depth` of `Banker` bounds how far requests take the books from where they began, and
`MaxDepth` of `Subject` and `Events` how deep notifications nest; all other bounds are on
the number of calls, on time, and on what is outside the program. `CHECK_DEADLOCK FALSE` is set where the system may stop: after the destructor,
or when no client or handler calls.

The mutants listed in `PROJECT.json` are operators that stand next to the definition they
replace, each marked "Mutant". A property that no mutant can break would say nothing
about the code.

### Fairness

- `Timer`: the worker, the destructor and time make progress, since they are
  threads and a clock. A handler that calls its timer again and again returns at last, which takes
  strong fairness (`HandlerReturns` is disabled by each of its calls). Nobody has to add,
  remove or destroy, no spurious wakeup has to come and no disturbed call has to crash.
- `HttpSession`: the server's thread handles what is in its event loop (parser,
  posted events, the timer) as long as the loop runs. A client need not send or read, a
  handler need not reply, and nobody need close the server; the timer is what makes sessions
  end. A session of a closed server is not promised to end (`SessionsEnd` names it). The
  streams are finite, so that every client stops sending: one that sends a byte within every
  30 seconds starts the timer anew each time and keeps its session, and nothing is said of it.
- `HttpServer`: the three kinds of thread make progress and the callback of
  a handler returns. Connections, requests and calls of `listen` or of the destructor
  need not come.
- `HttpClient`: timers that run go off and event loops whose `exit` was called return. An
  answer need not come; that is why `CallsReturn` names the calls without a timeout, and
  why nothing is promised of an event loop that has been told to quit.
- `Banker`, `OsTimer`, `Subject`, `Events`: safety only.

## What is proved

All theorems hold for every value of the constants that satisfies the `ASSUME` of
the module: periods, numbers of calls, threads, processes and resources, any requests
and sizes.

- **Timer** (`TimerProofs`). `IInv` is the conjunction of the type invariant, the safety
  invariants of the run, that the order to stop is not lost, and `SlotOfCall`, the
  strengthening about the call made without the mutex: the slot it uses holds the handler of
  the timer that was taken out or one added since (`OwnOrNewer`), and still holds the former,
  valid, when the timer is periodic and was not removed; the handler that was found is
  one of these two. The pool (events, schedule, free stack) is treated by lemmas about pushing, popping and
  overwriting; `OperationKeepsPool` and `TakeDueKeepsPool` say that every locked
  section leaves ids in use once and valid timers in their slots. That a valid slot is not
  overwritten, and that a periodic timer nobody removed is valid, gives both
  `OnlyReleasedTimersLoseTheirCall` and `OnlyGrowthOrReuseDisturbsACall`. For the refinement,
  `DistinctTimes` adds that no two entries share a time, and `HandlersOnce` that no two
  events share a handler and no valid one was removed; every step is then a step of
  `AlarmClock` on the schedule, the ringing timer and the removed handlers, or changes none of them.
- **OsTimer** (`OsTimerProofs`). `QuietStays`, the strengthening, says that a
  timer whose object was deleted quietly is off and has no callback, and that the stopped
  timer is off.
- **Banker** (`BankerProofs`). `Booking` says what `try_alloc` does to each element of
  the books; claims, the balances and claims of compared resources follow. `NothingIsLost` is about a sum over all processes, a recursive function: `TotalChanges`
  says by induction that the sum changes by what one element does, so that what `try_alloc` takes from
  `available` is what it adds. `SafetyPassType`, by induction again, keeps the vectors of
  `check_safety` in their types. `ClaimsAreNotExceeded` has two hypotheses: no amount is negative,
  and there are no more resources than processes; without the second a resource escapes the
  comparison. It holds of the tables in `initialize_prevs` (three resources, four processes), but
  not of the sizes of the default constructor (ten and eight).
- **HttpSession** (`HttpSessionProofs`).
  - The reply. `ReplyInv`: what is waited for is in the socket or the device
    (`wait = unsent + device`), is in the socket at least in part while there is any, and is zero
    before the one reply.
  - The parser. `Bytes` says that `buffer` is the part of the stream between what the parser has
    left behind (`Taken`) and what was read. As long as nothing was rejected one of two things
    holds. `InHead`: no line behind `Taken` is empty, `contentLength` is what those lines announce,
    no handler was called. `PastHead`: the head ends where `Taken - body` says, `contentLength` is what
    the head announces, and between reads the body is not what was announced or a handler has been
    called. `WholeWithBody` ties this to `Complete`, which speaks of the symbols alone: both
    `AcceptedIsWhole` and `WholeIsAccepted` follow. The conjuncts of this invariant were checked by TLC on the
    `http_session` run first; that showed that a session which has rejected a line goes on parsing when
    more is read before its deletion, and promises nothing then.
  - From the same invariant: every round of the parser's loop that goes on takes a line away
    (`ParserLoopEnds`), and the one reason for which a good request is rejected is that more than the probe
    of its request line came before its end (`GoodIsRejectedForASplit`), so that finding 4 has no
    other cause and no header line is rejected for a split.
  - `AcceptInv`: after a request was handed over the head is done, the buffer is empty between
    reads, and its body is at least as long as announced and only grows.
  - `LifeInv`: "delete" stays posted until it is carried out, which gives the refinement of
    `SessionLife`.
  - A session that has read has its timer, as long as the event loop runs (`SessionsAreTimed`).
- **HttpServer** (`HttpServerProofs`). `IInv` ties the places of the owner's and the
  server's thread together: only a failed start leaves the event loop without a server,
  only the destructor of a running server asks it to return, permits are there only
  for an owner that waits, and sessions exist only with a server or after its
  closing; with `Ssl` or without. From it: `listen` tells the truth, `onFinish` has its
  server, nothing outlives the members, no dangling session, and the refinement of `SessionLife`. A destructor that
  waits for the thread has its order to end posted as long as the thread runs (`ClosingIsHeard`).
- **HttpClient** (`HttpClientProofs`). `FlagInv` says that `isCalled` is set exactly for
  a call with an answer, and that it has one; `ExitInv` that the code and the timeout's flag
  of a blocking call the order to quit did not come over are those of its own
  answer, and so is its result. Nesting shows in the type invariant only: the stack
  holds the blocking calls that wait, each once, which is what `Return` needs. `WaitingIsNotInVain`
  adds that a call that waits can be answered: its reply is pending and its flag unset, whatever
  is destroyed, nested or late.
- **Subject** (`SubjectProofs`). The strengthening, `InnermostReaches`, says that whoever
  has not read the present id is still to come in the innermost notification: a change
  puts all of them there, and when it returns nobody is left for the outer ones.

The theorems of the library about induction take the predicate as an operator, and no backend can
instantiate them. `Induction` does without: a set takes the place of the predicate, and that `<` is
well-founded on the natural numbers, a theorem of the library that takes no operator, gives every
set of them a least element (`LeastElement`), from it induction over a set (`SetInduction`), and from
that the existence of a function that follows a recursion up to a bound (`FiniteRecursion`). The
least element also says what the `CHOOSE` of `SelectInSeq` and of `HeadSize` finds.

The assumptions are those of the modules (`HttpSessionAssumption`, `BankerAssumption` and so on): sizes are
natural numbers, sets of calls are disjoint, requests are sequences of symbols. TLC evaluates each
of them in a run.

Every invariant and every safety action property of the passing runs is stated by a theorem. Only
model-checked are the liveness properties (fairness and ENABLED are out of the prover's
reach): `TimersFire`, `DestructorReturnsIfBusy`, `SessionsEnd`, `ListenReturns`,
`DestructorReturns`, `CallsReturn` and `CallbacksCome`. Of four of them a safety part is proved, which says that
who waits is not cut off from what it waits for: `StopOrderIsNotLost` for the timer's destructor,
`SessionsAreTimed`, `ClosingIsHeard` and `WaitingIsNotInVain`. What
the pass of `check_safety` finds is not proved about, apart from its types: its result is not used.

## Findings

1. *Released ids are not always stored* (`timer_released`). `operator<` of `TimeEvent`
   compares times alone, so of two timers for one time the second has no entry; `Remove`
   releases only ids it finds in the schedule, and the id is lost to the pool.
2. *The timer's destructor does not return* (`timer_destroy`). It joins the worker with the
   mutex held and notifies only afterwards; a worker asleep, or about to lock, never
   ends. `DestructorReturnsIfBusy` is what does hold.
3. *The banker grants unsafe requests* (`banker_safe`). `check_safety` returns true
   whatever it found, and compares the wrong way round.
4. *A good request is rejected when its first line is split* (`http_split`). More than
   four bytes without CRLF and without a method end the session. The comment of line 637 says
   that without a separator the data is not complete; that of the test itself, line 640, that
   such a connection may be an invalid one ("没有获取到 method 但是缓冲区内已经有了数据，这可能是一个无效的连接").
   The two disagree about a good request whose first line has not arrived yet, and the code
   follows the second.
5. *A key disconnects the wrong callback* (`events_key`). `connect` stores under
   `m_observer_id` and returns the number after it; `main` disconnects with what it was
   returned, and its first callback stays connected.

Seen while modelling, without a statement in the source to hold against it: after a
failed `listen` the server's thread stays in its event loop for good; another `listen` or
the destructor then waits for ever (`ListenReturns` and `DestructorReturns` are stated
for what has not failed). A session that is open at shutdown is never deleted. A client
that connects and sends nothing has no timer, and one that goes on sending has it started anew.
A handler that adds a timer may have the vector that holds its own function object move under it;
so may an `Add` of any other thread. A blocking call of the HTTP client in a thread
that is told to quit returns true without an answer, unless it was told to quit with 0. Replies
of the client are deleted with its object, and no sooner.

## Plan

Done: Timer, OsTimer, Banker, HttpSession, HttpServer with its three managers, HttpClient,
Subject, Events, each with proofs where there is something to prove (`Events` has
its finding only).

Left, in this order:

1. More proofs: that the action properties and safety parts proved beside the runs'
   properties hold of the abstract specifications too (what an `AlarmClock` promises whoever
   implements it), and the next places the destructor of the server waits at.
2. `close` called by a subclass outside a destructor, and `listen` after it.
3. The loop invariants of `algorithm_utils.py`, which keep no state, if they come to be
   used by something that does.
