# Verification of adequate-api-cpp

TLA+ models of this C++20 web API, from the connection pool to the HTTP server
and the pure code between them, the TLC runs that check them on small
instances, and theorems about them proved with TLAPS.
Paths below are relative to the repository; `core/…`, `services/…` are under
`src/`.

## 1. The system

One process. **One thread** runs `io_context::run()` (`core/bootstrap.cpp`): the
listener, every HTTP session and every database call are coroutines on it, so
what a coroutine does between two suspensions is atomic with respect to the
others, and every `co_await` that really suspends is where they interleave. A
second pool of threads (`blockingPool` in `main.cpp`) runs password hashing and
file writing, and is reached only through `async_offload`.

| component | state | operations | hard behaviour | what makes it correct |
|---|---|---|---|---|
| Connection pool (`PgPool`) | `idle_`, `channel_` (buffer and receivers), `created_at_`, `stopping_` | `query`, `acquire`/`make_or_wait`, `release`, `shutdown` | the capacity check and the count are on two sides of `connect()`; three places a returned connection can go; shutdown among requests under way | no connection in two hands, nobody waits beside a parked connection, the count is the number of live connections, the size is overshot by a known amount, waiters are served |
| Circuit breaker (in `PgPool.h`) | `state`, `consecutive_failures`, `open_until`, `half_open_probe_inflight` | `allow`, `on_success`, `on_failure` | answers of requests let in long before arrive in any state | the fields agree with the state; while tripped, nobody new gets in |
| Offload (`core/helpers/Offload.h`) | `OffloadState`: handler, `cancelled`, `completed`, `ep`, `result` | `async_offload`: initiate, cancel, run, complete | three parties on two kinds of thread; cancellation races completion | the coroutine is resumed exactly once, with a true outcome |
| PostgreSQL connection (`PgConnection`) | `PGconn`, socket descriptor, prepared-statement cache | `connect`, `exec`, `execParams`, `execPrepared`, `ping`, `close` | every wait for readiness races a timer on the same descriptor; retry after an invalid prepared statement | a finished wait disturbs no later one; a closed connection is never used; the cache agrees with the server |
| Transaction | the lease and a finished flag | `begin`, `commit`, `rollback` | BEGIN or COMMIT may fail with the lease held; the lease has no destructor | the lease goes back exactly once |
| Users service and repository | rows of `users`, one directory per user with a picture | create, update, remove, get, list | check, delete, store, UPDATE across four suspensions; either of file and row may fail | the row names the file that is there; one file per directory |
| File storage | the media tree | `store`, `remove`, `exists`, atomic write | temporary file, flush, rename; crash between them, a clean-up that fails unnoticed | a stored file is whole |
| Authentication | none of its own: tokens and rows | register, login, the middleware | a user read before a suspension is used after it | a token is for a user that existed; statuses of failures |
| HTTP session and listener | socket, buffer, keep-alive | accept, read, dispatch, write | an error of one step ends a session or the listener | every request read is answered once; the server keeps accepting |
| Router, middleware chain | route tables fixed at start | `dispatch` | fallbacks to HEAD, OPTIONS, 405, 404; exceptions | one answer per request, the decision order |
| Filters, `SQLBuilder`, `EnvConfig`, `DatetimeConverter` | none | pure functions | numeric edges, numbering | agree with a reference definition |
| Serializers, multipart forms | none | validation, forms to rows | four forms that must agree on what a user is | what one form lets in, the others know |
| Renderers, response, hashing, MIME, OpenAPI, logging, wiring | none, or fixed at start | parsing and formatting through libraries | none that is concurrent, but an error text that does not render | left to the repository's e2e tests; the error text is part of `HttpServer` |
| Redis cache | empty files | none | none | nothing to model |

**Interactions.** A session's coroutine calls the router, which calls
middlewares and a controller, then a service, then a repository, which calls
`PgPool::query`. Services also call `async_offload`. The pool calls its breaker
and `PgConnection`. State shared between requests is the pool, the rows and the
media tree. `PgPool.h:16` says the strand serializes access; what does it is
that a single thread runs every coroutine, because `co_await dispatch(strand_)`
resumes a coroutine on its own executor and not on the strand. The models rest
on the single thread, which `main.cpp` and `bootstrap.cpp` fix.

## 2. Modules

| module | models | relation |
|---|---|---|
| `CircuitBreaker` | `PgPool::CircuitBreaker` | operators conjoined by the pool's actions |
| `PgPool` | `PgPool.cpp` whole, and the requests that use it | extends `CircuitBreaker` |
| `ConnectionPool` | what a pool promises its clients | implemented by `PgPool` |
| `MCPgPool` | TLC instances of `PgPool` | extends `PgPool` |
| `PgPoolProofs` | every safety property of `PgPool`, proved | extends `PgPool` |
| `PgPoolRefinement` | `PgPool` implements `ConnectionPool`, proved, with the mapping of leases and releases | extends `PgPoolProofs` |
| `Offload` | `async_offload` | |
| `OneShot` | what an asynchronous call promises | implemented by `Offload` |
| `MCOffload` | TLC instance of `Offload` | extends `Offload` |
| `OffloadProofs` | invariants of `Offload` and its refinement, proved | extends `Offload` |
| `Transaction` | `Transaction.cpp`, among queries on the same pool; with the pool it still implements `ConnectionPool` | extends `PgPool` |
| `MCTransaction` | TLC instance of `Transaction` | extends `Transaction` |
| `TransactionProofs` | invariants of `Transaction`, and that the pool keeps its promise with transactions, proved | extends `Transaction` and `PgPoolRefinement` |
| `PgConnection` | `PgConnection.cpp`, with the event loop's queue and the server's session | |
| `DbCall` | what the pool counts on from a connection | implemented by `PgConnection` |
| `PgConnectionProofs` | invariants of `PgConnection` and its refinement, proved | extends `PgConnection` |
| `UsersMedia` | `UsersService.cpp` and `FileSystemService.cpp` over rows and files | |
| `MCUsersMedia` | TLC instances of `UsersMedia` | extends `UsersMedia` |
| `UsersMediaProofs` | invariants of `UsersMedia`, proved | extends `UsersMedia` |
| `Router` | the routes and the refusals of `Router::dispatch` | pure operators |
| `HttpServer` | listener, sessions, middleware, controllers and what services make of rows and tokens | extends `Router` |
| `HttpServerProofs` | invariants of `HttpServer`, proved | extends `HttpServer` |
| `Queries` | `SQLBuilder.h`, the statements of `UsersRepository.cpp` and what PostgreSQL does with them | pure operators |
| `Forms` | the four validating serializers, multipart forms, the entity of an update | pure operators |
| `Conversions` | integers of filters and configuration, timestamps | pure operators |
| `Algorithms` | one input at a time through the three pure modules, against what the input says | extends all three |
| `MCAlgorithms` | TLC instance of `Algorithms` | extends `Algorithms` |
| `AlgorithmsProofs` | the forms agree; statements, numbers and timestamps mean what was asked, proved | extends `Algorithms` |

### The pool

A request is `out` of the pool, inside `connect()`, `waiting` in
`async_receive`, or `leased` (running its query). `AcquireIdle`,
`AcquireConnect`, `AcquireBuffered` and `AcquireWait` are the four ways through
`make_or_wait` up to its first real suspension, with `allow()` in each;
`ConnectOk`/`ConnectFail` are the end of `connect()`; `QueryOk`, `QueryDbError`
and `QueryInfraError` are the three ways out of `query()`, each with the
breaker's reaction and the whole of `release()`; `Shutdown` is `shutdown()`.

What is abstracted:
- healthy parked connections are interchangeable, so `idle_` and the channel's
  buffer are sets; the queue of receivers keeps its order;
- a call that is refused (stopping, breaker open) throws and changes nothing:
  it is a stutter;
- the clock is the number of ticks left until `open_until`. How long a query or
  a connect takes is not related to ticks: the connect deadline
  (5 s) and the timeout every repository query passes (5 s) are longer than the
  open window (3 s), so requests can outlast a window;
- a query ends in a result (the connection healthy or not), a `DbError`, or
  another exception; after an exception `PgConnection::runQueryWithTimeout` has
  closed the connection;
- `shutdown()` has no caller in the program; it is modelled as it is written,
  and the specification `ServingSpec` leaves it out for the findings, which are
  about the program as it is wired.

`probing` is a history variable: the requests the half-open breaker let in. It
is used by no guard.

### Offload

`Initiate` is the initiation on the io thread. `Cancel` and `PostAbort` are the
two steps of the cancellation handler, between which workers run.
`StartFunction`, `SkipFunction` and `EndFunction` are the worker: it takes the
first posted function, loads `cancelled` (a relaxed load may miss a store, so
`StartFunction` is possible for a cancelled call), and posts the completion.
`RunPosted` is the io thread running the first posted handler; `Resume` is the
exchange of `completed` that only one handler wins. The void and the value
branch of the template are the same protocol and one model. No session of this
program has a cancellation slot connected (`co_spawn(..., detached)`), so the
signals are those of the function's contract, not of today's callers.

### Transaction

A caller in `Callers` acquires a lease as any request does and then runs a
transaction on it instead of a query. `BeginOk`, `CommitOk` and `Rollback` are
the three operations; `BeginThrows` and `Abandon` lose the lease
(`Transaction.cpp:5`: the object is not constructed, or goes out of scope, and
`Lease` has no destructor, although `PgPool.h:74` speaks of an "RAII return to
pool"); `CommitThrows` keeps it, so that a caller that catches may still roll
back. The statements between change nothing the pool sees. Callers end a
transaction once, which the class does not enforce. `lost` counts the leases
that never come back. Nothing in the program constructs a `Transaction` yet.

### The connection

`stage`, `io` and `wait` say at which `co_await` the coroutine is; `queue` is
the event loop's queue of posted handlers, whose head is the next thing the
thread runs. `SocketReady` and `TimerExpires` are the reactor posting the
completion of the wait and of its timer; `RunTimer` is the lambda of
`PgConnection.cpp:320` (and 364) in its own wait, `RunStaleTimer` the same
lambda run after its wait has returned: it writes to a frame that is gone, which
is undefined and modelled as no effect or the setting of the flag of the wait in
progress, whose frame may be the same memory. `CallHealthy`, `CallConnecting`
and `CallRefused` are the entry of a call through `ensure_connected`;
`ConnectPoll` is the loop of `connect()`; `Send`, `Flush` and `Receive` the
three parts of `runQueryWithTimeout`, of which `StatementThrows` is the catch
with everything `execPrepared` does afterwards. `Answer` is the server,
`SwapSession` a proxy that gives the connection another session, for which the
code's two predicates on error texts exist.

What is abstracted: rows and texts (an error's text is "exists", "invalid" or
neither, and may be any of them whatever happened, since at the default
verbosity the texts need not hold what the predicates look for); the socket
is one (libpq may exchange it while connecting); `PQcancel` and a
`PQgetResult` that blocks stall the thread and are not states. `execPrepared`
and `ping` have no caller in the program.

### Users and their pictures

A request is at the step where its coroutine, or the worker that stores its
file, is: `Clear` is `exists` and `remove` of the user's directory on the
event-loop thread, `ClearSkipped` an `exists` that fails and so answers false
(`FileSystemService.cpp:129-131`), `ClearFails` a `remove_all` that stops half
way; `MakeDir`, `OpenTemp`, `Write` and `Rename` are the steps of `store` and
`writeFileAtomic` on the worker. `StoreFails` is a failure of the last two with
the temporary file removed, `CleanUpFails` the same with an error of that
removal, which the code does not look at. `SqlOk`, `SqlRefused` and
`SqlUncertain` are the statement: it ran, it did not, or the caller got an error
(a timeout, a lost connection) while the statement, be it an UPDATE or a DELETE,
has run or will run later (`limbo`, `SqlLate`). `Kill` is the process killed at
any point; files and rows stay, requests are gone. A file is whole once its
bytes are written and `out.flush()` has passed them to the system. Names are
random in the code and fresh here.

Three history variables serve the properties. `littered` says that a kill or a
failed clean-up may have left temporary files. `alone` holds the requests that
overlapped no other on their user, and no late statement. `settled` is how the
last such change of a user's picture ended, until the user is touched again:
`stored` and `removed` (204), `failed` (an error), and the two other ways to a
204: `orphaned`, a picture stored for an id without a row, and `misnamed`, a
picture part without bytes, whose name goes into the row. A change that met
another, whose `exists` or `remove_all` failed or whose temporary file stayed
is `disturbed`, of which nothing is claimed.

### The server

`Router` is a table of the routes and `Refusal`, which is the decision order of
`dispatch`: 404, automatic HEAD, automatic OPTIONS, 405, 415, 400. In
`HttpServer` a connection is off, in the backlog, reading, at one of the awaits
of its request, or writing. `Read` is parsing and everything `dispatch` and the
middleware do before the first suspension; `Known` and `Unknown` are the
middleware after its look at the database; `Proceed`, `Invalid` and
`HandlerThrows` are a controller up to its first statement (hashing and storing
suspend, but nothing shared is read before them); `Sql…`, `Lookup`, `Fetch` and
`Verify` follow the awaits of the services; `Throw` is an exception that leaves
the chain: a 500, and for an automatic HEAD, whose call is outside the `try`
(`Router.cpp:250`), the end of the session without an answer. `Unrendered` is
the other way to end so: `make400` and `make500` are rendered outside every
`try` (`Router.cpp:333-338,352-356`), and `dump()` (`JsonRenderer.cpp:23`)
throws on a text that is no UTF-8. Such a text comes from a JSON parser that
cites the body: a body's `ascii` says that it holds nothing of the kind, and a
request is `raw` when its refusal, or the 500 of its handler, may cite one that
does. `Expire` is the hour of a token passing. Signatures and hashes are taken
to work: a header decodes to a user with a good token or to none.

Things the model follows that a reader may not expect: the 413 of
`Router.cpp:306` cannot be reached, as the parser has the same limit and its
error ends the session unanswered (with the default limit of 0 every body
does); 401 and OPTIONS keep the connection whatever the client asked; a
multipart body on `POST /users` or `/register` throws in the controller and is
a 500; `PATCH /users/{id}` takes multipart only, and a JSON body is a 415 although
the controller reads one; `/login` answers 201 where `Routes.cpp:51` documents
200; the 404 documented for updates and removals (`Routes.cpp:111,133`) is
never given, an id without a row being a 204; a duplicate email is a 409 from
`/users` and a 500 from `/register` (`AuthenticationService.cpp:76` lets the
`DbError` pass).

### The pure parts

`Queries` keeps a statement as the clauses of its text with the number of each
placeholder, and evaluates it on a table, so that a placeholder that is one off
selects or changes other rows; `WellFormed` is the grammar PostgreSQL holds such
a text to. A list becomes an array's literal, its texts joined and neither
quoted nor escaped (`SQLBuilder.h:132`): what PostgreSQL reads there is the
constant `ArrayIn`, of which only this is assumed, that texts in `Plain` (those
without a quote, a backslash, a brace or an outer space, that are not NULL) are
read as themselves; `Malformed` stands for a literal it refuses. `MaxListed` is
the length of the lists, `Names` the texts that may be asked for. An insertion
is of what `Created` makes of a body some serializer has accepted, the password
hashed, its parameters pushed in the repository's own order. The rows a
statement finds are the set of their places in a table that is in order of id; a
SELECT may answer any of the sets its clauses allow, which is one page if it has
an ORDER BY. `Forms` tells a text by what the validations ask of it.
`Conversions` has the widths of `int64_t`, `int` and `uint16_t`, the six digits
of a fraction and the base 10 as parameters, because the code is the same for
every width. `Algorithms` has no system to follow: its state is one input,
chosen freely.

What they say of the code besides the properties: an id list of tokens that are
all no numbers filters nothing, and the list is of everybody
(`BaseFilter.cpp:14`); "12abc" is 12; ids above 2^31-1 overflow `stoi` in
`JwtService` and `UsersController`; a configured port wraps modulo 2^16 and a
size of -1 becomes 2^64-1 (`EnvConfig.cpp:16`); the zone of a timestamp is
ignored, which is right only for sessions in UTC; times before 1970 lose their
fraction in `to_iso_string`; a picture part without bytes names the row's
picture with the client's own file name and stores nothing
(`UsersService.cpp:118`).

## 3. Runs

Each passing run explores its whole state space; requests, connections and
calls are recycled or finite, so nothing bounds the number of steps except the
number of cancellation signals in `Offload` and of readiness events for one
statement in `PgConnection`, both named constants.

| run | instance | what it shows |
|---|---|---|
| `pool_safety` | 4 requests, 5 connections, size 2, threshold 2, window of 1 tick, symmetric | `ExclusiveLease`, `QueueConsistent`, `CountExact`, `NoWaitBesideParked`, `BoundedOvercreation`, `IdleOnlyOnOvershoot`, `BreakerConsistent`, `FailuresBounded`, `LoadShedding`, and that the pool implements `ConnectionPool` |
| `pool_liveness` | 3 requests, size 1 | `WaitersServed`: if healthy connections keep coming back, every waiting request is served |
| `offload` | 2 calls, 1 worker, 2 signals per call | `ResumedOnce`, `OutcomeTrue`, `NeverForgotten`, that it implements `OneShot`, and `EveryCallAnswered` |
| `transaction` | 2 callers and 2 queries, 5 connections, size 2, no shutdown | `CapacityAccounted`: the count is the live connections and the lost leases; `TransactionsIsolated`: nobody else gets a transaction's connection |
| `connection` | 2 statement names, 2 readiness events | `WireClean`: no answer of a statement is left for the next; `CacheTrue`: cached names are the session's; `ResultIsOwn`: a result is the call's own and its statement ran once; `RetryIsFutile`; that it implements `DbCall`; `CallsEnd`: no call hangs |
| `users_media` | 2 requests at a time on 1 user, 4 names | `FinalFilesWhole`, `TempsOwned`, `NamedAfterStored`, and `LoneChangeOutcome`: how an undisturbed change, by the way it ended, leaves row and directory, whatever was there before |
| `http` | 2 connections, 2 users, 1 email | `OnlyAuthorised`, `AnswerTellsEffect`, `RequestsAnswered`, `BacklogServed` |
| `algorithms` | words of 4, 3 and 2 bits, 3 binary digits, forms of up to 3 parts, a table of two rows, lists of up to 2, three names to list of which one is plain, one quoted and one breaks the literal | `StatementsMeanRequests`, `FormsAgree`, `ValuesSurvive` |
| `pool_probe_decides` | 3 requests, no shutdown | finding: HalfOpen for good |
| `pool_wait_only_at_capacity` | as `pool_safety`, no shutdown | finding: a freed slot wakes nobody |
| `connection_timer` | 1 name, 1 readiness event | finding: a disarmed timer acts |
| `media_one_file` | as `users_media` | finding: two files in one directory |

**Why these bounds.** Size 2 with four requests lets two connects overshoot, a
connection reach `idle_` behind a full channel, two requests queue, and
stragglers of before a trip fail while a probe runs. Five connections are as
many as can be live or opening (size + requests - 1). Threshold 2 separates
counting from tripping; one tick separates an open window from its end. In
`offload` one worker makes the second function queue behind the first, and two
signals let one come after the completion. Two callers and two queries are the
least with which a lost lease, an overshoot and a queue coexist. In `connection`
two readiness events let a statement need a second wait, which a stale handler
of the first may meet; with two names one is cached while the other is not. One
user is enough for `users_media`, since directories and rows of different users
share nothing; two requests race in every pair of steps, and four names are what
the row, two stores and late statements can refer to (fewer would block a store
that the code lets go on). Kills, failed clean-ups and skipped clears may leave
more files behind than that: where every name is in use no further store begins,
in TLC but not in the proofs. In `http` two users want one email, one can be
removed while its token is good and its requests under way; routes, methods and
bodies are all of them. In `algorithms` every width differs from every other,
and the texts reach past the widest; a form of three parts can repeat a field
and hold another, and a list of two can hold a plain name beside one that is
not. What the bounds leave out of the safety properties, the proofs of section 5
cover for every value.

**Fairness.** `ConnectEnds` and `QueryEnds` are weakly fair because `connect()`
has a deadline and each query a timeout after which it throws: `PgConnection`
shows it (`CallsEnd`), under the event loop, the clock and the reactor alone,
with a server that owes nothing. Its premise, that stale handlers stop coming,
is needed and is part of the finding on the timer. Nothing makes a client call,
so acquiring is not fair, and the wait on the channel has no timeout, so it is
not fair either. `WaitersServed` states its own premise (healthy returns keep
happening), as the finding `pool_wait_only_at_capacity` shows it must, and so
does `RequestsAnswered` (database calls of the request end): it is exactly that
wait which may not. In `Offload` the pool's threads, the functions they run
(hashing, verifying, storing a file) and the event loop are weakly fair; in
`HttpServer` what a session does itself and the listener's accept are.
Clients are never fair.

`CHECK_DEADLOCK FALSE` is set where the system may stop: calls of `Offload`
that are all answered leave nothing to do; a breaker stuck in HalfOpen with no
request in the pool has no step, which is the finding itself; a pool whose
every slot is a lost lease keeps its waiters for ever; a stopped server takes
no step.

## 4. Findings

Shown by runs:

1. **HalfOpen for good** (`PgPool.h:54`, `PgPool.cpp:57-61`). A probe that ends
   in a `DbError` reports neither success nor failure. The flag stays set, and
   with nobody in the pool nothing can clear it.
2. **Waiting beside free capacity** (`PgPool.cpp:91,108,122`). Dropping an
   unhealthy connection lowers the count and wakes no receiver.
3. **A disarmed timer acts** (`PgConnection.cpp:333`, "Disarm timer"). A timer
   whose handler is posted when the wait ends is past cancelling: its handler
   writes into a frame that is gone and cancels the wait after it.
4. **Two files in one directory** (`UsersService.cpp:120`, "one file - one
   dir"). Two updates of a user may both clear the directory before either
   stores.

Stated by properties that hold, or by the models' text:

- More than `size_` connections (`PgPool.cpp:92-98`): the check precedes
  `co_await connect()` and `++created_at_` follows it. `BoundedOvercreation` is
  the exact bound, size + requests - 1.
- More than one probe (`PgPool.h:40`, "access only for 1 probe"): a straggler's
  failure in HalfOpen is taken for the probe's, the breaker trips, and the next
  window lets in another beside the first. `LoadShedding` is what remains true.
- A `BEGIN` that throws costs a connection's capacity (`CapacityAccounted`).
- The retry after an invalid prepared statement never succeeds: the catch of
  the first attempt has closed the connection it runs on (`RetryIsFutile`).
- Registration takes an email that is none (`RegisterSerializer.h:63`, while
  its schema at line 88 says format email), and its owner can never log in
  (`FormsAgree`).
- Listed names are not quoted (`SQLBuilder.h:132-140`; `UserListFilter.h:53`
  says "Comma-separated usernames"). `"u2"` with its quotes lists the user u2, a
  brace or a lone double quote makes the literal malformed and the answer a 500,
  and NULL, backslashes and outer spaces are not the name's own.
  `StatementsMeanRequests` is exact for plain names and says of others that the
  statement parses and loses none of its other conditions.
- An empty picture (`UsersService.cpp:118`): an update whose picture part has a
  name and no bytes is a 204, touches no file, and writes the client's file name
  to the row (`misnamed` of `LoneChangeOutcome`).
- A picture for an id without a row: the file is stored, the UPDATE changes
  nothing, the answer is 204, and the file stays without a row that names it
  (`orphaned`). A removal of the user during a store leaves the same.
- `exists()` takes an error for "not there" (`FileSystemService.cpp:131`), so an
  update may store beside the file it should have replaced (`ClearSkipped`); a
  temporary file whose removal fails stays for good (`CleanUpFails`).
- An error text that cites bytes which are no UTF-8 cannot be rendered: a 400 of
  a JSON body, or the 500 of a body without a content type on `/register`,
  `/login` or `/users`, ends the session unanswered (`Unrendered`;
  `RequestsAnswered` excepts it).
- A list of ids of which none is a number is a list of everybody
  (`BaseFilter.cpp:14`).
- An exception during an automatic HEAD ends the session unanswered
  (`RequestsAnswered` excepts it), and an error of one accept ends the listener
  (`bootstrap.cpp:98`; `BacklogServed` holds because the backlog goes with it).

## 5. Proofs

Every safety property a passing run checks is also a theorem, and so is each of
the four refinements. The theorems hold for every value of the constants that
the modules' assumptions allow:

| assumption | what it says |
|---|---|
| `BreakerAssumption` | a positive threshold and window |
| `PoolAssumption` | finitely many requests, at least one, and enough connection identities for the overshoot, so that they never run out |
| `TransactionAssumption` | the callers are requests |
| `OffloadAssumption` | finitely many calls |
| `ConnectionAssumption` | `connect` and `params` are no statement names; at least one readiness event |
| `MediaAssumption`, `HttpAssumption` | the marks for "no row", "no picture" and "nobody" are not users, emails or names, nor is the client's file name one the code generates or a mark |
| `ConversionsAssumption` | positive widths in the order of the code's, a maximum that fits a word, a default below it |
| `LiteralAssumption` | plain texts in an array's literal are read as themselves; nothing is assumed of others |
| `TableAssumption` | the table is a sequence of rows of the five columns, its ids plain, and holds no `Malformed` |

### The arguments

- **`PgPoolProofs`**. `ExclusiveLease` is not inductive by itself: what
  `release()` gives away is a connection only if the leaser holds one, and the
  receiver it gives it to has none only if the queue names waiting requests,
  each once. The inductive invariant is
  `HandsInv == TypeOK /\ ExclusiveLease /\ QueueConsistent`, proved per action
  through lemmas on handing over, parking, holding and moving. From it follow
  `TypeCorrect`, `LeasesExclusive`, `QueueIsConsistent`. `BreakerIsConsistent`
  adds the breaker's own case analysis; `TrippedShedsLoad` is the action
  property that no request enters while the breaker stays tripped;
  `NobodyWaitsBesideParked` adds that requests wait only with both places
  empty. `LiveStep` says what each action does to the set of live connections,
  from which `CountIsExact` and `OvercreationIsBounded` follow by cardinalities.
  `FailuresAreBounded` needs `FailuresPaid`: while Open, what has been counted
  and the requests still in the pool, each of which may fail once more, stay
  together below threshold + requests; `BreakerFates` lists the ways a step may
  move the breaker and who leaves the pool with it. `IdleAfterOvershoot` needs
  `ChannelFirst`: while `idle_` holds a connection the channel is full, so with
  the count the pool has more than `size_`.
- **`PgPoolRefinement`**. `PoolImplementsPromise`: under the mapping "a
  connection is open when it is live, held by the request that leases it",
  every step of the pool opens, lends, gives back, hands on or discards a
  connection, closes parked ones, or stutters.
- **`TransactionProofs`** rests on the pool's: every pool step leaves a caller
  its lease (`PoolKeepsLease`), and the ends of a transaction are the pool's
  `release()` or its loss, so `HandsInv` carries over. `TxInv` adds that a
  transaction is open only on a lease. `CapacityIsAccounted` is the pool's
  count with the lost leases on the other side. `TransactionsKeepPromise` uses
  the mapping of `PgPoolRefinement`: BEGIN and a COMMIT that throws are
  stutters, COMMIT and ROLLBACK are `RefinesRelease`, a lease that is lost is a
  connection discarded. The bound on connections survives the losses because
  `created_at_` never falls below the live connections. This refinement has no
  run of its own: the theorem covers every instance.
- **`OffloadProofs`**. `OffloadInv` adds to the properties what a posted handler
  and a recorded verdict say of the past (`CallInv`) and that the pool's queue
  holds functions not begun, each once. It gives `CoroutineResumedOnce`,
  `OutcomesAreTrue`, `NobodyForgotten` and the refinement
  `OffloadImplementsOneShot`.
- **`PgConnectionProofs`**. The invariant has two halves. `WaitInv`: the
  coroutine waits exactly when it is neither idle nor on the thread, and the
  queue, whatever timers' handlers it holds, has exactly one completion when a
  wait is posted and none otherwise; so nobody is resumed by another wait's
  completion, which is what the stale handlers of finding 3 leave intact.
  `CallInv`: something is on the wire only for the statement that put it there
  (`Wire`), a statement past its send has a working connection (`Session`), the
  server has run a statement only if it has answered it (`Progress`), and a
  retry stands before its send without a connection (`Retry`), together with
  `CacheTrue`, `ResultIsOwn` and `RetryIsFutile`. `WireIsClean` follows, and so
  does `ConnectionImplementsDbCall`: a call ends once, and without a result
  only with the connection unhealthy.
- **`UsersMediaProofs`**. `Shape` says what a request's step tells of its kind,
  its user and its file. `NamesUnique` and `Unnamed`, which rest on `Fresh`,
  are that a name is one request's from the opening of its file on and in no
  row before its statement, and give `TempsAreOwned`, `RowsNameStoredFiles` and,
  with `WrittenBeforeRenamed`, `FilesAreWhole`. For
  `LoneChangesAccounted` the directory of an undisturbed request is followed
  through its steps (`LoneDirectory`): empty from `Clear` on, then its own file
  alone, whatever was there before; each end of the request is then one of the
  outcomes, for the successes as for the errors.
- **`HttpServerProofs`**. `Knows` is what each step of a connection tells of its
  request. `AlwaysAuthorised` needs `Lawful`: tokens are of users that were
  inserted, rows never come back (`RowsLast`), and the user of a request that
  was read after his removal is still gone at the middleware's look-up, which
  so lets nobody through. `AnswersTellEffects` needs that nothing is written
  before the statement, and what `Wrote` says of each leaf.
- **`AlgorithmsProofs`**. `FormsDoAgree` is for the bodies of the model. The
  statements are for any filter, values and table; what a list of texts means is
  `ArrayIn` of it (`Asks`), and what the filter says (`Wanted`) where the texts
  are plain (`PlainArrays`). For other names the statement still parses and keeps
  every other condition. `Parses` is what the
  builder keeps from call to call: the clauses are in the grammar's order with
  one WHERE before every AND, and the placeholders are $1 to $m in the order of
  the text, once each. It gives `WellFormed`, which alone would not be kept: a
  clause may be added only because no later part is there yet and because its
  number is one past all others. `OneMoreClause` says that a clause which is
  bound adds its own condition, bound or order and changes no other;
  `WhereNarrows`, `PagingBinds` and `OrderNarrowsNothing` are its uses, and a
  call of the builder after another composes them (`ListsMeanTheirFilter`,
  `ExistenceMeansItsValues`, `OneRowStatements`). Pages are sets of places, so
  `ListsReadTheirPage` needs no more than that the rows found are those wanted;
  that a log-in reads one row if there is one is `PageOfOne`, the least place
  of a set. For updates `EmplacedTells` and `ChangesTell` carry through the
  four fields that values and names are at the same places, so that
  `FieldsAreSet` finds each value at the number of its own column and the id's
  behind them all; `LastIsSaid` is that of the parts of one name and kind the
  last is kept, however long the form. `StatementsDoMeanRequests` joins them,
  without hypotheses.
  `ValuesDoSurvive` is for every width, base and precision. Its hypotheses
  `Doubling` and `Shifting` are the recursion that defines `^`, of which the
  provers know nothing; that powers are positive and grow is derived from them.
  For timestamps, `MicrosReads` says that the number read keeps, at every
  length, the digits read so far, and `DigitsInFront` that dividing by a power
  of the base leaves the digits in front, whose remainder is the digit asked
  for (`Division`).
  Induction comes in through `LeastNumber` (a set of naturals has a least
  element, from the well-foundedness of `<`): a counterexample would have a
  least one.

**Only model-checked**:

- the liveness properties `WaitersServed`, `EveryCallAnswered`, `CallsEnd`,
  `RequestsAnswered` and `BacklogServed`: fairness and ENABLED are out of the
  prover's reach;
- the findings, which are counterexamples.

## 6. Plan

The models are in place and every safety property has its theorem. What would
come next, should the code move:

1. If `Transaction` gets a caller, a service that runs one, over `Transaction`
   and `UsersMedia`: whether an update may be undone after its file is stored.
2. If `Lease` gets a destructor, or a dropped connection wakes a receiver,
   `CapacityAccounted` becomes `CountExact` and finding 2 a property.
3. If `io_context::run()` gets a second thread, every model with "on the
   event-loop thread" in it is to be split at each access to shared state.

## 7. Not modelled

- **Text**: HTTP headers, the parsing of multipart bodies and query strings,
  JSON and the text of rendered answers, SQL's text (its clauses, placeholders
  and parameters are; how PostgreSQL reads an array's literal is a constant),
  names of files and MIME types. They are data transformations through
  libraries; a model would restate them.
- **Serializers' copies** from rows to answers and the schemas for OpenAPI.
  `UserSerializer::toEntity` parses ISO text with the parser of PostgreSQL's
  format, which refuses it; it has no caller.
- **OpenAPI generation and the Swagger page's content**: run once at start from
  constants. **Hashing and MIME detection**: thin wrappers of libsodium and
  libmagic. **Logging and wiring**: output, and construction in `main.cpp`.
  **Redis cache**: the files are empty.
- **Stalls**: `PQcancel` and a blocking `PQgetResult` hold up the event-loop
  thread. That is time, not a state.
- **Power cuts**: `Kill` takes the process; what the disk keeps of it is
  everything. The code flushes its stream and syncs nothing, so after a power
  cut a renamed file may be short or empty: `FinalFilesWhole` does not cover it.
  The pool and every offloaded call are lost with the process: nothing of them
  persists.
- **The calendar** of `DatetimeConverter` is the C library's; the model has the
  fraction and the second.

## 8. Running

In this directory, with the community modules on TLC's path:

    tlc -workers 2 -config PgPoolSafety.cfg MCPgPool.tla
    tlc -workers 2 -config PgPoolLiveness.cfg MCPgPool.tla
    tlc -workers 2 -config Offload.cfg MCOffload.tla
    tlc -workers 2 -config Transaction.cfg MCTransaction.tla
    tlc -workers 2 -config PgConnection.cfg PgConnection.tla
    tlc -workers 2 -config UsersMedia.cfg MCUsersMedia.tla
    tlc -workers 2 -config HttpServer.cfg HttpServer.tla
    tlc -workers 2 -config Algorithms.cfg MCAlgorithms.tla
    for m in PgPoolProofs PgPoolRefinement TransactionProofs OffloadProofs \
        PgConnectionProofs UsersMediaProofs HttpServerProofs AlgorithmsProofs
    do tlapm $m.tla; done

The cfgs of the findings (`PgPoolProbeDecides`, `PgPoolWaitOnlyAtCapacity`,
`PgConnectionTimer`, `UsersMediaOneFile`) end in the counterexample. Operators
marked "Faulty variant" in the modules are the bugs each property was tried
against; no specification uses them.
