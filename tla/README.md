# A verification project for postfix-mta-sts-resolver

TLA+ models of the daemon that tells Postfix which MTA-STS policy a mail domain
has, TLC runs over small instances of them, and proofs checked by TLAPS that
hold for every instance. `PROJECT.json` lists the components, the runs, which
lines each definition models, the hazards and the theorems. Source paths below
are relative to `postfix_mta_sts_resolver/`.

## 1. The system

One Python process, one asyncio event loop: code runs without interruption from
one `await` that suspends to the next. Postfix opens socketmap connections and
pipelines requests ("zone domain") as netstrings; each is answered `OK ...` or
`NOTFOUND`.

| Part | State it keeps | Operations | Talks to |
|---|---|---|---|
| Connection (`responder.py` `handler`, `sender`) | parser, bounded queue of futures, two tasks, transport | parse a request and start its lookup; await, write, drain; finalize; shut down | client, lookups |
| Responder (`responder.py` `start`, `stop`) | server, set of handlers | listen, spawn a handler, wait for handlers or cancel them | connections, daemon |
| Policy lookup (`process_request`) | locals `cached`, `ts` across its awaits | read cache, judge staleness, resolve, store, answer | cache, resolver |
| Resolver (`resolver.py`) | none | TXT query, compare ids, fetch and validate the file | DNS, HTTPS |
| Proactive fetcher (`proactive_fetcher.py`) | one task, a domain queue, the processors of a round | sleep, scan, queue, process, join, clean up, stop | cache, resolver |
| Caches (`internal_cache.py`, `sqlite_cache.py`, `postgres_cache.py`, `redis_cache.py`) | domain -> (ts, id, file); time of the last round | get, set, scan | database |
| Connection pool (`SqliteConnPool`) | queue of free connections, ready and stopped flags | prepare, borrow, return, replace, stop | SQLite cache |
| Netstring codec (`netstring.py`) | buffer, length, progress | feed, read, next_string, decode | handler |
| Notifier (`asdnotify.py`) | queue, "monitored" flag | notify, drain, stop | systemd |
| Daemon (`daemon.py`) | exit event, heartbeat | start-up, signals, shutdown order | all |
| Helpers (`utils.py`, `defaults.py`), query tool (`__main__.py`) | none | sequential functions | |

What is hard here: replies without request numbers over lookups that finish in
any order; two tasks per connection that each may die or be cancelled while the
other waits for it; read-lookup-store sequences on one cache entry by many
tasks, without locks and with time stamps as the only arbiter; a DNS id and a
file that are read at different moments; a cache scan resumed by a count while
the cache is reordered; parsing across chunk boundaries; pooled connections whose
borrowers fail, time out or are cancelled at any await while the pool is being
stopped; a shutdown that waits for handlers while new ones appear; cancellation
that `asyncio.wait_for` may swallow (Python up to 3.11). The list with lines is under
`hazards` in `PROJECT.json`.

What makes each part correct: a connection answers everything in order, bounds
its work and always ends; a lookup answers from a valid, unexpired policy, is
not downgraded by a failure, and the cache converges to what the owner
published; a round of fetching reaches every domain, recurs and leaves nothing
behind; a stream means the same however it is cut; a pool keeps its slots; the
notifier delivers what it accepted; the daemon shuts its parts down in an order
that lets each finish.

## 2. The modules

### PolicyLookup - one domain's policy

The tasks `process_request` and `process_domain` that deal with one domain, the
cache entry of it, and the owner, who renews first the file (`web`), then the
id (`dns`); stale DNS answers may give any older id. `pc[t]` is the await a task
is at; between two values of it the code does not suspend, so an action is what
the code does from one await to the next. `cached`, `ts` and `polId` are the
code's locals (`cached`, `ts`, the record's id). The three families of backends
differ in `Stored`: overwrite (internal), compare whole seconds with `<`
(`StoredSql`; sqlite's insert-then-update and postgres' upsert have the same effect,
as rows are never deleted: either the insert takes effect and is all there is, or it
finds the row and changes nothing, and only the update counts, which compares for
itself), highest score wins with ties decided by a random prefix (`StoredRedis`).

Time stamps are represented by ages. The code only ever subtracts or compares
them, so an age says the same, and entries older than `Horizon` need not be told
apart: `TimeAssumption` requires `Horizon` to be large enough for every
comparison the code makes. `MaxFlight` bounds a lookup, as its timeouts do. A
request handled on another domain shows only as `Evict`. `CalmDown` marks the
moment after which nothing fails, is cancelled or is published; only
`Convergence` uses it. `FetchDies` is an exception of a scan or of the fetch time
stamp, which ends the fetch task for good (the run fetch_dies is about that), so
`Scan` is weakly fair only as long as that task lives, and `Convergence` asks of the
surroundings that it survives or that requests keep coming. Not told apart: NONE and FETCH_ERROR (no caller does),
contents of TXT records beyond the id, HTTP statuses, wording of the answers.

Properties: `TypeOK`, `BodyNotOlderThanId`, `OnlyValidPolicies`,
`ServedUnexpired`, `SupersededByNewer`, `NoDowngrade`, `Convergence`.

### Connection and OrderedReplies - one client

`Connection` has the handler (`hpc`), the sender (`spc`), the queue between
them, the lookups (`status`), the bytes on the way (`inbox` in the StreamReader,
`bio` in the netstring parser, both counted in requests), the transport and
`stop()`. While it parses (`hpc = "parse"`) the handler has the loop to itself,
as neither `reader.read` with data there nor `put` with room suspends. `Die` is
the except clauses of `sender` with `cleanup_queue` and the closing of the
writer; `ShutdownTimeout` is what the timeout in `stop()` does to one handler.
With `CancelMayBeLost` a cancellation of the sender may be swallowed by the
`wait_for` in the lookup it awaits, and so may those of queued lookups that a dying
sender cancels: these run on outside the queue (`strays`). `OrderedReplies` is what the client is
promised; `Promise` instantiates it and `PromiseKept` says that a connection
implements it, `PromiseKeptFairly` with the fairness.

Abstracted: what requests say, partial writes, and a request cut over several
chunks (the matter of `Netstring`).

`swallowed` is history: a cancellation of the sender was lost. Properties that a
lost cancellation breaks except that case by it, or except just the lookups in `strays`.

### ProactiveFetch - rounds of fetching

The fetch task (`fpc`), `domain_queue`, the processors (`work`) and the cache as
a sequence of domains: least recently used first for the internal cache, by
rowid for the SQL ones. `backend` is the cache configured; `Backends` says which a
run looks at. The internal cache and a `put` with room do not suspend, so a scan,
its puts and the next scan run in one go until the queue is full (`Inline`); with
a database others run during a scan. A Redis scan is what Redis promises of SCAN:
domains cached throughout are returned at least once, in portions of any size up to
`ScanExcess` above the one asked for, others any number of times; `token` is then
the set of domains still to come. `Unwind` is an exception or a cancellation that
reaches the `finally` clause, `Unwound` the end of its `gather`. Borrowing a SQLite
connection is itself a `wait_for`, so with `CancelMayBeLost` the fetch task may
lose the cancellation of `stop()` as a processor may (`stopping = "lost"`). Which
policy a processor stores is in `PolicyLookup`. `owed` and `touched` are history.

### SqliteConnPool - connections and who has them

`prepare`, `stop`, and of each borrower where it is: waiting in `get`, in the body of
`async with` (before and after its INSERT or UPDATE, after the commit) or in
`__aexit__`, closing a connection that saw an error and opening its replacement.
`open` are the connections the process has, `free` the ones in `_free_conns`,
`dirty` those with an unfinished transaction. Every await may be left by a failure,
a timeout or the cancellation of the lookup it serves. An aiosqlite connection
closes in its own thread, so a cancelled `close()` closes it all the same
(`CloseCancelled`). A cancelled `connect()` (`sqlite_cache.py:25`, outside the `try`) is
taken to leave nothing open, which depends on the version of aiosqlite. A timeout or a
cancellation that meets the connection inside `wait_for` is asyncio's business: here a
borrower either gets the connection or leaves it in the pool. `lost` counts slots that were not refilled, `late` are
replacements opened after `stop()` was called; both are history. The order of the
free connections is left out: nobody can tell them apart.

### Daemon - from setup to exit, with the pool

`amain` with a SQLite cache (`stage`), the responder's server, handlers and `stop()`,
the notifier, signals and the heartbeat, composed with the pool:
`Pool == INSTANCE SqliteConnPool WITH Borrowers <- Tasks`, where a task is a client's
lookup or the fetch task. Every step of a borrower is a step of the pool together with
what it means for the task: `Work` while it is at work, `Deliver` when its cancellation
arrives at the await where it is, `Unwind` for the rest of its `__aexit__`,
`UnwindFails` when the replacement of its connection fails and that error takes the
place of the cancellation (a lookup catches it and goes on, the fetch task dies of it or,
in a processor's update, goes on), `Swallow` when the cancellation meets what a
`wait_for` was waiting for, the connection in `borrow` or the answer in `resolve()`, and
`FetchDies` when an error of the cache ends the fetch task. Where the code does not suspend, one
action stands for several calls: `Wake` runs from the event to the `gather` in
`responder.stop()`, since on Python up to 3.11 `wait_closed()` returns at once.

A client's session is here only: accepted, served, cancelled by the shutdown
timeout, and then "abandoned", as the handler cancels its sender and awaits neither
it nor the lookups it cancels in turn. A sender may die before (`mute`); then the handler
goes on starting lookups that nobody awaits or cancels. One task stands for the lookups
of a client, as each is only asked whether it may still use the cache: `SenderDies` and
`SenderEnds` therefore cancel it or do not, since it may be one in the queue or the one
for which the handler was awaiting room. `astray` is history: the tasks at work whose
handler and sender are over, or that went on in spite of a cancellation, so that
nobody awaits or ends them. `Settle` is the `sleep(1)` in `stop()`; the
model takes a second to suffice for the loop to spawn handlers of connections
already accepted and to run what was cancelled, and would show nothing otherwise.
The notifier is one record: a put is followed by `_drain` without suspending, which
sends everything or loses the message at which the socket is full (`Drains`).

### Netstring - the incremental parser

The state of `StreamReader` and `SingleNetstringFetcher`; `read()` is one action
per symbol of the length and one per piece of data, which differs from the code's
loop in nothing that can be seen, as nothing else runs in between. `Symbols` are the
bytes, `Value` gives those that are digits their value. `Decoded` is a reference
decoder on the whole stream, written from the format and independent of the parser's
state: it looks for a header (`HasHeader`), takes the number it denotes (`Number`) and
cuts one string after another off. Leading zeros are accepted by both, as in the code.
`Encoded` is `encode()`. Both decoder and encoder are recursive functions and not
RECURSIVE operators, so that they can be reasoned about.

## 3. The runs

| Run | Instance | What it shows |
|---|---|---|
| lookup_sql | 2 requests, SQL, 2 versions, 2 ticks a second | types; `BodyNotOlderThanId`; `NoDowngrade`; `SupersededByNewer` |
| lookup_internal | 1 request, 1 processor, internal cache, 3 versions (usable, without MX, testing with max_age 0), fair | `OnlyValidPolicies`; `ServedUnexpired`; `Convergence` |
| lookup_redis | 1 processor, 1 request, Redis that may fail and end the fetch task, fair | `Convergence`: by proactive fetching alone if its task survives, else by requests |
| connection_session | queue of 2, 5 requests, lost cancellations, fair | types; `RepliesInOrder`; `NoForgottenLookup`; `EveryRequestAnswered`; `PromiseKept`; `StopCloses`; `GoneClientReleased`; `PromiseKeptFairly` |
| connection_backlog | the same without lost cancellations | violation of `QueueMoves` |
| fetch_internal | 4 domains, cache of 3, batches of 1, 2 processors, lost cancellations, fair | types; `RoundCovers`; `FetchingRecursUnlessRaised` |
| fetch_database | 3 domains, SQL and Redis, batches of 1, SCAN excess of 1, 2 processors, failures, lost cancellations, fair | `RoundCovers`; `NoStrayProcessor`; `StopEnds`; `FetchingRecursUnlessRaised` |
| fetch_missed | 3 domains, internal cache, batches of 1 | violation of `AllDomainsFetched` |
| fetch_dies | 2 domains, SQL that may raise, fair | violation of `FetchingRecurs` |
| pool | 2 threads, 4 borrowers, everything may fail, fair | types; `ExclusiveUse`; `CleanWhenFree`; `SlotsAccounted`; `StopClosesAll`; `BorrowersLeave`; `StopSettles` |
| daemon_life | 2 clients and the fetcher over 1 connection, lost cancellations, fair | types; `QuietTeardown`; `HandlersKnown`; `ConnectionsClosed`; `NotifierQuiet`; `SignalEnds` |
| netstring_chunks | streams of 7 symbols, chunks of up to 3, limit 12 | types; `ChunksDoNotMatter`; `TruncationNoticed`; on the way `EncodedIsDecoded`, that the reference decoder undoes `encode()` on pairs of strings with lengths of one and two digits |

Why the bounds suffice. Lookups interact through one entry, so two tasks show
every race of a pair, and a lost update needs no more; two versions make an entry
outdated, three let a broken and a short-lived file follow a usable one. Max ages
of 0 to 2 ticks, a grace on either side of them and lookups that take a tick put
expiry, staleness and storing in every order; two ticks a second are enough for
time stamps that differ and are stored alike. A response queue of two with
four or five requests has one request held by the sender, a full queue, one the
handler waits with, and one more (two is also what the code needs, see `ReleaseProofs`). Three scans make the shortest round that
suspends before its last scan: two batches fill the queue, the third is scanned
late; the domains of a database round are at most three, one more than its two
processors. Two connections and four borrowers have two that use, one that waits
and one that comes when a third has failed, with `stop()` between any two steps; a
connection that was closed may stand for the next one opened, as nothing
remembers closed ones. Two clients let one handler be waited for while another is
accepted or spawned, and with the fetcher they are three borrowers over one
connection, so that one uses it and others wait, and a cancellation can meet every await
of the pool; more connections are the matter of the run pool, and of the theorems, which
hold for any number (with two the same properties hold, in six times the states). Seven symbols hold two netstrings, and three-symbol chunks end in every
state of the parser; the limit of 12 makes two-digit lengths of both kinds.

Fairness. `WF` of a task's next step: asyncio runs every ready task; lookups end
because both of their waits have timeouts; sleeps end. `ConnectionLost` is fair
only after the server has closed its side. `DrainReturns` is part of the sender's
weak fairness: a client that neither reads nor goes away would stop the sender
for ever, and the code has no timeout for that, so the liveness properties of
`Connection` hold for clients that read or leave. A borrower of the pool goes on
because `get` has a timeout, SQLite's lock has one, and a connection's thread
answers what it was asked. In `Daemon` amain's own steps are fair (its waits end by
the shutdown timeout or by `AllOver`), and so are spawning, abandoned senders, the
delivery of a cancellation and what follows it, and the end of a handler that was
cancelled, which is `StopCloses` of `Connection`; the fairness is one per task or
client, not one per kind of step; what is not cancelled is under no
obligation, and neither is the start-up. Nothing obliges clients to ask or leave,
the owner to publish, the server to stop, a signal to come or anything to fail.

Deadlock is not checked where sessions, streams, the pool or the process end
(`Connection`, `Netstring`, `SqliteConnPool`, `Daemon`).

### Findings

- **QueueMoves** (connection_backlog): after a lookup task has raised or a write
  has failed, the sender is gone but the handler parses on what it has received,
  starts lookups nobody awaits, and finally waits for room in the queue for ever;
  only `stop()` frees it. `GoneClientReleased` says what does hold: with a living
  sender at the last request, the handler ends.
- **AllDomainsFetched** (fetch_missed): with the internal cache a round misses a
  domain that a request used between two scans, though the log claims all.
  `RoundCovers` is what holds: only such domains are missed.
- **FetchingRecurs** (fetch_dies): one exception of a database cache ends proactive
  fetching until the daemon is restarted. `FetchingRecursUnlessRaised` is what holds.

Seen while modelling, and not contradicted by any document:

- `NoDowngrade` and `SupersededByNewer` fail for the internal cache, which overwrites
  without comparing and evicts.
- A cancellation that `wait_for` swallows leaves a sender waiting on an abandoned
  queue with its connection open, a processor for which `gather` waits, or a fetch
  task for which `stop()` waits for ever. `StopCloses`, `StopEnds`, `QuietTeardown`
  and `SignalEnds` hold but for these. The same comes of a cancelled task whose
  replacement of a connection fails: the error takes the place of `CancelledError`, and
  `except Exception` in `process_request` or `safe_set` catches it. (On Python 3.7,
  which `setup.py` admits, `except Exception` catches a cancellation by itself.)
- Lookups may also be at work while the cache is torn down though no cancellation was
  lost: those a handler started after its sender had died, and the one for which it was
  awaiting room when it was cancelled. Nobody awaits or cancels them. `QuietTeardown`
  and `ConnectionsClosed` except them (`astray`) and hold of all others.
- A slot of the pool whose replacement fails or is cancelled is gone (`lost`); when all
  are, every borrower times out and the cache is dead (responder.py answers from what it
  resolves). `SlotsAccounted` says that there is no other way to lose one.
- A replacement under way when `stop()` is called is put into the stopped pool and never
  closed (`late`), and can still be when the daemon returns (`ConnectionsClosed` excepts
  it); aiosqlite threads are not daemon threads, so one that is left keeps the process.
- If one connection cannot be prepared, those before it stay open.
- After the fetch task has died, `proactive_fetcher.stop()` raises at shutdown and the
  cache is not torn down. It may also die of being cancelled, when a replacement fails in
  its `__aexit__`. `SignalEnds` says that nothing else keeps amain from its end but a
  fetch task that goes on in spite of its cancellation.
- A message to systemd that meets a full socket is lost and not repeated, READY
  included; `NotifierQuiet` says that nothing waits for it.
- With TCP and `reuse_port` off, `start()` uses `opts` without having set it and fails
  (`responder.py:88-113`); in `Daemon` it is one of the causes of `StartFails`.
- From Python 3.12 on `wait_closed()` waits for the clients, before the shutdown
  timeout is armed, so a client that stays would hold the shutdown; the model is of the
  versions before.

## 4. The proofs

Assumed are only the named ASSUMEs of the modules (sizes are positive, the
horizon is large enough, names differ); TLC evaluates them in every run.

`PolicyLookupProofs`. `TypeInv` is `TypeOK` with `Held`, which says what a task
holds at each await (an id in `"http"`, a fresh entry in `"set"`); `TypeOK` alone is
not inductive, since a store is typed only if the entry at hand is.
`BodyNotOlderThanId` and `OnlyValidPolicies` are inductive relative to it by one
observation (`EntriesStep`): after a step an entry's id and file are those of an
entry before it, or come from the DNS and the web in that step.
`ServedUnexpired` needs in addition that a request at work holds either an
unexpired or a stale entry at known age (`AtWork`). `SupersededByNewer` follows
from `TypeInv` and the guards of the SQL and Redis stores, and so does `CacheRenewed`:
these stores leave an entry behind, and no older one. `NoDowngrade` rests on it, by
`Remembers`: what was cached when a request arrived, or something later, is in the cache
when it reads it and in its hands during the lookup, so a lookup that fails gives up
only on a policy that has run out. The theorem is of SQL and Redis caches that do not
fail; the assumptions on the owner are those of the property.

`ConnectionProofs`. `TypeOK` is inductive. `Pipeline` is the strengthening for
`RepliesInOrder`: what was answered, held, queued and about to be put is
1, 2, ..., created, laid end to end, while the sender lives. The refinement
`PromiseHolds` uses it for the one step that matters: the reply written is the one
the oldest unanswered request waits for. `NoForgottenLookup` is inductive with
`TypeOK`. `EveryRequestAnswered` needs on top: `Drained`, that a handler which reads no
more has parsed all there was; `Marker`, that the end marker it then puts is the last in
the queue and comes after all requests; and `Cause` with `Untouched`, what a sender may
have died of.

`ReleaseProofs` is about how a connection ends, without fairness. `Releasing` is the
handler that has nothing more to read, with a living sender or with room in the queue for
what it still puts. `NeverStuck`: then somebody has something to do - a handler that
waits for room has a sender that takes from the queue or an empty queue, one that waits
for the sender has put the marker (`Marker`), and what the sender awaits was started.
`ReleaseEnds`: it stays so, and every step of anyone decreases `StepsLeft`. Together with
fairness this is `GoneClientReleased`; `AfterStop` does the same for `StopCloses`. The
hypothesis `QueueLimit >= 2` is needed: when a sender dies it empties the queue, but the
handler may still put a request and then the marker. With a queue of one it would wait
with the marker for ever, and TLC finds `GoneClientReleased` violated; `QUEUE_LIMIT` is 128.

`ProactiveFetchProofs`. `NoStrayProcessor` is inductive as soon as it is known what
`work` is a function on. `Types` is `TypeOK` by parts; the lemmas on the cache
(`StoredFacts`, `InternalScanFacts`, `SqlScanFacts`, `RedisScanFacts`) say where each
entry goes and that no domain comes twice. `RoundCovers` needs `Inv`: besides the types,
`Tidy` (what is empty at each place of the round), `NotOwed` (no processor works on a
domain still owed) and `Coverage`: every owed entry that waits neither in the batch nor
in the queue is still ahead of the scan. For SQL that is a rowid beyond the token, for
Redis a member of what SCAN has still to return. The internal cache moves what it
returns to the end and its token only counts; there the entries in question (untouched
ones, `Fresh`) are the first of the LRU order and not more than the count has left:
whatever evicts, stores or uses an entry takes from that prefix or leaves it alone.

`SqliteConnPoolProofs`. The inductive invariant has the types, `PhaseOK` (nobody
borrows before the pool is ready, nobody closes for good before it is stopped),
`ExclusiveUse`, `Placed` (an open connection is in the pool, with `stop()` or with a
borrower), `Unfinished` (a dirty connection is held by someone in the body or on the way
to close it), `SlotSum` and `LateFree`. `SlotSum` extends `SlotsAccounted` by a bound
once the pool is stopped, which the type of `lost` needs; its steps move one element
between two finite sets and cite what the library says of cardinalities. Each of the five
properties then follows for any number of threads and borrowers. Of the two liveness
properties it shows what does not depend on fairness. `Rank` says how far each place is
from the end, and no step leads back (`OneWay`); `StepsLeft` counts what the borrowers and
`stop()` have still to do, and once `stop()` was called each step leaves less of it
(`SettlingEnds`), also a replacement, which takes a place from a borrower and gives
`stop()` another connection to close. What fairness adds is that a step is taken.

`DaemonProofs`. `Inv` says where a task that is not at work may be in the pool
(`TaskPlaces`), that a lookup at work has its session or is `astray` (`LookupOwned`),
that handlers are known, and how the stages of `stop()` bound the clients (`Stages`:
nobody whom it gathered is new; it settles when they are over). From these the one step
that matters, `Settle` with no children, leaves no session and no lookup but what is
astray (`NoClients`), the end of the fetcher's `stop()` leaves no fetch task (`NoFetch`),
and both stay so. `QuietTeardown` is their consequence, for which of the pool only is used
which places its actions lead a borrower to. `NotifierQuiet` needs that a notifier is at rest between steps (`Quiet`), and
`TypeOK` needs both. `ConnectionsClosed` is a matter of the two modules:
`SqliteConnPoolProofs` is instantiated, its assumptions are derived from those of the
daemon (`PoolConstants`), every step of the daemon is shown to be one of the pool or to
leave it alone (`PoolStep`, `PoolNext`), and so the pool's invariant is one of the daemon
(`PoolInvHolds`). It says that what is open after the pool was stopped is `late` or in
somebody's hands, and `QuietTeardown` says that those put it away or are astray.

`NetstringProofs`. Induction is over the naturals as a set (`Induction`, from the
library's well-founded induction): a set of numbers for which a claim holds contains 0
and successors. It shows that the recursive functions of `Number` and `Decoded` exist,
which gives their recursion equations (`NumberRecursion`, `DecodedIs`), and what they
compute. `Inv` says where the parser is in the stream: what it holds unread is the
rest of `fed` (`Buffered`); there are cuts at which the strings completed so far end,
each a netstring of the format (`Parsed`); and between the last cut and here is the
beginning of a length whose number is `len` (`InLength`), or a header and the data in
`parts` (`InData`), or, after an error, something that no continuation makes a netstring
(`Refused`). `TypeOK` is not enough, as it relates nothing to the stream. A new chunk
changes nothing of it, as all these look only at what has been received (`FollowsGrows`
and the lemmas before it); a digit, colon, piece of data or terminator moves the fetcher
on, or is one of the three ways to be refused. At `WantRead` the cuts are those of the
reference decoder (`AgreesWithDecoded`), since no position has two headers
(`OneHeader`), and both properties follow for every stream, limit and chunking.

`EncodingProofs` is about `encode()` and the parser together. `TenDigits`, its one
hypothesis, says that the symbols have all ten digits (the run of TLC has three, so it
is not an ASSUME; bytes have ten). `DecimalDenotes`: the decimal digits of a number
denote it. `EncodedFollows`: an encoded string within the limit is a netstring of the
format wherever it stands. `DecodedBegins`: whatever follows a sequence of netstrings,
the decoder finds them first. With the invariant of the parser that is `ReadBack`.

Only model-checked: everything temporal but action properties and the refinements
(`Convergence`, `StopCloses`, `GoneClientReleased`, `PromiseKeptFairly`, `StopEnds`,
`FetchingRecursUnlessRaised`, `BorrowersLeave`, `StopSettles`, `SignalEnds`): liveness
under fairness is beyond the prover. For those of `Connection` (but `PromiseKeptFairly`)
and `SqliteConnPool` the part that is not about fairness is proved, see above. Every
invariant, action property and safety refinement of the passing runs is a theorem.

## 5. Plan

Done, in order of importance: PolicyLookup; Connection over OrderedReplies;
ProactiveFetch; Netstring; SqliteConnPool; Daemon over SqliteConnPool; their proofs.

Every safety property of the runs that hold is proved. What remains worth doing: a
lookup of two domains that share the pool, with the outcomes of its borrowers fed back into `PolicyLookup`, instead of caches that fail at will; and
`Connection` with `PolicyLookup` as its lookups. Both are larger than what TLC explores
in minutes, and would say little that their parts do not.

## 6. Not modelled, and why

Sockets and their options, TLS, DNS and HTTP themselves (I/O; their outcomes are
choices of the models); string handling in `utils.py` and the answer's wording
(sequential, well covered by the tests); configuration, whose effects are constants of
the models; logging, whose queue drops records by design; the statements that create
SQL tables; argument parsing, change of user and log set-up in `main()`; the query tool,
one call of `resolve()`; packaging. The fetch time stamp in a database is only a call
that may raise: no property depends on when exactly a round starts. `Daemon` has a
SQLite cache since it is the one whose teardown can meet tasks that still use it; the
pools of asyncpg and of redis are libraries.
