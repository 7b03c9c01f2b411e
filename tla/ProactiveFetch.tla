--------------------------- MODULE ProactiveFetch ---------------------------
(***************************************************************************)
(* STSProactiveFetcher: rounds that scan the cache batch by batch and hand *)
(* the domains through a bounded queue to concurrent processors, while     *)
(* requests go on using the cache.  Which policy a processor stores is the *)
(* matter of PolicyLookup; here an entry is its domain.                    *)
(*                                                                         *)
(* Neither the internal cache nor a put into a queue with room suspends:   *)
(* the fetcher then goes from one to the next and has the event loop to    *)
(* itself (Inline).                                                        *)
(***************************************************************************)
EXTENDS Naturals, Sequences, FiniteSets

CONSTANTS
  Domains,
  Processors,       \* the concurrency_limit processor tasks of a round
  Backends,         \* of "internal", "sql" (sqlite and postgres) and "redis"
  CacheSize,        \* cache_size of the internal cache
  DomainQueueLimit, \* constants.DOMAIN_QUEUE_LIMIT: queue bound and amount_hint
  ScanExcess,       \* bound: domains a SCAN returns beyond its COUNT
  CacheMayFail,     \* a database cache may raise
  CancelMayBeLost,  \* asyncio.wait_for swallows a cancellation that meets a result
  None              \* no token

ASSUME SizesAssumption ==
  CacheSize \in Nat \ {0} /\ DomainQueueLimit \in Nat \ {0} /\ ScanExcess \in Nat

ASSUME CacheAssumption ==
  /\ Backends \subseteq {"internal", "sql", "redis"}
  /\ CacheMayFail \in BOOLEAN /\ CancelMayBeLost \in BOOLEAN

ASSUME NamesAssumption ==
  /\ None \notin Nat /\ \A due \in SUBSET Domains : None # due
  /\ IsFiniteSet(Domains) /\ Domains \cap {"off", "idle"} = {}

VARIABLES
  backend,  \* the cache configured
  rows,     \* domains in the cache: least recently used first, or by rowid
  fpc,      \* where the fetch task awaits; "unwind" in finally, "over" when it ended
  token,    \* where the next scan resumes; None at the start and at the end, for
            \* Redis the domains that SCAN has still to return
  batch,    \* scanned items still to be put
  queue,    \* domain_queue
  work,     \* what each processor does: "off", "idle" or the domain it updates
  stopping, \* stop() was called: "no", "yes", or its cancellation was "lost"
  owed,     \* history: cached since the round began and not taken by a processor
  touched   \* history: those of them that requests have used since

vars == <<backend, rows, fpc, token, batch, queue, work, stopping, owed, touched>>
roundVars == <<backend, fpc, token, batch, queue, work, stopping>>

Cached(d) == \E i \in DOMAIN rows : rows[i] = d

TypeOK ==
  /\ backend \in Backends /\ rows \in Seq(Domains)
  /\ \A i, j \in DOMAIN rows : rows[i] = rows[j] => i = j
  /\ backend = "internal" => Len(rows) <= CacheSize
  /\ fpc \in {"sleep", "scan", "put", "blocked", "join", "save", "unwind", "over"}
  /\ token = None \/ token \in IF backend = "redis" THEN SUBSET Domains ELSE Nat
  /\ batch \in Seq(Domains) /\ (backend # "redis" => Len(batch) <= DomainQueueLimit)
  /\ queue \in Seq(Domains) /\ Len(queue) <= DomainQueueLimit
  /\ work \in [Processors -> {"off", "idle"} \cup Domains]
  /\ stopping \in {"no", "yes", "lost"}
  /\ owed \subseteq {d \in Domains : Cached(d)} /\ touched \subseteq owed

Init ==
  /\ backend \in Backends
  /\ rows = <<>> /\ fpc = "sleep" /\ token = None /\ batch = <<>> /\ queue = <<>>
  /\ work = [p \in Processors |-> "off"]
  /\ stopping = "no" /\ owed = {} /\ touched = {}

Inline == fpc = "put" \/ (fpc = "scan" /\ backend = "internal")

-----------------------------------------------------------------------------
(* The cache *)

MovedToEnd(i) ==
  [j \in DOMAIN rows |-> IF j < i THEN rows[j] ELSE IF j < Len(rows) THEN rows[j + 1] ELSE rows[i]]

\* get() of a cached domain
Used(d) ==
  IF backend = "internal" THEN MovedToEnd(CHOOSE i \in DOMAIN rows : rows[i] = d) ELSE rows

StoredNoEviction(d) ==  \* mutant: a full cache grows
  IF Cached(d) THEN Used(d) ELSE Append(rows, d)

\* set(): a full internal cache evicts the least recently used entry
Stored(d) ==
  IF Cached(d) THEN Used(d)
  ELSE Append(IF backend = "internal" /\ Len(rows) >= CacheSize THEN Tail(rows) ELSE rows, d)

Store(d) ==
  /\ rows' = Stored(d)
  /\ owed' = {e \in owed : \E i \in DOMAIN rows' : rows'[i] = e}

Offset == IF token = None THEN 0 ELSE token

\* How many entries a scan returns: a round counts the entries it has scanned
Amount ==
  IF Offset >= Len(rows) THEN 0
  ELSE IF Len(rows) - Offset <= DomainQueueLimit THEN Len(rows) - Offset
       ELSE DomainQueueLimit

InternalScanKeepsOrder ==  \* mutant: what was scanned is not moved to the end
  /\ batch' = SubSeq(rows, 1, Amount)
  /\ token' = IF Offset + Amount < Len(rows) THEN Offset + Amount ELSE None
  /\ UNCHANGED rows

\* The oldest entries, not the ones at the offset: each scan moves what it
\* returns to the end
InternalScan ==
  /\ batch' = SubSeq(rows, 1, Amount)
  /\ rows' = SubSeq(rows, Amount + 1, Len(rows)) \o SubSeq(rows, 1, Amount)
  /\ token' = IF Offset + Amount < Len(rows) THEN Offset + Amount ELSE None

SqlScanSkipsOne ==  \* mutant: the token is one too high
  /\ batch' = SubSeq(rows, Offset + 1, Offset + Amount)
  /\ token' = IF Amount > 0 THEN Offset + Amount + 1 ELSE None
  /\ UNCHANGED rows

\* The rows with the next rowids; the scan after the last row returns nothing
SqlScan ==
  /\ batch' = SubSeq(rows, Offset + 1, Offset + Amount)
  /\ token' = IF Amount > 0 THEN Offset + Amount ELSE None
  /\ UNCHANGED rows

\* The orders in which SCAN may list some domains
Listings(found) ==
  {s \in [1..Cardinality(found) -> found] : \A d \in found : \E i \in DOMAIN s : s[i] = d}

RedisScanEndsEarly ==  \* mutant: a scan that returns no new domain is the last
  LET due == IF token = None THEN {d \in Domains : Cached(d)} ELSE token
  IN \E found \in {f \in SUBSET Domains : Cardinality(f) <= DomainQueueLimit + ScanExcess} :
       /\ \A d \in found : Cached(d)
       /\ batch' \in Listings(found)
       /\ \/ found \cap due # {} /\ token' = due \ found
          \/ found \cap due = {} /\ token' = None
  /\ UNCHANGED rows

\* SCAN returns every domain that was there all along at least once, in portions
\* that may be larger than its COUNT and repeat others; a portion with nothing new
\* only leads to the next and is left out
RedisScan ==
  /\ LET due == IF token = None THEN {d \in Domains : Cached(d)} ELSE token
     IN \E found \in {f \in SUBSET Domains : Cardinality(f) <= DomainQueueLimit + ScanExcess} :
          /\ \A d \in found : Cached(d)
          /\ batch' \in Listings(found)
          /\ \/ found \cap due # {} /\ token' = due \ found
             \/ due \subseteq found /\ token' = None
  /\ UNCHANGED rows

-----------------------------------------------------------------------------
(* iterate_domains and fetch_periodically *)

\* The sleep is over: a round begins
StartRound ==
  /\ fpc = "sleep"
  /\ fpc' = "scan" /\ token' = None
  /\ work' = [p \in Processors |-> "idle"]
  /\ owed' = {d \in Domains : Cached(d)} /\ touched' = {}
  /\ UNCHANGED <<backend, rows, batch, queue, stopping>>

Scan ==
  /\ fpc = "scan"
  /\ \/ backend = "internal" /\ InternalScan
     \/ backend = "sql" /\ SqlScan
     \/ backend = "redis" /\ RedisScan
  /\ fpc' = "put"
  /\ UNCHANGED <<backend, queue, work, stopping, owed, touched>>

\* One turn of the loop that puts the scanned items
Put ==
  /\ fpc = "put"
  /\ IF batch = <<>>
     THEN /\ fpc' = IF token = None THEN "join" ELSE "scan"
          /\ UNCHANGED <<batch, queue>>
     ELSE IF Len(queue) < DomainQueueLimit
          THEN queue' = Append(queue, Head(batch)) /\ batch' = Tail(batch) /\ UNCHANGED fpc
          ELSE fpc' = "blocked" /\ UNCHANGED <<batch, queue>>
  /\ UNCHANGED <<backend, rows, token, work, stopping, owed, touched>>

PutResumes ==
  /\ fpc = "blocked" /\ Len(queue) < DomainQueueLimit
  /\ fpc' = "put"
  /\ UNCHANGED <<backend, rows, token, batch, queue, work, stopping, owed, touched>>

\* join() returns when every item was taken and done; the idle processors go
Join ==
  /\ fpc = "join" /\ queue = <<>> /\ \A p \in Processors : work[p] \notin Domains
  /\ fpc' = "save"
  /\ work' = [p \in Processors |-> "off"]
  /\ UNCHANGED <<backend, rows, token, batch, queue, stopping, owed, touched>>

\* set_proactive_fetch_ts returns, and the next sleep begins
Save ==
  /\ fpc = "save"
  /\ fpc' = "sleep" /\ owed' = {} /\ touched' = {}
  /\ UNCHANGED <<backend, rows, token, batch, queue, work, stopping>>

\* The finally clause cancels the processors; a wait_for in an update may swallow that,
\* or an error of the cache may replace it and be caught by safe_set(), and the processor
\* goes on to wait for more
CancelProcessors ==
  \E lost \in SUBSET {p \in Processors : CancelMayBeLost /\ work[p] \in Domains} :
    work' = [p \in Processors |-> IF p \in lost THEN work[p] ELSE "off"]

UnwindSparesProcessors ==  \* mutant: no finally clause
  /\ fpc' = "over"
  /\ UNCHANGED work

\* An exception or the cancellation leaves the fetch task at its await
Unwind ==
  IF fpc \in {"sleep", "save"} THEN fpc' = "over" /\ UNCHANGED work
  ELSE fpc' = "unwind" /\ CancelProcessors

CacheRaises ==
  /\ CacheMayFail /\ backend # "internal" /\ fpc \in {"sleep", "scan", "save"}
  /\ Unwind
  /\ UNCHANGED <<backend, rows, token, batch, queue, stopping, owed, touched>>

StopWaitsForRound ==  \* mutant: only a sleeping fetch task is cancelled
  /\ stopping = "no" /\ stopping' = "yes"
  /\ IF fpc = "sleep" THEN Unwind ELSE UNCHANGED <<fpc, work>>
  /\ UNCHANGED <<backend, rows, token, batch, queue, owed, touched>>

\* Borrowing a SQLite connection is a wait_for, which may swallow the cancellation of
\* the fetch task too
Stop ==
  /\ stopping = "no"
  /\ \/ /\ stopping' = "yes"
        /\ IF fpc \in {"unwind", "over"} THEN UNCHANGED <<fpc, work>> ELSE Unwind
     \/ /\ CancelMayBeLost /\ backend = "sql" /\ fpc \in {"sleep", "scan", "save"}
        /\ stopping' = "lost" /\ UNCHANGED <<fpc, work>>
  /\ UNCHANGED <<backend, rows, token, batch, queue, owed, touched>>

\* gather() has seen all processors end
Unwound ==
  /\ fpc = "unwind" /\ \A p \in Processors : work[p] = "off"
  /\ fpc' = "over"
  /\ token' = None /\ batch' = <<>> /\ queue' = <<>> /\ owed' = {} /\ touched' = {}
  /\ UNCHANGED <<backend, rows, work, stopping>>

-----------------------------------------------------------------------------
(* process_domain *)

\* A processor takes an item, which it skips or looks up
Take(p) ==
  /\ work[p] = "idle" /\ queue # <<>>
  /\ queue' = Tail(queue)
  /\ work' \in {work, [work EXCEPT ![p] = Head(queue)]}
  /\ owed' = owed \ {Head(queue)} /\ touched' = touched \ {Head(queue)}
  /\ UNCHANGED <<backend, rows, fpc, token, batch, stopping>>

UpdateKillsProcessor(p) ==  \* mutant: no exception handler in the processor's loop
  /\ work[p] \in Domains
  /\ \/ work' = [work EXCEPT ![p] = "off"] /\ UNCHANGED <<rows, owed>>
     \/ work' = [work EXCEPT ![p] = "idle"] /\ Store(work[p])
  /\ touched' = touched \cap owed'
  /\ UNCHANGED <<backend, fpc, token, batch, queue, stopping>>

\* The lookup returned, and what it found, if anything, is stored
Update(p) ==
  /\ work[p] \in Domains
  /\ work' = [work EXCEPT ![p] = "idle"]
  /\ \/ UNCHANGED <<backend, rows, owed>>
     \/ Store(work[p])
  /\ touched' = touched \cap owed'
  /\ UNCHANGED <<backend, fpc, token, batch, queue, stopping>>

-----------------------------------------------------------------------------
(* Requests *)

Request(d) ==
  /\ \/ Cached(d) /\ rows' = Used(d) /\ UNCHANGED owed
     \/ Store(d)
  /\ touched' = (touched \cup {d}) \cap owed'
  /\ UNCHANGED roundVars

Fetcher == StartRound \/ Scan \/ Put \/ PutResumes \/ Join \/ Save \/ Unwound

Others ==
  \/ CacheRaises \/ Stop
  \/ \E p \in Processors : Take(p) \/ Update(p)
  \/ \E d \in Domains : Request(d)

Next == Fetcher \/ (~Inline /\ Others)

Spec == Init /\ [][Next]_vars

\* Sleeps end, lookups time out and the loop runs every task that can run;
\* nothing makes anyone ask, stop or the cache fail.
Fairness ==
  /\ WF_vars(Fetcher)
  /\ \A p \in Processors : WF_vars(~Inline /\ (Take(p) \/ Update(p)))

FairSpec == Spec /\ Fairness

-----------------------------------------------------------------------------
(* Properties *)

\* A round has handled every domain that was in the cache all along - with the
\* internal cache, that no request used meanwhile: the scans neither skip nor lose
\* one, whatever is inserted, evicted, updated or used between two of them.
RoundCovers == fpc = "save" => owed \subseteq IF backend = "internal" THEN touched ELSE {}

\* "Proactive policy fetching for all domains in cache finished."
AllDomainsFetched == fpc = "save" => owed = {}

\* When a round is over, by its end, by an exception or by stop(), none of its
\* processors is left behind to write into the cache.
NoStrayProcessor ==
  fpc \in {"sleep", "save", "over"} => queue = <<>> /\ \A p \in Processors : work[p] = "off"

\* After stop() the fetch task ends, wherever in a round it was, unless its cancellation
\* was swallowed or that of a processor, which gather() awaits.
StopEnds ==
  stopping = "yes" ~> \/ fpc = "over"
                      \/ fpc = "unwind" /\ \E p \in Processors : work[p] # "off"

\* Rounds keep finishing until stop(): fetching "is scheduled every this many
\* seconds".
FetchingRecurs == <>(stopping = "yes") \/ []<>(fpc = "save")

\* They do as long as the cache does not raise in the fetch task: no round waits
\* for ever for room or for its processors, whatever happens to their lookups.
FetchingRecursUnlessRaised ==
  \/ <>(stopping = "yes" \/ fpc \in {"unwind", "over"})
  \/ []<>(fpc = "save")
=============================================================================
