---------------------------- MODULE PolicyLookup ----------------------------
(***************************************************************************)
(* The MTA-STS policy of ONE mail domain: how requests                     *)
(* (STSSocketmapResponder.process_request) and proactive fetching          *)
(* (STSProactiveFetcher.process_domain) read it from the cache, look it up *)
(* in the DNS and over HTTPS (STSResolver.resolve) and store it again,     *)
(* while the domain's owner publishes new versions of it.                  *)
(*                                                                         *)
(* A version number stands both for a policy id (the DNS record) and for   *)
(* a policy file (the HTTPS body); the owner renews the file before the    *)
(* id, as RFC 8461 asks, and resolvers may go on answering an older id.    *)
(*                                                                         *)
(* Time stamps are kept as AGES: what the code computes is ts - cached.ts  *)
(* or a comparison of two time stamps, and an age keeps both in a finite   *)
(* model however long it runs.  A task is at an await whenever its pc is   *)
(* not "idle", and every other task may run there.                         *)
(***************************************************************************)
EXTENDS Integers

CONSTANTS
  Requests,      \* process_request tasks for the domain
  Processors,    \* process_domain tasks that handle the domain
  Strict,        \* Strict[r]: the strict_testing flag of the zone r asks in
  Backend,       \* "internal", "sql" (sqlite, postgres) or "redis"
  CacheMayFail,  \* the cache may raise (never for "internal")
  MaxVersion,    \* bound: versions of the policy the owner publishes
  Policies,      \* Policies[v]: the policy file of version v
  Grace,         \* cache_grace
  Recheck,       \* proactive interval / grace_ratio
  Resolution,    \* ticks in a second: the SQL backends store whole seconds
  MaxFlight,     \* bound: ticks a lookup may take (its timeouts add up)
  Horizon,       \* bound: ages of cache entries are counted up to here
  None           \* no cache entry

Tasks == Requests \cup Processors
Versions == 1..MaxVersion
Entries == [age : 0..Horizon, id : Versions, body : Versions]

LongestMaxAge == 31557600

ValidWithoutMx(p) ==  \* mutant: the MX check is forgotten
  /\ p.version = "STSv1"
  /\ p.max_age \in 0..LongestMaxAge
  /\ p.mode \in {"none", "testing", "enforce"}

\* What resolve() requires of a policy file before it returns VALID
Valid(p) ==
  /\ p.version = "STSv1"
  /\ p.max_age \in 0..LongestMaxAge
  /\ \/ p.mode = "none"
     \/ p.mode \in {"testing", "enforce"} /\ p.mx # {}

ASSUME TasksAssumption == Requests \cap Processors = {} /\ Strict \in [Requests -> BOOLEAN]

ASSUME BackendAssumption ==
  /\ Backend \in {"internal", "sql", "redis"}
  /\ CacheMayFail \in BOOLEAN /\ (Backend = "internal" => ~CacheMayFail)
  /\ None \notin Entries

ASSUME PoliciesAssumption ==
  /\ MaxVersion \in Nat \ {0}
  /\ \A v \in Versions : Policies[v].max_age \in Int

\* Counting ages up to Horizon never hides an expiry nor an age that matters
ASSUME TimeAssumption ==
  /\ Grace \in Nat /\ Recheck \in Nat /\ MaxFlight \in Nat /\ Horizon \in Nat
  /\ Resolution \in Nat \ {0}
  /\ Grace + MaxFlight < Horizon /\ Recheck + MaxFlight < Horizon
  /\ MaxFlight + Resolution <= Horizon
  /\ \A v \in Versions : Valid(Policies[v]) => Policies[v].max_age + MaxFlight < Horizon

VARIABLES
  dns,     \* id the owner's DNS record holds
  web,     \* version of the policy file on the owner's web server
  calm,    \* from now on nothing fails, is cancelled, evicted or published
  fetching,\* the periodic fetch task is alive
  phase,   \* position of the clock within the second
  cache,   \* what the backend holds for the domain
  pc,      \* where each task awaits
  cached,  \* each task's local variable `cached`
  ts,      \* age of each task's local variable `ts`
  polId,   \* id found in the DNS by the resolve() a task is in
  reply,   \* what each request answered
  seen     \* history: age of the cache entry when the request arrived

vars == <<dns, web, calm, fetching, phase, cache, pc, cached, ts, polId, reply, seen>>

TypeOK ==
  /\ dns \in Versions /\ web \in Versions
  /\ calm \in BOOLEAN /\ fetching \in BOOLEAN
  /\ phase \in 0..(Resolution - 1)
  /\ cache \in Entries \cup {None}
  /\ pc \in [Tasks -> {"idle", "get", "queued", "dns", "http", "set"}]
  /\ cached \in [Tasks -> Entries \cup {None}]
  /\ ts \in [Tasks -> 0..MaxFlight]
  /\ polId \in [Tasks -> 0..MaxVersion]
  /\ reply \in [Requests -> {"none", "OK", "NOTFOUND", "AssertionError"}]
  /\ seen \in [Requests -> 0..Horizon \cup {None}]

Init ==
  /\ dns = 1 /\ web = 1 /\ calm = FALSE /\ phase = 0 /\ fetching = (Processors # {})
  /\ cache = None
  /\ pc = [t \in Tasks |-> "idle"]
  /\ cached = [t \in Tasks |-> None]
  /\ ts = [t \in Tasks |-> 0]
  /\ polId = [t \in Tasks |-> 0]
  /\ reply = [r \in Requests |-> "none"]
  /\ seen = [r \in Requests |-> None]

-----------------------------------------------------------------------------
(* The cache backends *)

WholeSecondsUp(age) == age - ((age - phase) % Resolution)  \* mutant: rounds up

\* int(ts): the age an entry has once its time stamp lost its fraction
WholeSeconds(age) == age + ((phase - age) % Resolution)

StoredUnconditionally(e) == {e}  \* mutant: the WHERE ts < ... is gone

\* mutant: the trimming keeps the lowest score
StoredKeepsOldest(e) == {IF cache = None \/ cache.age < e.age THEN e ELSE cache}

\* The row is replaced only by one of a later second
StoredSql(e) ==
  LET row == [e EXCEPT !.age = WholeSeconds(e.age)]
  IN  {IF cache = None \/ cache.age > row.age THEN row ELSE cache}

\* The member with the highest score survives the trimming; scores may be equal
StoredRedis(e) ==
  IF cache = None \/ cache.age > e.age THEN {e}
  ELSE IF cache.age = e.age THEN {e, cache} ELSE {cache}

\* What the cache may hold once the backend's set() stored entry e
Stored(e) ==
  CASE Backend = "internal" -> {e}
    [] Backend = "sql" -> StoredSql(e)
    [] Backend = "redis" -> StoredRedis(e)

MaxAge(e) == Policies[e.body].max_age

Expired(e, now) == e.age - now > MaxAge(e)

IsStaleAfterGrace(e) == e = None \/ e.age > Grace  \* mutant: expiry is not looked at

IsStale(e) == e = None \/ e.age > Grace \/ Expired(e, 0)

-----------------------------------------------------------------------------
(* process_request, process_domain and resolve *)

Answer(r, e, havePolicy) ==
  IF ~havePolicy THEN "NOTFOUND"
  ELSE LET p == Policies[e.body]
       IN  IF p.mode = "none" \/ (p.mode = "testing" /\ ~Strict[r]) THEN "NOTFOUND"
           ELSE IF p.mx = {} THEN "AssertionError" ELSE "OK"

\* Task t ends its work on the domain with e in `cached`; a request replies
Finish(t, e, havePolicy) ==
  /\ pc' = [pc EXCEPT ![t] = "idle"]
  /\ cached' = [cached EXCEPT ![t] = IF t \in Requests THEN e ELSE None]
  /\ reply' = IF t \in Requests
              THEN [reply EXCEPT ![t] = Answer(t, e, havePolicy)] ELSE reply

Start(r) ==
  /\ pc[r] = "idle"
  /\ pc' = [pc EXCEPT ![r] = "get"]
  /\ cached' = [cached EXCEPT ![r] = None]
  /\ ts' = [ts EXCEPT ![r] = 0]
  /\ reply' = [reply EXCEPT ![r] = "none"]
  /\ seen' = [seen EXCEPT ![r] = IF cache = None THEN None ELSE cache.age]
  /\ UNCHANGED <<dns, web, calm, fetching, phase, cache, polId>>

\* cache.get returns, or raises and counts as a miss
CacheGet(r) ==
  /\ pc[r] = "get"
  /\ \E e \in {cache} \cup (IF CacheMayFail /\ ~calm THEN {None} ELSE {}) :
       IF IsStale(e)
       THEN /\ pc' = [pc EXCEPT ![r] = "dns"]
            /\ cached' = [cached EXCEPT ![r] = e]
            /\ UNCHANGED reply
       ELSE Finish(r, e, TRUE)
  /\ UNCHANGED <<dns, web, calm, fetching, phase, cache, ts, polId, seen>>

\* A cache scan puts the domain into the queue of the processors ...
Scan(p) ==
  /\ fetching /\ pc[p] = "idle" /\ cache # None
  /\ pc' = [pc EXCEPT ![p] = "queued"]
  /\ cached' = [cached EXCEPT ![p] = cache]
  /\ UNCHANGED <<dns, web, calm, fetching, phase, cache, ts, polId, reply, seen>>

\* ... and some time later one of them takes the item, which it may skip
Take(p) ==
  /\ pc[p] = "queued"
  /\ ts' = [ts EXCEPT ![p] = 0]
  /\ IF cached[p].age < Recheck
     THEN Finish(p, None, FALSE)
     ELSE pc' = [pc EXCEPT ![p] = "dns"] /\ UNCHANGED <<cached, reply>>
  /\ UNCHANGED <<dns, web, calm, fetching, phase, cache, polId, seen>>

\* mutant: a cached policy counts as unchanged whatever id the DNS holds
DnsAnswerIgnoresId(t) ==
  /\ pc[t] = "dns"
  /\ IF cached[t] # None
     THEN /\ cached' = [cached EXCEPT ![t].age = ts[t]]
          /\ pc' = [pc EXCEPT ![t] = "set"]
          /\ UNCHANGED polId
     ELSE /\ polId' = [polId EXCEPT ![t] = dns]
          /\ pc' = [pc EXCEPT ![t] = "http"]
          /\ UNCHANGED cached
  /\ UNCHANGED <<dns, web, calm, fetching, phase, cache, ts, reply, seen>>

\* The TXT record arrives: NOT_CHANGED if it holds the id that is cached
DnsAnswer(t) ==
  /\ pc[t] = "dns"
  /\ \E id \in IF calm THEN {dns} ELSE 1..dns :
       IF cached[t] # None /\ cached[t].id = id
       THEN /\ cached' = [cached EXCEPT ![t].age = ts[t]]
            /\ pc' = [pc EXCEPT ![t] = "set"]
            /\ UNCHANGED polId
       ELSE /\ polId' = [polId EXCEPT ![t] = id]
            /\ pc' = [pc EXCEPT ![t] = "http"]
            /\ UNCHANGED cached
  /\ UNCHANGED <<dns, web, calm, fetching, phase, cache, ts, reply, seen>>

\* mutant: any failed lookup means that there is no policy
GiveUpPolicy(t) == Finish(t, cached[t], FALSE)

\* resolve() returned NONE or FETCH_ERROR: an unexpired cached policy still counts
GiveUp(t) ==
  Finish(t, cached[t], cached[t] # None /\ ~Expired(cached[t], ts[t]))

HttpAnswer(t) ==
  /\ pc[t] = "http"
  /\ IF Valid(Policies[web])
     THEN /\ cached' = [cached EXCEPT ![t] = [age |-> ts[t], id |-> polId[t], body |-> web]]
          /\ pc' = [pc EXCEPT ![t] = "set"]
          /\ UNCHANGED reply
     ELSE GiveUp(t)
  /\ polId' = [polId EXCEPT ![t] = 0]
  /\ UNCHANGED <<dns, web, calm, fetching, phase, cache, ts, seen>>

\* mutant: a failed fetch keeps the old file under the new id
LookupFailsKeepsBody(t) ==
  /\ ~calm /\ pc[t] = "http" /\ cached[t] # None
  /\ cached' = [cached EXCEPT ![t].age = ts[t], ![t].id = polId[t]]
  /\ pc' = [pc EXCEPT ![t] = "set"]
  /\ polId' = [polId EXCEPT ![t] = 0]
  /\ UNCHANGED <<dns, web, calm, fetching, phase, cache, ts, reply, seen>>

\* No usable TXT record, a DNS or HTTPS error, or a timeout of either
LookupFails(t) ==
  /\ ~calm /\ pc[t] \in {"dns", "http"}
  /\ GiveUp(t)
  /\ polId' = [polId EXCEPT ![t] = 0]
  /\ UNCHANGED <<dns, web, calm, fetching, phase, cache, ts, seen>>

\* safe_set returns, whether the backend stored the entry or raised
CacheSet(t) ==
  /\ pc[t] = "set"
  /\ cache' \in Stored(cached[t]) \cup (IF CacheMayFail /\ ~calm THEN {cache} ELSE {})
  /\ Finish(t, cached[t], TRUE)
  /\ UNCHANGED <<dns, web, calm, fetching, phase, ts, polId, seen>>

\* The task is cancelled at its await; a write already under way may have landed
Cancel(t) ==
  /\ ~calm /\ pc[t] # "idle"
  /\ cache' \in {cache} \cup
       (IF pc[t] = "set" /\ Backend # "internal" THEN Stored(cached[t]) ELSE {})
  /\ pc' = [pc EXCEPT ![t] = "idle"]
  /\ cached' = [cached EXCEPT ![t] = None]
  /\ polId' = [polId EXCEPT ![t] = 0]
  /\ UNCHANGED <<dns, web, calm, fetching, phase, ts, reply, seen>>

\* The exception of a scan or of the fetch time stamp ends the fetch task for good.  It
\* cancels its processors, but for those in which a wait_for swallows that
FetchDies ==
  /\ CacheMayFail /\ ~calm /\ fetching /\ fetching' = FALSE
  /\ \E ended \in SUBSET {p \in Processors : pc[p] # "idle"} :
       /\ \/ UNCHANGED cache
          \/ \E p \in ended : pc[p] = "set" /\ cache' \in Stored(cached[p])
       /\ pc' = [t \in Tasks |-> IF t \in ended THEN "idle" ELSE pc[t]]
       /\ cached' = [t \in Tasks |-> IF t \in ended THEN None ELSE cached[t]]
       /\ polId' = [t \in Tasks |-> IF t \in ended THEN 0 ELSE polId[t]]
  /\ UNCHANGED <<dns, web, calm, phase, ts, reply, seen>>

-----------------------------------------------------------------------------
(* The surroundings *)

\* A full LRU cache evicts the domain when another one is stored
Evict ==
  /\ ~calm /\ Backend = "internal" /\ cache # None
  /\ cache' = None
  /\ UNCHANGED <<dns, web, calm, fetching, phase, pc, cached, ts, polId, reply, seen>>

PublishBody ==
  /\ ~calm /\ web < MaxVersion
  /\ web' = web + 1
  /\ UNCHANGED <<dns, calm, fetching, phase, cache, pc, cached, ts, polId, reply, seen>>

PublishId ==
  /\ ~calm /\ dns' \in (dns + 1)..web
  /\ UNCHANGED <<web, calm, fetching, phase, cache, pc, cached, ts, polId, reply, seen>>

CalmDown ==
  /\ ~calm /\ calm' = TRUE
  /\ UNCHANGED <<dns, web, fetching, phase, cache, pc, cached, ts, polId, reply, seen>>

Older(age) == IF age < Horizon THEN age + 1 ELSE Horizon

InFlight(t) == pc[t] \in {"dns", "http", "set"}

Tick ==
  /\ \A t \in Tasks : InFlight(t) => ts[t] < MaxFlight
  /\ phase' = (phase + 1) % Resolution
  /\ cache' = IF cache = None THEN None ELSE [cache EXCEPT !.age = Older(@)]
  /\ cached' = [t \in Tasks |->
       IF pc[t] = "idle" \/ cached[t] = None THEN cached[t]
       ELSE [cached[t] EXCEPT !.age = Older(@)]]
  /\ ts' = [t \in Tasks |-> IF InFlight(t) THEN ts[t] + 1 ELSE ts[t]]
  /\ seen' = [r \in Requests |->
       IF pc[r] = "idle" \/ seen[r] = None THEN seen[r] ELSE Older(seen[r])]
  /\ UNCHANGED <<dns, web, calm, fetching, pc, polId, reply>>

Resolve(t) == DnsAnswer(t) \/ HttpAnswer(t) \/ LookupFails(t) \/ CacheSet(t)

Next ==
  \/ \E r \in Requests : Start(r) \/ CacheGet(r)
  \/ \E p \in Processors : Scan(p) \/ Take(p)
  \/ \E t \in Tasks : Resolve(t) \/ Cancel(t)
  \/ FetchDies \/ Evict \/ PublishBody \/ PublishId \/ CalmDown \/ Tick

Spec == Init /\ [][Next]_vars

\* Tasks that can run do run, time passes and the periodic fetch comes round as long as
\* its task lives; nothing is assumed of clients, the owner, the network or failures.
Fairness ==
  /\ WF_vars(Tick)
  /\ \A r \in Requests : WF_vars(CacheGet(r))
  /\ \A p \in Processors : WF_vars(Scan(p)) /\ WF_vars(Take(p))
  /\ \A t \in Tasks : WF_vars(Resolve(t))

FairSpec == Spec /\ Fairness
-----------------------------------------------------------------------------
(* Properties *)

\* No cached policy file is older than the id it is filed under, in the cache or
\* in a task's hands: resolve() reads the id before it fetches the file.  Were it
\* otherwise, NOT_CHANGED would renew an outdated policy for ever.
BodyNotOlderThanId ==
  /\ dns <= web
  /\ cache # None => cache.id <= cache.body /\ cache.body <= web
  /\ \A t \in Tasks :
       /\ polId[t] <= dns
       /\ cached[t] # None => cached[t].id <= cached[t].body /\ cached[t].body <= web

\* Only files that passed resolve()'s validation are ever cached or answered from,
\* so the assertion `Empty MX list for restrictive policy!` never fires.
OnlyValidPolicies ==
  /\ cache # None => Valid(Policies[cache.body])
  /\ \A t \in Tasks : cached[t] # None => Valid(Policies[cached[t].body])
  /\ \A r \in Requests : reply[r] # "AssertionError"

\* A request answered OK was answered from a policy that had not expired when
\* its lookup started, whatever the other tasks did to the cache meanwhile.
ServedUnexpired ==
  \A r \in Requests :
    pc[r] = "idle" /\ reply[r] = "OK" => ~Expired(cached[r], ts[r])

\* Another policy replaces the cached one only if it was looked up no earlier:
\* a slow task cannot undo what a later lookup stored (SQL and Redis backends).
SupersededByNewer ==
  [][ \/ cache = None \/ cache' = None
      \/ cache'.id = cache.id /\ cache'.body = cache.body
      \/ cache'.age <= cache.age ]_vars

\* With an owner who always enforces, under one max_age, and a cache that loses
\* nothing: a request that arrives while a policy is cached is not told that
\* there is none, unless that policy has run out by the time of its lookup -
\* neither a failed lookup nor a concurrent task downgrades the domain.
NoDowngrade ==
  (\A v \in Versions : /\ Valid(Policies[v]) /\ Policies[v].mode = "enforce"
                       /\ Policies[v].max_age = Policies[1].max_age) =>
    \A r \in Requests :
      pc[r] = "idle" /\ reply[r] = "NOTFOUND" =>
        seen[r] = None \/ seen[r] - ts[r] > Policies[1].max_age

\* Once the domain is calm and the published policy valid, the cache comes to hold the
\* published id with a file no older, and keeps it, if the fetch task survived or requests
\* keep coming: no stale writer, no skipped refresh, no NOT_CHANGED leaves an outdated
\* policy behind.
Convergence ==
  <>[](calm /\ Valid(Policies[web])) /\ (<>[]fetching \/ []<>\E r \in Requests : pc[r] = "get") =>
    <>[](cache # None => cache.id = dns /\ cache.body >= dns)
=============================================================================
