------------------------- MODULE PolicyLookupProofs -------------------------
(***************************************************************************)
(* Proofs about PolicyLookup, for any set of requests and processors, any  *)
(* backend, any policies and any time constants.                           *)
(*                                                                         *)
(* Held says what a task holds in its local variables at each await; it is *)
(* inductive together with TypeOK, and every other invariant is proved     *)
(* relative to the two.                                                    *)
(***************************************************************************)
EXTENDS PolicyLookup, TLAPS

Held ==
  \A t \in Tasks :
    /\ pc[t] = "queued" => t \in Processors /\ cached[t] # None
    /\ pc[t] = "get" => t \in Requests
    /\ pc[t] = "http" => polId[t] \in Versions
    /\ pc[t] = "set" => cached[t] # None /\ cached[t].age = ts[t]

TypeInv == TypeOK /\ Held

\* int(ts) makes an entry older by less than a second.
LEMMA WholeSecondsBounds ==
  ASSUME TypeOK, NEW age \in Int
  PROVE  WholeSeconds(age) \in age..(age + Resolution - 1)
BY TimeAssumption DEF WholeSeconds, TypeOK

\* The cache holds an entry of its type after storing a fresh one.
LEMMA StoredType ==
  ASSUME TypeOK, NEW e \in Entries, e.age \in 0..MaxFlight
  PROVE  Stored(e) \subseteq Entries
<1>1. \A a \in Int : a \in 0..MaxFlight => WholeSeconds(a) \in 0..Horizon
  BY WholeSecondsBounds, TimeAssumption
<1>2. [e EXCEPT !.age = WholeSeconds(e.age)] \in Entries
  BY <1>1 DEF Entries
<1>3. cache # None => cache \in Entries
  BY DEF TypeOK
<1>. QED BY <1>2, <1>3, BackendAssumption DEF Stored, StoredSql, StoredRedis

\* Ending the work on the domain leaves the task idle and the others as they were.
LEMMA FinishInv ==
  ASSUME TypeInv, NEW t \in Tasks, NEW e \in Entries \cup {None}, NEW have,
         Finish(t, e, have),
         \A u \in Tasks : u # t => polId'[u] = polId[u] /\ ts'[u] = ts[u]
  PROVE  /\ pc' \in [Tasks -> {"idle", "get", "queued", "dns", "http", "set"}]
         /\ cached' \in [Tasks -> Entries \cup {None}]
         /\ reply' \in [Requests -> {"none", "OK", "NOTFOUND", "AssertionError"}]
         /\ Held'
<1>1. Answer(t, e, have) \in {"OK", "NOTFOUND", "AssertionError"}
  BY DEF Answer
<1>2. pc' = [pc EXCEPT ![t] = "idle"]
  BY DEF Finish
<1>3. cached' \in [Tasks -> Entries \cup {None}]
      /\ \A u \in Tasks : u # t => cached'[u] = cached[u]
  BY DEF Finish, TypeInv, TypeOK
<1>4. reply' \in [Requests -> {"none", "OK", "NOTFOUND", "AssertionError"}]
  BY <1>1 DEF Finish, TypeInv, TypeOK
<1>5. pc' \in [Tasks -> {"idle", "get", "queued", "dns", "http", "set"}]
  BY <1>2 DEF TypeInv, TypeOK
<1>6. Held'
  <2> SUFFICES ASSUME NEW u \in Tasks
               PROVE  /\ pc'[u] = "queued" => u \in Processors /\ cached'[u] # None
                      /\ pc'[u] = "get" => u \in Requests
                      /\ pc'[u] = "http" => polId'[u] \in Versions
                      /\ pc'[u] = "set" => cached'[u] # None /\ cached'[u].age = ts'[u]
    BY DEF Held
  <2>1. CASE u = t
    BY <1>2, <2>1 DEF TypeInv, TypeOK
  <2>2. CASE u # t
    BY <1>2, <1>3, <2>2 DEF TypeInv, TypeOK, Held
  <2>. QED BY <2>1, <2>2
<1>. QED BY <1>3, <1>4, <1>5, <1>6

LEMMA TypeInit == Init => TypeInv
<1> SUFFICES ASSUME Init PROVE TypeInv
  OBVIOUS
<1>1. 1 \in Versions /\ 0 \in 0..(Resolution - 1) /\ 0 \in 0..MaxFlight /\ 0 \in 0..MaxVersion
  BY PoliciesAssumption, TimeAssumption DEF Versions
<1>2. TypeOK
  BY <1>1 DEF Init, TypeOK
<1>3. Held
  BY DEF Init, Held
<1>. QED BY <1>2, <1>3 DEF TypeInv

\* When the fetch task dies each task goes on or is cancelled ...
LEMMA FetchDiesTasks ==
  ASSUME FetchDies, NEW t \in Tasks
  PROVE  \/ pc'[t] = pc[t] /\ cached'[t] = cached[t] /\ polId'[t] = polId[t]
         \/ t \in Processors /\ pc'[t] = "idle" /\ cached'[t] = None /\ polId'[t] = 0
BY DEF FetchDies

\* ... and one of those that are may have stored its entry
LEMMA FetchDiesCache ==
  ASSUME FetchDies
  PROVE  \/ cache' = cache
         \/ \E t \in Tasks : pc[t] = "set" /\ cache' \in Stored(cached[t])
BY DEF FetchDies, Tasks

LEMMA TypeStep == TypeInv /\ [Next]_vars => TypeInv'
<1> SUFFICES ASSUME TypeInv, [Next]_vars PROVE TypeInv'
  OBVIOUS
<1>. USE TasksAssumption, BackendAssumption, PoliciesAssumption, TimeAssumption DEF TypeInv
<1>1. CASE UNCHANGED vars
  BY <1>1 DEF vars, TypeOK, Held
<1>2. ASSUME NEW r \in Requests, Start(r) PROVE TypeInv'
  <2>1. cache # None => cache.age \in 0..Horizon
    BY DEF TypeOK, Entries
  <2>. QED BY <1>2, <2>1 DEF Start, TypeOK, Held, Tasks
<1>3. ASSUME NEW r \in Requests, CacheGet(r) PROVE TypeInv'
  <2>1. PICK e \in {cache} \cup {None} :
          \/ /\ pc' = [pc EXCEPT ![r] = "dns"]
             /\ cached' = [cached EXCEPT ![r] = e]
             /\ UNCHANGED reply
          \/ Finish(r, e, TRUE)
    BY <1>3 DEF CacheGet
  <2>2. e \in Entries \cup {None} /\ r \in Tasks
    BY DEF TypeOK, Tasks
  <2>3. UNCHANGED <<dns, web, calm, fetching, phase, cache, ts, polId, seen>>
    BY <1>3 DEF CacheGet
  <2>4. CASE Finish(r, e, TRUE)
    BY <2>2, <2>3, <2>4, FinishInv DEF TypeOK
  <2>5. CASE ~Finish(r, e, TRUE)
    <3>1. cached' = [cached EXCEPT ![r] = e] /\ pc' = [pc EXCEPT ![r] = "dns"]
          /\ reply' = reply
      BY <2>1, <2>5
    <3>2. TypeOK'
      BY <2>2, <2>3, <3>1 DEF TypeOK
    <3>3. Held'
      BY <2>2, <2>3, <3>1 DEF TypeOK, Held
    <3>. QED BY <3>2, <3>3
  <2>. QED BY <2>4, <2>5
<1>4. ASSUME NEW p \in Processors, Scan(p) PROVE TypeInv'
  BY <1>4 DEF Scan, TypeOK, Held, Tasks
<1>5. ASSUME NEW p \in Processors, Take(p) PROVE TypeInv'
  <2>1. CASE Finish(p, None, FALSE)
    <3>1. p \in Tasks /\ None \in Entries \cup {None}
      BY DEF Tasks
    <3>2. ts' = [ts EXCEPT ![p] = 0] /\ UNCHANGED <<dns, web, calm, fetching, phase, cache, polId, seen>>
      BY <1>5 DEF Take
    <3>3. \A u \in Tasks : u # p => polId'[u] = polId[u] /\ ts'[u] = ts[u]
      BY <3>2 DEF TypeOK
    <3>4. ts' \in [Tasks -> 0..MaxFlight]
      BY <3>1, <3>2 DEF TypeOK
    <3>5. /\ pc' \in [Tasks -> {"idle", "get", "queued", "dns", "http", "set"}]
          /\ cached' \in [Tasks -> Entries \cup {None}]
          /\ reply' \in [Requests -> {"none", "OK", "NOTFOUND", "AssertionError"}]
          /\ Held'
      BY <2>1, <3>1, <3>3, FinishInv
    <3>. QED BY <3>2, <3>4, <3>5 DEF TypeOK
  <2>2. CASE pc' = [pc EXCEPT ![p] = "dns"] /\ UNCHANGED <<cached, reply>>
    BY <1>5, <2>2 DEF Take, TypeOK, Held, Tasks
  <2>. QED BY <1>5, <2>1, <2>2 DEF Take
<1>6. ASSUME NEW t \in Tasks, DnsAnswer(t) PROVE TypeInv'
  <2>1. PICK id \in 1..dns :
       IF cached[t] # None /\ cached[t].id = id
       THEN /\ cached' = [cached EXCEPT ![t].age = ts[t]]
            /\ pc' = [pc EXCEPT ![t] = "set"]
            /\ UNCHANGED polId
       ELSE /\ polId' = [polId EXCEPT ![t] = id]
            /\ pc' = [pc EXCEPT ![t] = "http"]
            /\ UNCHANGED cached
    BY <1>6 DEF DnsAnswer, TypeOK, Versions
  <2>2. id \in Versions
    BY DEF TypeOK, Versions
  <2>3. cached[t] # None => [cached[t] EXCEPT !.age = ts[t]] \in Entries
    BY DEF TypeOK, Entries
  <2>4. UNCHANGED <<dns, web, calm, fetching, phase, cache, ts, reply, seen>>
    BY <1>6 DEF DnsAnswer
  <2>5. CASE cached[t] # None /\ cached[t].id = id
    BY <2>1, <2>3, <2>4, <2>5 DEF TypeOK, Held, Entries
  <2>6. CASE ~(cached[t] # None /\ cached[t].id = id)
    BY <2>1, <2>2, <2>4, <2>6 DEF TypeOK, Held, Versions
  <2>. QED BY <2>5, <2>6
<1>7. ASSUME NEW t \in Tasks, HttpAnswer(t) PROVE TypeInv'
  <2>1. CASE GiveUp(t)
    <3>1. cached[t] \in Entries \cup {None} /\ polId' \in [Tasks -> 0..MaxVersion]
      BY <1>7, PoliciesAssumption DEF HttpAnswer, TypeOK
    <3>2. \A u \in Tasks : u # t => polId'[u] = polId[u]
      BY <1>7 DEF HttpAnswer, TypeOK
    <3>. QED BY <1>7, <2>1, <3>1, <3>2, FinishInv DEF HttpAnswer, GiveUp, TypeOK
  <2>2. CASE Valid(Policies[web])
    <3>1. [age |-> ts[t], id |-> polId[t], body |-> web] \in Entries
      BY <1>7 DEF HttpAnswer, TypeOK, Held, Entries
    <3>. QED BY <1>7, <2>2, <3>1 DEF HttpAnswer, TypeOK, Held
  <2>. QED BY <1>7, <2>1, <2>2 DEF HttpAnswer
<1>8. ASSUME NEW t \in Tasks, LookupFails(t) PROVE TypeInv'
  <2>1. cached[t] \in Entries \cup {None} /\ polId' \in [Tasks -> 0..MaxVersion]
    BY <1>8, PoliciesAssumption DEF LookupFails, TypeOK
  <2>2. \A u \in Tasks : u # t => polId'[u] = polId[u]
    BY <1>8 DEF LookupFails, TypeOK
  <2>. QED BY <1>8, <2>1, <2>2, FinishInv DEF LookupFails, GiveUp, TypeOK
<1>9. ASSUME NEW t \in Tasks, CacheSet(t) PROVE TypeInv'
  <2>1. cached[t] \in Entries /\ cached[t].age \in 0..MaxFlight
    BY <1>9 DEF CacheSet, TypeOK, Held
  <2>2. cache' \in Entries \cup {None}
    BY <1>9, <2>1, StoredType DEF CacheSet, TypeOK
  <2>. QED BY <1>9, <2>1, <2>2, FinishInv DEF CacheSet, TypeOK
<1>10. ASSUME NEW t \in Tasks, Cancel(t) PROVE TypeInv'
  <2>1. pc[t] = "set" => cached[t] \in Entries /\ cached[t].age \in 0..MaxFlight
    BY DEF TypeOK, Held
  <2>2. cache' \in Entries \cup {None}
    BY <1>10, <2>1, StoredType DEF Cancel, TypeOK
  <2>. QED BY <1>10, <2>2 DEF Cancel, TypeOK, Held
<1>11. ASSUME Evict \/ PublishBody \/ PublishId \/ CalmDown PROVE TypeInv'
  <2>1. Held'
    BY <1>11 DEF Evict, PublishBody, PublishId, CalmDown, Held
  <2>2. dns' \in Versions /\ web' \in Versions
    BY <1>11, PoliciesAssumption DEF Evict, PublishBody, PublishId, CalmDown, TypeOK, Versions
  <2>3. TypeOK'
    BY <1>11, <2>2 DEF Evict, PublishBody, PublishId, CalmDown, TypeOK
  <2>. QED BY <2>1, <2>3
<1>12. CASE Tick
  <2>1. \A e \in Entries : [e EXCEPT !.age = Older(@)] \in Entries
    BY DEF Entries, Older
  <2>2. cache' \in Entries \cup {None} /\ cached' \in [Tasks -> Entries \cup {None}]
    BY <1>12, <2>1 DEF Tick, TypeOK
  <2>3. ts' \in [Tasks -> 0..MaxFlight]
    BY <1>12 DEF Tick, TypeOK
  <2>4. seen' \in [Requests -> 0..Horizon \cup {None}]
    BY <1>12 DEF Tick, TypeOK, Older
  <2>5. phase' \in 0..(Resolution - 1)
    BY <1>12, TimeAssumption DEF Tick, TypeOK
  <2>6. TypeOK'
    BY <1>12, <2>2, <2>3, <2>4, <2>5 DEF Tick, TypeOK
  <2>7. ASSUME NEW t \in Tasks, pc[t] = "set"
        PROVE  cached'[t] # None /\ cached'[t].age = ts'[t]
    <3>1. cached[t] \in Entries /\ cached[t].age = ts[t] /\ ts[t] < MaxFlight
      BY <1>12, <2>7 DEF Tick, InFlight, TypeOK, Held
    <3>2. cached'[t] = [cached[t] EXCEPT !.age = Older(@)] /\ ts'[t] = ts[t] + 1
      BY <1>12, <2>7, <3>1 DEF Tick, InFlight
    <3>. QED BY <3>1, <3>2, <2>1 DEF Older, Entries, TypeOK
  <2>8. Held'
    <3>1. \A t \in Tasks : cached[t] # None => cached'[t] # None
      BY <1>12, <2>1, BackendAssumption DEF Tick, TypeOK
    <3>. QED BY <1>12, <2>7, <3>1 DEF Tick, Held
  <2>. QED BY <2>6, <2>8
<1>13. CASE FetchDies
  <2>1. \A t \in Tasks : pc[t] = "set" => cached[t] \in Entries /\ cached[t].age \in 0..MaxFlight
    BY DEF TypeOK, Held
  <2>2. cache' \in Entries \cup {None}
    BY <1>13, <2>1, FetchDiesCache, StoredType DEF TypeOK
  <2>3. /\ pc' \in [Tasks -> {"idle", "get", "queued", "dns", "http", "set"}]
        /\ cached' \in [Tasks -> Entries \cup {None}] /\ polId' \in [Tasks -> 0..MaxVersion]
    BY <1>13, PoliciesAssumption DEF FetchDies, TypeOK
  <2>4. TypeOK'
    BY <1>13, <2>2, <2>3 DEF FetchDies, TypeOK
  <2>5. Held'
    BY <1>13, FetchDiesTasks DEF FetchDies, Held
  <2>. QED BY <2>4, <2>5
<1>. QED BY <1>1, <1>2, <1>3, <1>4, <1>5, <1>6, <1>7, <1>8, <1>9, <1>10, <1>11, <1>12, <1>13
          DEF Next, Resolve

\* Every variable keeps its type, and every task holds what its await implies.
LEMMA TypeInvHolds == Spec => []TypeInv
BY TypeInit, TypeStep, PTL DEF Spec

\* In particular no age is ever counted past Horizon, and no store of whole
\* seconds makes a time stamp of the future.
THEOREM TypeCorrect == Spec => []TypeOK
<1>1. TypeInv => TypeOK
  BY DEF TypeInv
<1>. QED BY <1>1, TypeInvHolds, PTL

-----------------------------------------------------------------------------
(* The entries in the cache and in the tasks' hands *)

\* What Stored may leave in the cache has the id and the file of the entry that
\* was stored or of the one that was there.
LEMMA StoredContent ==
  ASSUME TypeOK, NEW e \in Entries, NEW new \in Stored(e)
  PROVE  new = cache \/ (new.id = e.id /\ new.body = e.body)
BY BackendAssumption DEF Stored, StoredSql, StoredRedis, Entries

\* Every step takes the entries it leaves behind, in the cache and in `cached`,
\* from those that were there, except the one an HTTPS answer makes.
Source(new, t) ==
  \/ new = None
  \/ cache # None /\ new.id = cache.id /\ new.body = cache.body
  \/ cached[t] # None /\ new.id = cached[t].id /\ new.body = cached[t].body
  \/ /\ pc[t] = "http" /\ Valid(Policies[web])
     /\ new.id = polId[t] /\ new.body = web

LEMMA EntriesStep ==
  ASSUME TypeInv, [Next]_vars
  PROVE  /\ \/ cache' = None \/ cache' = cache
            \/ \E t \in Tasks : cached[t] # None /\ cache'.id = cached[t].id
                                                 /\ cache'.body = cached[t].body
            \/ cache # None /\ cache'.id = cache.id /\ cache'.body = cache.body
         /\ \A t \in Tasks : Source(cached'[t], t)
<1>. DEFINE FromCache == \/ cache' = None \/ cache' = cache
                         \/ cache # None /\ cache'.id = cache.id /\ cache'.body = cache.body
            FromTask == \E t \in Tasks : cached[t] # None /\ cache'.id = cached[t].id
                                                          /\ cache'.body = cached[t].body
            Sources == \A t \in Tasks : Source(cached'[t], t)
<1>. USE DEF TypeInv
<1>1. ASSUME cached' = cached PROVE Sources
  BY <1>1 DEF Source
<1>2. ASSUME NEW t \in Tasks, NEW new, cached' = [cached EXCEPT ![t] = new], Source(new, t)
      PROVE  Sources
  BY <1>2 DEF Source, TypeOK
<1>3. ASSUME NEW t \in Tasks, NEW have, Finish(t, cached[t], have) PROVE Sources
  <2>1. cached' = [cached EXCEPT ![t] = IF t \in Requests THEN cached[t] ELSE None]
    BY <1>3 DEF Finish
  <2>. QED BY <2>1, <1>2 DEF Source
<1>4. ASSUME NEW t \in Tasks, cached[t] # None, cache' \in Stored(cached[t])
      PROVE  FromCache \/ FromTask
  BY <1>4, StoredContent DEF TypeOK
<1>5. CASE UNCHANGED vars
  BY <1>5, <1>1 DEF vars
<1>6. ASSUME NEW r \in Requests, Start(r) PROVE FromCache /\ Sources
  BY <1>6, <1>2 DEF Start, Source, Tasks
<1>7. ASSUME NEW r \in Requests, CacheGet(r) PROVE FromCache /\ Sources
  <2>1. PICK e \in {cache} \cup {None} :
          \/ cached' = [cached EXCEPT ![r] = e]
          \/ Finish(r, e, TRUE)
    BY <1>7 DEF CacheGet
  <2>2. cached' = [cached EXCEPT ![r] = e]
    BY <2>1 DEF Finish
  <2>3. r \in Tasks /\ Source(e, r)
    BY DEF Tasks, Source
  <2>. QED BY <1>7, <2>2, <2>3, <1>2 DEF CacheGet
<1>8. ASSUME NEW p \in Processors, Scan(p) PROVE FromCache /\ Sources
  BY <1>8, <1>2 DEF Scan, Source, Tasks
<1>9. ASSUME NEW p \in Processors, Take(p) PROVE FromCache /\ Sources
  <2>1. cached' = cached \/ cached' = [cached EXCEPT ![p] = None]
    BY <1>9 DEF Take, Finish
  <2>. QED BY <1>9, <2>1, <1>1, <1>2 DEF Take, Source, Tasks
<1>10. ASSUME NEW t \in Tasks, DnsAnswer(t) PROVE FromCache /\ Sources
  <2>1. \/ cached' = cached
        \/ cached[t] # None /\ cached' = [cached EXCEPT ![t].age = ts[t]]
    BY <1>10 DEF DnsAnswer
  <2>2. cached[t] # None => Source([cached[t] EXCEPT !.age = ts[t]], t)
    BY DEF Source, TypeOK, Entries
  <2>3. cached' = cached \/ (cached[t] # None /\
          cached' = [cached EXCEPT ![t] = [cached[t] EXCEPT !.age = ts[t]]])
    BY <2>1
  <2>. QED BY <1>10, <2>2, <2>3, <1>1, <1>2 DEF DnsAnswer
<1>11. ASSUME NEW t \in Tasks, HttpAnswer(t) PROVE FromCache /\ Sources
  <2>1. CASE Valid(Policies[web])
    <3>1. Source([age |-> ts[t], id |-> polId[t], body |-> web], t)
      BY <1>11, <2>1 DEF HttpAnswer, Source
    <3>. QED BY <1>11, <2>1, <3>1, <1>2 DEF HttpAnswer
  <2>2. CASE ~Valid(Policies[web])
    BY <1>11, <2>2, <1>3 DEF HttpAnswer, GiveUp
  <2>. QED BY <2>1, <2>2
<1>12. ASSUME NEW t \in Tasks, LookupFails(t) PROVE FromCache /\ Sources
  BY <1>12, <1>3 DEF LookupFails, GiveUp
<1>13. ASSUME NEW t \in Tasks, CacheSet(t) PROVE (FromCache \/ FromTask) /\ Sources
  <2>1. cached[t] # None
    BY <1>13 DEF CacheSet, Held
  <2>2. cache' = cache \/ cache' \in Stored(cached[t])
    BY <1>13 DEF CacheSet
  <2>. QED BY <1>13, <2>1, <2>2, <1>3, <1>4 DEF CacheSet
<1>14. ASSUME NEW t \in Tasks, Cancel(t) PROVE (FromCache \/ FromTask) /\ Sources
  <2>1. cache' = cache \/ (pc[t] = "set" /\ cache' \in Stored(cached[t]))
    BY <1>14 DEF Cancel
  <2>2. pc[t] = "set" => cached[t] # None
    BY DEF Held
  <2>3. Sources
    BY <1>14, <1>2 DEF Cancel, Source
  <2>. QED BY <2>1, <2>2, <2>3, <1>4
<1>15. ASSUME Evict \/ PublishBody \/ PublishId \/ CalmDown PROVE FromCache /\ Sources
  BY <1>15, <1>1 DEF Evict, PublishBody, PublishId, CalmDown
<1>16. CASE Tick
  <2>1. FromCache
    BY <1>16 DEF Tick, TypeOK, Entries
  <2>2. \A t \in Tasks : Source(cached'[t], t)
    BY <1>16 DEF Tick, Source, TypeOK, Entries
  <2>. QED BY <2>1, <2>2
<1>17. CASE FetchDies
  <2>1. \A t \in Tasks : pc[t] = "set" => cached[t] # None
    BY DEF Held
  <2>2. FromCache \/ FromTask
    BY <1>17, <2>1, <1>4, FetchDiesCache
  <2>3. Sources
    BY <1>17, FetchDiesTasks DEF Source
  <2>. QED BY <2>2, <2>3
<1>. QED BY <1>5, <1>6, <1>7, <1>8, <1>9, <1>10, <1>11, <1>12, <1>13, <1>14, <1>15, <1>16, <1>17
          DEF Next, Resolve

-----------------------------------------------------------------------------
(* BodyNotOlderThanId *)

LEMMA BodyStep == TypeInv /\ BodyNotOlderThanId /\ [Next]_vars => BodyNotOlderThanId'
<1> SUFFICES ASSUME TypeInv, BodyNotOlderThanId, [Next]_vars PROVE BodyNotOlderThanId'
  OBVIOUS
<1>1. dns' >= dns /\ web' >= web /\ dns' <= web' /\ dns \in Int /\ web \in Int
      /\ dns' \in Int /\ web' \in Int
  <2>1. dns \in Int /\ web \in Int /\ dns <= web
    BY DEF TypeInv, TypeOK, Versions, BodyNotOlderThanId
  <2>2. \/ UNCHANGED <<dns, web>>
        \/ PublishBody
        \/ PublishId
    BY DEF Next, vars, Start, CacheGet, Scan, Take, Resolve, DnsAnswer, HttpAnswer,
           LookupFails, CacheSet, Cancel, FetchDies, Evict, CalmDown, Tick
  <2>. QED BY <2>1, <2>2 DEF PublishBody, PublishId
<1>2. ASSUME NEW t \in Tasks PROVE polId'[t] <= dns'
  <2>1. polId[t] \in Int /\ polId[t] <= dns /\ 0 <= dns
    BY DEF TypeInv, TypeOK, Versions, BodyNotOlderThanId
  <2>2. polId'[t] \in {polId[t], 0} \cup 1..dns
    <3>1. ASSUME NEW u \in Tasks, DnsAnswer(u) PROVE polId'[t] \in {polId[t]} \cup 1..dns
      BY <3>1 DEF DnsAnswer, TypeInv, TypeOK, Versions
    <3>2. ASSUME NEW u \in Tasks, polId' = [polId EXCEPT ![u] = 0]
          PROVE  polId'[t] \in {polId[t], 0}
      BY <3>2 DEF TypeInv, TypeOK
    <3>3. \/ polId' = polId \/ FetchDies
          \/ \E u \in Tasks : DnsAnswer(u) \/ polId' = [polId EXCEPT ![u] = 0]
      BY DEF Next, vars, Start, CacheGet, Scan, Take, Resolve, HttpAnswer, LookupFails,
             CacheSet, Cancel, Evict, PublishBody, PublishId, CalmDown, Tick
    <3>. QED BY <3>1, <3>2, <3>3, FetchDiesTasks
  <2>. QED BY <2>1, <2>2, <1>1
<1>. DEFINE Good(e) == e # None => e.id <= e.body /\ e.body <= web
            GoodNext(e) == e # None => e.id <= e.body /\ e.body <= web'
<1>3. Good(cache) /\ \A t \in Tasks : Good(cached[t])
  BY DEF BodyNotOlderThanId
<1>4. ASSUME NEW e \in Entries, Good(e), NEW new, new # None,
             new.id = e.id, new.body = e.body
      PROVE  GoodNext(new)
  BY <1>1, <1>4, BackendAssumption DEF Entries, Versions
<1>5. GoodNext(cache')
  BY <1>3, <1>4, EntriesStep DEF TypeInv, TypeOK
<1>6. ASSUME NEW t \in Tasks PROVE GoodNext(cached'[t])
  <2>1. CASE /\ pc[t] = "http" /\ cached'[t].id = polId[t] /\ cached'[t].body = web
    <3>1. polId[t] \in Int /\ polId[t] <= dns /\ dns <= web
      BY DEF TypeInv, TypeOK, BodyNotOlderThanId
    <3>. QED BY <1>1, <2>1, <3>1
  <2>2. Source(cached'[t], t)
    BY EntriesStep
  <2>3. CASE ~(/\ pc[t] = "http" /\ cached'[t].id = polId[t] /\ cached'[t].body = web)
    BY <1>3, <1>4, <2>2, <2>3 DEF Source, TypeInv, TypeOK
  <2>. QED BY <2>1, <2>3
<1>. QED BY <1>1, <1>2, <1>5, <1>6 DEF BodyNotOlderThanId

\* For any number of tasks, versions and failures, on every backend: no file is
\* ever cached under an id newer than itself.
THEOREM BodyNotOlderThanIdHolds == Spec => []BodyNotOlderThanId
<1>1. Init => BodyNotOlderThanId
  BY DEF Init, BodyNotOlderThanId
<1>. QED BY <1>1, BodyStep, TypeInvHolds, PTL DEF Spec

-----------------------------------------------------------------------------
(* OnlyValidPolicies *)

LEMMA ValidStep == TypeInv /\ OnlyValidPolicies /\ [Next]_vars => OnlyValidPolicies'
<1> SUFFICES ASSUME TypeInv, OnlyValidPolicies, [Next]_vars PROVE OnlyValidPolicies'
  OBVIOUS
<1>1. cache' # None => Valid(Policies[cache'.body])
  BY EntriesStep DEF OnlyValidPolicies
<1>2. \A t \in Tasks : cached'[t] # None => Valid(Policies[cached'[t].body])
  BY EntriesStep DEF OnlyValidPolicies, Source
<1>3. ASSUME NEW r \in Requests PROVE reply'[r] # "AssertionError"
  <2>1. reply[r] # "AssertionError"
    BY DEF OnlyValidPolicies
  <2>2. ASSUME NEW t \in Tasks, NEW e, NEW have, Finish(t, e, have),
               ~have \/ Valid(Policies[e.body])
        PROVE  reply'[r] # "AssertionError"
    <3>1. Answer(t, e, have) # "AssertionError"
      BY <2>2 DEF Answer, Valid
    <3>. QED BY <2>1, <2>2, <3>1 DEF Finish, TypeInv, TypeOK
  <2>3. ASSUME NEW t \in Tasks, GiveUp(t) PROVE reply'[r] # "AssertionError"
    BY <2>2, <2>3 DEF GiveUp, OnlyValidPolicies
  <2>4. CASE UNCHANGED reply
    BY <2>1, <2>4
  <2>5. ASSUME NEW q \in Requests, Start(q) PROVE reply'[r] # "AssertionError"
    BY <2>1, <2>5 DEF Start, TypeInv, TypeOK
  <2>6. ASSUME NEW q \in Requests, CacheGet(q) PROVE reply'[r] # "AssertionError"
    <3>1. PICK e \in {cache} \cup {None} :
            UNCHANGED reply \/ (~IsStale(e) /\ Finish(q, e, TRUE))
      BY <2>6 DEF CacheGet
    <3>2. CASE ~IsStale(e) /\ Finish(q, e, TRUE)
      BY <3>2, <2>2 DEF IsStale, OnlyValidPolicies, Tasks
    <3>. QED BY <3>1, <3>2, <2>4
  <2>7. ASSUME NEW p \in Processors, Take(p) PROVE reply'[r] # "AssertionError"
    <3>1. UNCHANGED reply \/ Finish(p, None, FALSE)
      BY <2>7 DEF Take
    <3>. QED BY <3>1, <2>2, <2>4 DEF Tasks
  <2>8. ASSUME NEW t \in Tasks, HttpAnswer(t) \/ LookupFails(t)
        PROVE  reply'[r] # "AssertionError"
    BY <2>8, <2>3, <2>4 DEF HttpAnswer, LookupFails
  <2>9. ASSUME NEW t \in Tasks, CacheSet(t) PROVE reply'[r] # "AssertionError"
    BY <2>9, <2>2 DEF CacheSet, OnlyValidPolicies, TypeInv, Held
  <2>10. \/ UNCHANGED reply
         \/ \E q \in Requests : Start(q) \/ CacheGet(q)
         \/ \E p \in Processors : Take(p)
         \/ \E t \in Tasks : HttpAnswer(t) \/ LookupFails(t) \/ CacheSet(t)
    BY DEF Next, vars, Scan, Resolve, DnsAnswer, Cancel, FetchDies, Evict, PublishBody,
           PublishId, CalmDown, Tick
  <2>. QED BY <2>4, <2>5, <2>6, <2>7, <2>8, <2>9, <2>10
<1>. QED BY <1>1, <1>2, <1>3 DEF OnlyValidPolicies

\* Whatever files the owner serves, an invalid one is never cached, and the
\* assertion on the MX list of a restrictive policy never fails.
THEOREM OnlyValidPoliciesHolds == Spec => []OnlyValidPolicies
<1>1. Init => OnlyValidPolicies
  BY DEF Init, OnlyValidPolicies
<1>. QED BY <1>1, ValidStep, TypeInvHolds, PTL DEF Spec

-----------------------------------------------------------------------------
(* ServedUnexpired *)

\* A request that is at work has answered nothing, and sets `ts` when it knows
\* that the cached policy is stale.
AtWork ==
  \A r \in Requests : /\ pc[r] = "get" => ts[r] = 0
                      /\ pc[r] # "idle" => reply[r] = "none"

ServedInv == OnlyValidPolicies /\ AtWork /\ ServedUnexpired

LEMMA ServedStep == TypeInv /\ ServedInv /\ [Next]_vars => (AtWork /\ ServedUnexpired)'
<1> SUFFICES ASSUME TypeInv, ServedInv, [Next]_vars, NEW r \in Requests
             PROVE  /\ pc'[r] = "get" => ts'[r] = 0
                    /\ pc'[r] # "idle" => reply'[r] = "none"
                    /\ pc'[r] = "idle" /\ reply'[r] = "OK" => ~Expired(cached'[r], ts'[r])
  BY DEF AtWork, ServedUnexpired, Expired, MaxAge
<1>. DEFINE Goal == /\ pc'[r] = "get" => ts'[r] = 0
                    /\ pc'[r] # "idle" => reply'[r] = "none"
                    /\ pc'[r] = "idle" /\ reply'[r] = "OK" => ~Expired(cached'[r], ts'[r])
<1>. USE DEF TypeInv, ServedInv
<1>1. ASSUME NEW t \in Tasks, NEW e, NEW have, Finish(t, e, have),
             t = r => ts'[t] = ts[t] /\ (have => ~Expired(e, ts[t])),
             \A u \in Tasks : u # t => ts'[u] = ts[u]
      PROVE  Goal
  <2>1. CASE t = r
    <3>1. reply'[r] = Answer(r, e, have) /\ cached'[r] = e /\ pc'[r] = "idle"
      BY <1>1, <2>1 DEF Finish, TypeOK
    <3>2. Answer(r, e, have) = "OK" => have
      BY DEF Answer
    <3>. QED BY <1>1, <2>1, <3>1, <3>2
  <2>2. CASE t # r
    <3>1. reply'[r] = reply[r] /\ cached'[r] = cached[r] /\ pc'[r] = pc[r] /\ ts'[r] = ts[r]
      BY <1>1, <2>2 DEF Finish, TypeOK, Tasks
    <3>. QED BY <3>1 DEF AtWork, ServedUnexpired
  <2>. QED BY <2>1, <2>2
<1>2. ASSUME NEW t \in Tasks, GiveUp(t), ts' = ts PROVE Goal
  BY <1>1, <1>2 DEF GiveUp
<1>3. CASE UNCHANGED vars
  BY <1>3 DEF vars, AtWork, ServedUnexpired
<1>4. ASSUME NEW q \in Requests, Start(q) PROVE Goal
  BY <1>4 DEF Start, AtWork, ServedUnexpired, TypeOK, Tasks
<1>5. ASSUME NEW q \in Requests, CacheGet(q) PROVE Goal
  <2>1. PICK e \in {cache} \cup {None} :
          \/ /\ pc' = [pc EXCEPT ![q] = "dns"]
             /\ cached' = [cached EXCEPT ![q] = e]
             /\ UNCHANGED reply
          \/ ~IsStale(e) /\ Finish(q, e, TRUE)
    BY <1>5 DEF CacheGet
  <2>2. ts' = ts /\ pc[q] = "get" /\ q \in Tasks /\ ts[q] = 0
    BY <1>5 DEF CacheGet, AtWork, Tasks
  <2>3. CASE ~IsStale(e) /\ Finish(q, e, TRUE)
    BY <1>1, <2>2, <2>3 DEF IsStale
  <2>4. CASE pc' = [pc EXCEPT ![q] = "dns"] /\ cached' = [cached EXCEPT ![q] = e] /\ UNCHANGED reply
    BY <2>2, <2>4 DEF AtWork, ServedUnexpired, TypeOK, Tasks
  <2>. QED BY <2>1, <2>3, <2>4
<1>6. ASSUME NEW p \in Processors, Scan(p) \/ Take(p) PROVE Goal
  <2>1. p # r /\ r \in Tasks
    BY TasksAssumption DEF Tasks
  <2>. QED BY <1>6, <2>1 DEF Scan, Take, Finish, AtWork, ServedUnexpired, TypeOK, Tasks
<1>7. ASSUME NEW t \in Tasks, DnsAnswer(t) PROVE Goal
  <2>1. /\ pc[t] = "dns" /\ ts' = ts /\ reply' = reply
        /\ \/ pc' = [pc EXCEPT ![t] = "set"]
           \/ pc' = [pc EXCEPT ![t] = "http"]
        /\ \A u \in Tasks : u # t => cached'[u] = cached[u]
    BY <1>7 DEF DnsAnswer, TypeOK
  <2>. QED BY <2>1 DEF AtWork, ServedUnexpired, TypeOK, Tasks
<1>8. ASSUME NEW t \in Tasks, HttpAnswer(t) PROVE Goal
  <2>1. CASE GiveUp(t)
    BY <1>8, <2>1, <1>2 DEF HttpAnswer
  <2>2. CASE ~GiveUp(t)
    <3>1. /\ pc[t] = "http" /\ ts' = ts /\ reply' = reply
          /\ pc' = [pc EXCEPT ![t] = "set"]
          /\ \A u \in Tasks : u # t => cached'[u] = cached[u]
      BY <1>8, <2>2 DEF HttpAnswer, TypeOK
    <3>. QED BY <3>1 DEF AtWork, ServedUnexpired, TypeOK, Tasks
  <2>. QED BY <2>1, <2>2
<1>9. ASSUME NEW t \in Tasks, LookupFails(t) PROVE Goal
  BY <1>9, <1>2 DEF LookupFails
<1>10. ASSUME NEW t \in Tasks, CacheSet(t) PROVE Goal
  <2>1. cached[t] \in Entries /\ cached[t].age = ts[t] /\ Valid(Policies[cached[t].body])
    BY <1>10 DEF CacheSet, Held, TypeOK, OnlyValidPolicies
  <2>2. ~Expired(cached[t], ts[t])
    BY <2>1, PoliciesAssumption DEF Expired, MaxAge, Valid, Entries, TypeOK
  <2>. QED BY <1>10, <1>1, <2>2 DEF CacheSet
<1>11. ASSUME NEW t \in Tasks, Cancel(t) PROVE Goal
  BY <1>11 DEF Cancel, AtWork, ServedUnexpired, TypeOK, Tasks
<1>12. ASSUME Evict \/ PublishBody \/ PublishId \/ CalmDown PROVE Goal
  BY <1>12 DEF Evict, PublishBody, PublishId, CalmDown, AtWork, ServedUnexpired
<1>13. CASE Tick
  BY <1>13 DEF Tick, InFlight, AtWork, ServedUnexpired, TypeOK, Tasks
<1>14. CASE FetchDies
  <2>1. r \in Tasks /\ r \notin Processors
    BY TasksAssumption DEF Tasks
  <2>2. pc'[r] = pc[r] /\ cached'[r] = cached[r] /\ ts' = ts /\ reply' = reply
    BY <1>14, <2>1, FetchDiesTasks DEF FetchDies
  <2>. QED BY <2>2 DEF AtWork, ServedUnexpired
<1>. QED BY <1>3, <1>4, <1>5, <1>6, <1>7, <1>8, <1>9, <1>10, <1>11, <1>12, <1>13, <1>14
          DEF Next, Resolve

LEMMA ServedInvHolds == Spec => []ServedInv
<1>1. Init => ServedInv
  <2>1. Init => OnlyValidPolicies
    BY DEF Init, OnlyValidPolicies
  <2>2. Init => AtWork /\ ServedUnexpired
    BY DEF Init, AtWork, ServedUnexpired, Tasks
  <2>. QED BY <2>1, <2>2 DEF ServedInv
<1>2. TypeInv /\ ServedInv /\ [Next]_vars => ServedInv'
  BY ServedStep, ValidStep DEF ServedInv
<1>. QED BY <1>1, <1>2, TypeInvHolds, PTL DEF Spec

\* A client that is told OK is told so from a policy that was within its max_age
\* when the request's lookup began, on every backend and for every failure.
THEOREM ServedUnexpiredHolds == Spec => []ServedUnexpired
<1>1. ServedInv => ServedUnexpired
  BY DEF ServedInv
<1>. QED BY <1>1, ServedInvHolds, PTL

-----------------------------------------------------------------------------
(* SupersededByNewer *)

\* With the guarded stores of the SQL and Redis backends, any number of tasks
\* that end their lookups in any order never undo a later lookup's entry.
THEOREM SupersededByNewerHolds ==
  ASSUME Backend \in {"sql", "redis"} PROVE Spec => SupersededByNewer
<1>. DEFINE NotUndone == \/ cache = None \/ cache' = None
                         \/ cache'.id = cache.id /\ cache'.body = cache.body
                         \/ cache'.age <= cache.age
<1>1. TypeInv /\ Next => NotUndone
  <2> SUFFICES ASSUME TypeInv, Next PROVE NotUndone
    OBVIOUS
  <2>1. ASSUME NEW e \in Entries, e.age \in 0..MaxFlight, cache' \in Stored(e) PROVE NotUndone
    <3>1. WholeSeconds(e.age) \in Int
      BY <2>1, WholeSecondsBounds, TimeAssumption DEF TypeInv
    <3>2. cache # None => cache.age \in Int
      BY DEF TypeInv, TypeOK, Entries
    <3>. QED BY <2>1, <3>1, <3>2 DEF Stored, StoredSql, StoredRedis, Entries
  <2>2. CASE UNCHANGED cache
    BY <2>2
  <2>3. CASE FetchDies \/ \E t \in Tasks : CacheSet(t) \/ Cancel(t)
    <3>1. cache' = cache \/ \E t \in Tasks : pc[t] = "set" /\ cache' \in Stored(cached[t])
      BY <2>3, FetchDiesCache DEF CacheSet, Cancel
    <3>2. \A t \in Tasks : pc[t] = "set" => cached[t] \in Entries /\ cached[t].age \in 0..MaxFlight
      BY DEF TypeInv, TypeOK, Held
    <3>. QED BY <2>1, <3>1, <3>2
  <2>4. CASE Tick
    BY <2>4 DEF Tick, TypeInv, TypeOK, Entries
  <2>5. CASE Evict
    BY <2>5 DEF Evict
  <2>. QED BY <2>2, <2>3, <2>4, <2>5
           DEF Next, Start, CacheGet, Scan, Take, Resolve, DnsAnswer, HttpAnswer,
               LookupFails, PublishBody, PublishId, CalmDown
<1>. QED BY <1>1, TypeInvHolds, PTL DEF Spec, SupersededByNewer

-----------------------------------------------------------------------------
(* NoDowngrade *)

AlwaysEnforces ==
  \A v \in Versions : /\ Valid(Policies[v]) /\ Policies[v].mode = "enforce"
                      /\ Policies[v].max_age = Policies[1].max_age

\* What was cached when a request arrived is still there when it reads the cache, and
\* in its hands while it looks the policy up - or something later is.
Remembers(r) ==
  seen[r] # None =>
    /\ pc[r] = "get" => cache # None /\ cache.age <= seen[r]
    /\ pc[r] \in {"dns", "http"} => cached[r] # None /\ cached[r].age <= seen[r]

\* A request told that there is no policy
ToldNone(r) ==
  pc[r] = "idle" /\ reply[r] = "NOTFOUND" =>
    seen[r] = None \/ seen[r] - ts[r] > Policies[1].max_age

DowngradeInv == \A r \in Requests : Remembers(r) /\ ToldNone(r)

\* The SQL and Redis stores leave an entry in the cache, and no older one.
LEMMA CacheRenewed ==
  ASSUME TypeInv, Next, Backend \in {"sql", "redis"}, ~Tick, cache # None
  PROVE  cache' # None /\ cache'.age <= cache.age
<1>. USE DEF TypeInv
<1>1. cache \in Entries /\ cache.age \in Int
  BY DEF TypeOK, Entries
<1>2. CASE UNCHANGED cache
  BY <1>1, <1>2
<1>3. ASSUME NEW e \in Entries, e.age \in 0..MaxFlight, cache' \in Stored(e)
      PROVE  cache' # None /\ cache'.age <= cache.age
  <2>1. cache' \in Entries
    BY <1>3, StoredType
  <2>2. WholeSeconds(e.age) \in Int
    BY <1>3, WholeSecondsBounds, TimeAssumption
  <2>3. cache'.age <= cache.age
    BY <1>1, <1>3, <2>2 DEF Stored, StoredSql, StoredRedis, Entries
  <2>. QED BY <2>1, <2>3, BackendAssumption
<1>4. CASE FetchDies \/ \E t \in Tasks : CacheSet(t) \/ Cancel(t)
  <2>1. cache' = cache \/ \E t \in Tasks : pc[t] = "set" /\ cache' \in Stored(cached[t])
    BY <1>4, FetchDiesCache DEF CacheSet, Cancel
  <2>2. \A t \in Tasks : pc[t] = "set" => cached[t] \in Entries /\ cached[t].age \in 0..MaxFlight
    BY DEF TypeOK, Held
  <2>. QED BY <1>1, <1>3, <2>1, <2>2
<1>. QED BY <1>2, <1>4
         DEF Next, Start, CacheGet, Scan, Take, Resolve, DnsAnswer, HttpAnswer,
             LookupFails, Evict, PublishBody, PublishId, CalmDown

\* Other tasks leave what a request remembers and answered as it is.
LEMMA OthersRemember ==
  ASSUME TypeInv, Next, Backend \in {"sql", "redis"}, ~Tick,
         NEW r \in Requests, Remembers(r), ToldNone(r),
         pc'[r] = pc[r], cached'[r] = cached[r], seen'[r] = seen[r],
         ts'[r] = ts[r], reply'[r] = reply[r]
  PROVE  Remembers(r)' /\ ToldNone(r)'
<1>1. cache # None => cache.age \in Int
  BY DEF TypeInv, TypeOK, Entries
<1>2. cache # None => cache' # None /\ cache'.age <= cache.age /\ cache'.age \in Int
  <2>1. cache' # None => cache'.age \in Int
    BY TypeStep DEF TypeInv, TypeOK, Entries
  <2>. QED BY <2>1, CacheRenewed
<1>3. seen[r] # None => seen[r] \in Int
  BY DEF TypeInv, TypeOK
<1>. QED BY <1>1, <1>2, <1>3 DEF Remembers, ToldNone

LEMMA DowngradeStep ==
  ASSUME Backend \in {"sql", "redis"}, ~CacheMayFail, AlwaysEnforces,
         TypeInv, ServedInv, DowngradeInv, [Next]_vars
  PROVE  DowngradeInv'
<1> SUFFICES ASSUME NEW r \in Requests PROVE Remembers(r)' /\ ToldNone(r)'
  BY DEF DowngradeInv
<1>. USE DEF TypeInv
<1>. DEFINE Goal == Remembers(r)' /\ ToldNone(r)'
<1>1. Remembers(r) /\ ToldNone(r) /\ r \in Tasks
  BY DEF DowngradeInv, Tasks
<1>2. \A e \in Entries : Policies[e.body].mode = "enforce"
                        /\ Policies[e.body].max_age = Policies[1].max_age
  BY DEF AlwaysEnforces, Entries
<1>3. Policies[1].max_age \in Int
  BY PoliciesAssumption DEF Versions
<1>4. ts[r] \in Int /\ (seen[r] # None => seen[r] \in Int)
  BY <1>1 DEF TypeOK
\* One that ends its work with a policy is not told that there is none ...
<1>5. ASSUME NEW e \in Entries, Finish(r, e, TRUE) PROVE Goal
  <2>1. Answer(r, e, TRUE) # "NOTFOUND"
    BY <1>2 DEF Answer
  <2>2. pc'[r] = "idle" /\ reply'[r] = Answer(r, e, TRUE)
    BY <1>5, <1>1 DEF Finish, TypeOK
  <2>. QED BY <2>1, <2>2 DEF Remembers, ToldNone
\* ... and one whose lookup failed only if what it remembers has run out
<1>6. ASSUME GiveUp(r), pc[r] \in {"dns", "http"}, UNCHANGED <<ts, seen>> PROVE Goal
  <2>1. pc'[r] = "idle"
    BY <1>6, <1>1 DEF GiveUp, Finish, TypeOK
  <2>2. CASE seen[r] = None
    BY <1>6, <2>1, <2>2 DEF Remembers, ToldNone
  <2>3. CASE seen[r] # None
    <3>1. cached[r] \in Entries /\ cached[r].age <= seen[r] /\ cached[r].age \in Int
      BY <1>1, <1>6, <2>3 DEF Remembers, TypeOK, Entries
    <3>2. CASE Expired(cached[r], ts[r])
      <4>1. cached[r].age - ts[r] > Policies[1].max_age
        BY <1>2, <3>1, <3>2 DEF Expired, MaxAge
      <4>. QED BY <1>3, <1>4, <1>6, <2>1, <2>3, <3>1, <4>1 DEF Remembers, ToldNone
    <3>3. CASE ~Expired(cached[r], ts[r])
      <4>1. cached[r] # None
        BY <3>1, BackendAssumption
      <4>2. Finish(r, cached[r], TRUE)
        BY <1>6, <3>3, <4>1, Zenon DEF GiveUp
      <4>. QED BY <3>1, <4>2, <1>5
    <3>. QED BY <3>2, <3>3
  <2>. QED BY <2>2, <2>3
<1>7. CASE UNCHANGED vars
  BY <1>1, <1>7 DEF vars, Remembers, ToldNone
<1>8. ASSUME Start(r) PROVE Goal
  <2>1. /\ pc'[r] = "get" /\ cache' = cache
        /\ seen'[r] = IF cache = None THEN None ELSE cache.age
    BY <1>1, <1>8 DEF Start, TypeOK
  <2>2. cache # None => cache.age \in Int
    BY DEF TypeOK, Entries
  <2>. QED BY <2>1, <2>2 DEF Remembers, ToldNone
<1>9. ASSUME CacheGet(r) PROVE Goal
  <2>1. \/ IsStale(cache) /\ pc' = [pc EXCEPT ![r] = "dns"] /\ cached' = [cached EXCEPT ![r] = cache]
        \/ ~IsStale(cache) /\ Finish(r, cache, TRUE)
    BY <1>9 DEF CacheGet
  <2>2. CASE ~IsStale(cache) /\ Finish(r, cache, TRUE)
    <3>1. cache \in Entries
      BY <2>2 DEF IsStale, TypeOK
    <3>. QED BY <2>2, <3>1, <1>5
  <2>3. CASE pc' = [pc EXCEPT ![r] = "dns"] /\ cached' = [cached EXCEPT ![r] = cache]
    <3>1. pc[r] = "get" /\ seen' = seen /\ pc'[r] = "dns" /\ cached'[r] = cache
      BY <1>1, <1>9, <2>3 DEF CacheGet, TypeOK
    <3>. QED BY <1>1, <3>1 DEF Remembers, ToldNone
  <2>. QED BY <2>1, <2>2, <2>3
<1>10. ASSUME DnsAnswer(r) PROVE Goal
  <2>1. pc[r] = "dns" /\ seen' = seen
        /\ \/ pc'[r] = "set"
           \/ pc'[r] = "http" /\ cached' = cached
    BY <1>1, <1>10 DEF DnsAnswer, TypeOK
  <2>. QED BY <1>1, <2>1 DEF Remembers, ToldNone
<1>11. ASSUME HttpAnswer(r) PROVE Goal
  <2>1. CASE GiveUp(r)
    BY <1>6, <1>11, <2>1 DEF HttpAnswer
  <2>2. CASE pc' = [pc EXCEPT ![r] = "set"]
    BY <1>1, <2>2 DEF Remembers, ToldNone, TypeOK
  <2>. QED BY <1>11, <2>1, <2>2 DEF HttpAnswer
<1>12. ASSUME LookupFails(r) PROVE Goal
  BY <1>6, <1>12 DEF LookupFails
<1>13. ASSUME CacheSet(r) PROVE Goal
  <2>1. cached[r] \in Entries
    BY <1>1, <1>13 DEF CacheSet, Held, TypeOK
  <2>. QED BY <1>5, <1>13, <2>1 DEF CacheSet
<1>14. ASSUME Cancel(r) PROVE Goal
  <2>1. pc'[r] = "idle" /\ reply'[r] = "none"
    BY <1>1, <1>14 DEF Cancel, TypeOK, ServedInv, AtWork
  <2>. QED BY <2>1 DEF Remembers, ToldNone
<1>15. CASE Tick
  <2>1. \A a, b \in Int : a <= b => Older(a) <= Older(b)
    BY TimeAssumption DEF Older
  <2>2. pc' = pc /\ reply' = reply
    BY <1>15 DEF Tick
  <2>3. \A e \in Entries : [e EXCEPT !.age = Older(e.age)] \in Entries
    BY TimeAssumption DEF Entries, Older
  <2>4. CASE pc[r] = "idle"
    <3>1. seen'[r] = seen[r] /\ ts'[r] = ts[r]
      BY <1>1, <1>15, <2>4 DEF Tick, InFlight
    <3>. QED BY <1>1, <2>2, <2>4, <3>1 DEF Remembers, ToldNone
  <2>5. CASE pc[r] # "idle" /\ seen[r] # None
    <3>1. seen'[r] = Older(seen[r])
      BY <1>15, <2>5 DEF Tick
    <3>2. ASSUME pc[r] = "get" PROVE cache' # None /\ cache'.age <= seen'[r]
      <4>1. cache \in Entries /\ cache.age <= seen[r] /\ cache.age \in Int
        BY <1>1, <2>5, <3>2 DEF Remembers, TypeOK, Entries
      <4>2. cache' = [cache EXCEPT !.age = Older(cache.age)]
        BY <1>1, <1>15, <2>5, <3>2 DEF Tick, Remembers
      <4>3. cache'.age = Older(cache.age)
        BY <4>1, <4>2 DEF Entries
      <4>4. cache' # None
        BY <2>3, <4>1, <4>2, BackendAssumption
      <4>. QED BY <1>4, <2>1, <2>5, <3>1, <4>1, <4>3, <4>4
    <3>3. ASSUME pc[r] \in {"dns", "http"} PROVE cached'[r] # None /\ cached'[r].age <= seen'[r]
      <4>1. cached[r] # None /\ cached[r] \in Entries /\ cached[r].age <= seen[r] /\ cached[r].age \in Int
        BY <1>1, <2>5, <3>3 DEF Remembers, TypeOK, Entries
      <4>2. cached'[r] = [cached[r] EXCEPT !.age = Older(cached[r].age)]
        BY <1>1, <1>15, <2>5, <4>1 DEF Tick
      <4>3. cached'[r].age = Older(cached[r].age)
        BY <4>1, <4>2 DEF Entries
      <4>4. cached'[r] # None
        BY <2>3, <4>1, <4>2, BackendAssumption
      <4>. QED BY <1>4, <2>1, <2>5, <3>1, <4>1, <4>3, <4>4
    <3>. QED BY <2>2, <2>5, <3>2, <3>3 DEF Remembers, ToldNone
  <2>6. CASE pc[r] # "idle" /\ seen[r] = None
    <3>1. seen'[r] = None
      BY <1>15, <2>6 DEF Tick
    <3>. QED BY <3>1 DEF Remembers, ToldNone
  <2>. QED BY <2>4, <2>5, <2>6
\* The steps of other tasks and of the surroundings
<1>16. ASSUME NEW t \in Tasks, t # r, ~Tick,
              \/ t \in Requests /\ (Start(t) \/ CacheGet(t))
              \/ t \in Processors /\ (Scan(t) \/ Take(t))
              \/ Resolve(t) \/ Cancel(t)
       PROVE  Goal
  <2>1. pc'[r] = pc[r] /\ seen'[r] = seen[r] /\ ts'[r] = ts[r] /\ reply'[r] = reply[r]
        /\ cached'[r] = cached[r]
    BY <1>1, <1>16 DEF Start, CacheGet, Scan, Take, Resolve, DnsAnswer, HttpAnswer,
       LookupFails, GiveUp, CacheSet, Cancel, Finish, TypeOK
  <2>2. Next
    BY <1>16 DEF Next
  <2>. QED BY <1>1, <1>16, <2>1, <2>2, OthersRemember
<1>17. ASSUME Evict \/ PublishBody \/ PublishId \/ CalmDown, ~Tick PROVE Goal
  <2>1. Next /\ UNCHANGED <<pc, cached, seen, ts, reply>>
    BY <1>17 DEF Next, Evict, PublishBody, PublishId, CalmDown
  <2>. QED BY <1>1, <1>17, <2>1, OthersRemember
<1>. QED
  <2>1. CASE Next /\ ~Tick
    <3>1. \/ \E t \in Tasks :
               \/ t \in Requests /\ (Start(t) \/ CacheGet(t))
               \/ t \in Processors /\ (Scan(t) \/ Take(t))
               \/ Resolve(t) \/ Cancel(t)
          \/ Evict \/ PublishBody \/ PublishId \/ CalmDown
      BY <2>1 DEF Next, FetchDies, Tasks
    <3>2. r \notin Processors
      BY TasksAssumption
    <3>. QED BY <2>1, <3>1, <3>2, <1>8, <1>9, <1>10, <1>11, <1>12, <1>13, <1>14, <1>16, <1>17
             DEF Resolve
  <2>. QED BY <2>1, <1>7, <1>15

\* With an SQL or Redis cache that does not fail, no number of requests and processors,
\* no failed lookup and no cancellation makes a domain that enforces look as if it had
\* no policy, unless what was cached has run out.
THEOREM NoDowngradeHolds ==
  ASSUME Backend \in {"sql", "redis"}, ~CacheMayFail PROVE Spec => []NoDowngrade
<1>. DEFINE Inv == AlwaysEnforces => DowngradeInv
<1>1. Init => Inv
  BY DEF Init, DowngradeInv, Remembers, ToldNone, Tasks
<1>2. TypeInv /\ ServedInv /\ Inv /\ [Next]_vars => Inv'
  <2> SUFFICES ASSUME TypeInv, ServedInv, Inv, [Next]_vars, AlwaysEnforces'
               PROVE  DowngradeInv'
    OBVIOUS
  <2>1. AlwaysEnforces
    BY DEF AlwaysEnforces, Valid
  <2>. QED BY <2>1, DowngradeStep
<1>3. Inv => NoDowngrade
  BY DEF AlwaysEnforces, DowngradeInv, ToldNone, NoDowngrade
<1>. QED BY <1>1, <1>2, <1>3, TypeInvHolds, ServedInvHolds, PTL DEF Spec
=============================================================================
