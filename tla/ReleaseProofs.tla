---------------------------- MODULE ReleaseProofs ----------------------------
(***************************************************************************)
(* How a Connection ends, once its handler has nothing more to read: what  *)
(* the liveness properties StopCloses and GoneClientReleased take for      *)
(* granted besides fairness.  Every step brings the end nearer, there is   *)
(* always a next one, and the queue has room for what the handler still    *)
(* puts - also when the sender dies, if it takes two entries at least.     *)
(***************************************************************************)
EXTENDS ConnectionProofs, FiniteSetTheorems

\* The handler will call finalize()
NothingToRead == bio = 0 /\ (bad = "bio" \/ (eof /\ inbox = 0 /\ bad = "none"))

\* What it puts into the queue until it is over: a request it waits with, the marker
PutsLeft ==
  CASE hpc = "put" -> 2
    [] hpc \in {"read", "parse", "finput"} -> 1
    [] OTHER -> 0

\* The handler is on the way out, with a sender or with enough room without one
Releasing == NothingToRead /\ (Alive \/ Len(queue) + PutsLeft <= QueueLimit)

HandlerSteps ==
  CASE hpc = "put" -> 4
    [] hpc \in {"read", "parse"} -> 3
    [] hpc = "finput" -> 2
    [] hpc = "finwait" -> 1
    [] OTHER -> 0

SenderSteps == CASE spc = "await" -> 2 [] spc = "drain" -> 1 [] OTHER -> 0

Running == {k \in Ids : status[k] = "running"}

Yet(event) == IF event THEN 0 ELSE 1

\* stop(), the loss of the connection and the end of the stream, which come once
EventsLeft == Yet(stopped) + Yet(Lost) + Yet(eof)

\* A queued future costs the sender three steps, and the put the handler one
StepsLeft ==
  4 * HandlerSteps + 3 * Len(queue) + SenderSteps + Cardinality(Running) + EventsLeft

\* Somebody has something to do: the handler; the sender; or the lookup it awaits,
\* whose queries have timeouts
CanGoOn ==
  \/ hpc \in {"read", "parse"}
  \/ hpc \in {"put", "finput"} /\ HasRoom
  \/ hpc = "finwait" /\ ~Alive
  \/ spc = "get" /\ queue # <<>>
  \/ spc = "await" /\ status[held] # "none"
  \/ spc = "drain"

-----------------------------------------------------------------------------
(* There is always a next step *)

\* A request that was parsed has a task
Started == \A k \in 1..created : status[k] # "none"

LEMMA StartedStep ==
  ASSUME TypeOK, Started, [Next]_vars
  PROVE  Started'
<1>1. created \in Nat /\ \A k \in 1..created : k \in Ids
  BY LimitsAssumption DEF TypeOK, Ids
<1>2. ASSUME created' = created, \A k \in Ids : status'[k] = "none" => status[k] = "none"
      PROVE  Started'
  BY <1>1, <1>2 DEF Started
<1>3. ASSUME NEW more, Die(more), created' = created PROVE Started'
  BY <1>2, <1>3 DEF Die
<1>4. CASE UNCHANGED <<status, created>>
  BY <1>2, <1>4
<1>5. CASE Parse
  <2>1. created' = created + 1 /\ status' = [status EXCEPT ![created + 1] = "running"]
    BY <1>5 DEF Parse
  <2>2. ASSUME NEW k \in 1..(created + 1) PROVE status'[k] # "none"
    <3>1. k \in Ids /\ (k # created + 1 => k \in 1..created)
      BY <1>1, <1>5, <2>1, LimitsAssumption DEF Parse, TypeOK, Ids
    <3>. QED BY <2>1, <3>1 DEF Started, TypeOK
  <2>. QED BY <2>1, <2>2 DEF Started
<1>6. ASSUME NEW k \in Ids, TaskEnds(k) PROVE Started'
  BY <1>2, <1>6 DEF TaskEnds, TypeOK
<1>7. CASE Write \/ AwaitRaises \/ DrainReturns
  BY <1>3, <1>4, <1>7 DEF Write, AwaitRaises, DrainReturns
<1>8. CASE ShutdownTimeout
  <2>1. created' = created
    BY <1>8 DEF ShutdownTimeout
  <2>. QED BY <1>3, <1>4, <1>8, <2>1 DEF ShutdownTimeout, CancelSender
<1>9. CASE Send \/ SendMalformed \/ ShutWrite \/ ConnectionLost \/ UNCHANGED vars
  BY <1>4, <1>9 DEF Send, SendMalformed, ShutWrite, ConnectionLost, vars
<1>10. CASE ReadChunk \/ AwaitData \/ PutResumes \/ Finalize \/ FinalPutResumes \/ HandlerEnds
  BY <1>4, <1>10 DEF ReadChunk, AwaitData, PutResumes, Finalize, FinalPutResumes, HandlerEnds
<1>11. CASE Get
  BY <1>4, <1>11 DEF Get
<1>. QED BY <1>5, <1>6, <1>7, <1>8, <1>9, <1>10, <1>11
         DEF Next, Handler, Others, Sender

\* A handler that has nothing more to read never waits with a sender that waits for
\* it, or for a sender that has gone, with no one left to wake either.
NeverStuck == Releasing /\ ~HandlerOver => CanGoOn

\* For every queue limit and number of requests, wherever the sender dies.
THEOREM NeverStuckHolds == Spec => []NeverStuck
<1>1. Session /\ Started => NeverStuck
  <2>. SUFFICES ASSUME Session, Started, Releasing, ~HandlerOver PROVE CanGoOn
    BY DEF NeverStuck
  <2>1. /\ TypeOK /\ Pipeline /\ Marker
        /\ hpc \in {"read", "parse", "put", "finput", "finwait"}
        /\ queue \in Seq(0..MaxRequests) /\ Len(queue) \in Nat
    BY LenProperties DEF Session, Inv, TypeOK, HandlerOver
  <2>2. CASE ~Alive
    <3>1. hpc \in {"put", "finput"} => HasRoom
      BY <2>1, <2>2, LimitsAssumption DEF Releasing, PutsLeft, HasRoom
    <3>. QED BY <2>1, <2>2, <3>1 DEF CanGoOn
  <2>3. CASE spc = "get"
    <3>1. CASE queue = <<>>
      <4>1. HasRoom
        BY <3>1, LimitsAssumption DEF HasRoom
      <4>2. hpc # "finwait"
        BY <2>1, <2>3, <3>1 DEF Marker, Alive
      <4>. QED BY <2>1, <4>1, <4>2 DEF CanGoOn
    <3>. QED BY <2>3, <3>1 DEF CanGoOn
  <2>4. CASE spc = "await"
    <3>1. held \in Ids /\ held <= created /\ created \in Nat
      BY <2>1, <2>4 DEF Pipeline, Alive, TypeOK
    <3>2. held \in 1..created
      BY <3>1, LimitsAssumption DEF Ids
    <3>. QED BY <2>4, <3>2 DEF Started, CanGoOn
  <2>. QED BY <2>2, <2>3, <2>4 DEF CanGoOn, Alive
<1>2. Init => Started
  BY DEF Init, Started
<1>3. Session /\ Started /\ [Next]_vars => Started'
  BY StartedStep DEF Session, Inv
<1>. QED BY <1>1, <1>2, <1>3, SessionHolds, PTL DEF Spec

-----------------------------------------------------------------------------
(* Every step brings the end nearer *)

LEMMA ReadingStaysOver ==
  ASSUME TypeOK, NothingToRead, [Next]_vars
  PROVE  NothingToRead'
<1>1. CASE UNCHANGED clientVars
  BY <1>1 DEF clientVars, NothingToRead
<1>2. CASE Send \/ SendMalformed \/ ShutWrite \/ ConnectionLost
  BY <1>2 DEF Send, SendMalformed, ShutWrite, ConnectionLost, NothingToRead
<1>3. CASE ReadChunk \/ Parse
  <2>1. bio = 0 /\ bad # "bio" /\ inbox = 0 /\ bad = "none" /\ ReadChunk
    BY <1>3 DEF ReadChunk, Parse, NothingToRead
  <2>. QED BY <2>1 DEF ReadChunk
<1>4. CASE UNCHANGED vars
  BY <1>1, <1>4 DEF vars, clientVars
<1>5. CASE AwaitData \/ PutResumes \/ Finalize \/ FinalPutResumes \/ HandlerEnds
  BY <1>1, <1>5 DEF AwaitData, PutResumes, Finalize, FinalPutResumes, HandlerEnds
<1>6. CASE Sender \/ ShutdownTimeout \/ \E k \in Ids : TaskEnds(k)
  BY <1>1, <1>6 DEF Sender, Get, Write, AwaitRaises, DrainReturns, ShutdownTimeout, TaskEnds
<1>. QED BY <1>2, <1>3, <1>4, <1>5, <1>6 DEF Next, Handler, Others

\* What the handler puts while its sender is gone, it had room for
LEMMA RoomStays ==
  ASSUME TypeOK, NothingToRead, [Next]_vars, ~Alive, Len(queue) + PutsLeft <= QueueLimit
  PROVE  ~Alive' /\ Len(queue') + PutsLeft' <= QueueLimit
<1>1. /\ Len(queue) \in Nat /\ PutsLeft \in 0..2 /\ queue \in Seq(0..MaxRequests)
      /\ QueueLimit \in Nat
  BY LimitsAssumption, LenProperties DEF TypeOK, PutsLeft
<1>2. ASSUME queue' = queue, hpc' = hpc, spc' = spc
      PROVE  ~Alive' /\ Len(queue') + PutsLeft' <= QueueLimit
  BY <1>2 DEF Alive, PutsLeft
<1>3. ASSUME NEW e \in 0..MaxRequests, queue' = Append(queue, e), spc' = spc, PutsLeft' = PutsLeft - 1
      PROVE  ~Alive' /\ Len(queue') + PutsLeft' <= QueueLimit
  <2>1. Len(queue') = Len(queue) + 1
    BY <1>1, <1>3, AppendProperties
  <2>. QED BY <1>1, <1>3, <2>1 DEF Alive
<1>4. CASE UNCHANGED vars \/ Send \/ SendMalformed \/ ShutWrite \/ ConnectionLost
           \/ \E k \in Ids : TaskEnds(k)
  BY <1>2, <1>4 DEF vars, Send, SendMalformed, ShutWrite, ConnectionLost, TaskEnds
<1>5. CASE Sender
  BY <1>5 DEF Sender, Get, Write, AwaitRaises, DrainReturns, Alive
<1>6. CASE ShutdownTimeout
  <2>1. spc' = spc /\ queue' = queue
    BY <1>6 DEF ShutdownTimeout, CancelSender
  <2>2. PutsLeft' <= PutsLeft /\ PutsLeft' \in 0..2
    BY <1>6 DEF ShutdownTimeout, PutsLeft
  <2>. QED BY <1>1, <2>1, <2>2 DEF Alive
<1>7. CASE ReadChunk \/ AwaitData \/ Parse
  BY <1>7 DEF ReadChunk, AwaitData, Parse, NothingToRead, TypeOK
<1>8. CASE PutResumes
  <2>1. PutsLeft = 2 /\ PutsLeft' = 1 /\ created \in 0..MaxRequests
    BY <1>8 DEF PutResumes, PutsLeft, TypeOK
  <2>. QED BY <1>3, <1>8, <2>1 DEF PutResumes
<1>9. CASE Finalize \/ FinalPutResumes
  <2>1. PutsLeft = 1 /\ spc' = spc
    BY <1>9 DEF Finalize, FinalPutResumes, PutsLeft
  <2>2. CASE queue' = Append(queue, End) /\ hpc' = "finwait"
    <3>1. PutsLeft' = 0 /\ End \in 0..MaxRequests
      BY <2>2, LimitsAssumption DEF PutsLeft, End
    <3>. QED BY <1>3, <2>1, <2>2, <3>1
  <2>3. CASE queue' = queue /\ hpc' = "finput"
    BY <1>1, <2>1, <2>3 DEF PutsLeft, Alive
  <2>. QED BY <1>9, <2>2, <2>3 DEF Finalize, FinalPutResumes
<1>10. CASE HandlerEnds
  <2>1. PutsLeft' = 0 /\ spc' = spc /\ queue' = queue
    BY <1>10 DEF HandlerEnds, PutsLeft
  <2>. QED BY <1>1, <2>1 DEF Alive
<1>. QED BY <1>4, <1>5, <1>6, <1>7, <1>8, <1>9, <1>10 DEF Next, Handler, Others

\* A sender that dies empties the queue
LEMMA DeathEmpties ==
  ASSUME Alive, [Next]_vars
  PROVE  Alive' \/ spc' = "ended" \/ (spc' = "died" /\ queue' = <<>>)
<1>1. CASE spc' = spc
  BY <1>1 DEF Alive
<1>2. CASE Sender
  BY <1>2 DEF Sender, Get, Write, AwaitRaises, DrainReturns, Die, Alive
<1>3. CASE ShutdownTimeout
  BY <1>1, <1>3 DEF ShutdownTimeout, CancelSender, Die
<1>4. CASE Handler \/ Send \/ SendMalformed \/ ShutWrite \/ ConnectionLost
           \/ UNCHANGED vars \/ \E k \in Ids : TaskEnds(k)
  BY <1>1, <1>4 DEF Handler, ReadChunk, AwaitData, Parse, PutResumes, Finalize, FinalPutResumes,
                    HandlerEnds, Send, SendMalformed, ShutWrite, ConnectionLost, TaskEnds, vars
<1>. QED BY <1>2, <1>3, <1>4 DEF Next, Others

LEMMA ReleasingStays ==
  ASSUME QueueLimit >= 2, Session, Releasing, [Next]_vars
  PROVE  Releasing'
<1>1. TypeOK /\ TypeOK' /\ Marker' /\ NothingToRead'
  BY TypeStep, MarkerStep, ReadingStaysOver DEF Session, Inv, Releasing
<1>2. CASE ~Alive
  BY <1>1, <1>2, RoomStays DEF Releasing
<1>3. CASE Alive
  <2>1. CASE spc' = "ended"
    <3>1. PutsLeft' = 0 /\ Len(queue') <= QueueLimit /\ Len(queue') \in Nat
      BY <1>1, <2>1, LenProperties DEF Marker, PutsLeft, TypeOK
    <3>. QED BY <1>1, <3>1 DEF Releasing
  <2>2. CASE queue' = <<>>
    <3>1. PutsLeft' \in 0..2 /\ Len(queue') = 0
      BY <2>2 DEF PutsLeft
    <3>2. Len(queue') + PutsLeft' <= QueueLimit
      BY <3>1, LimitsAssumption DEF PutsLeft
    <3>. QED BY <1>1, <3>2 DEF Releasing
  <2>. QED BY <1>1, <1>3, <2>1, <2>2, DeathEmpties DEF Releasing
<1>. QED BY <1>2, <1>3

LEMMA RunningFinite ==
  /\ IsFiniteSet(Running) /\ Cardinality(Running) \in Nat
  /\ IsFiniteSet(Running') /\ Cardinality(Running') \in Nat
<1>1. IsFiniteSet(Ids)
  <2>1. 1 \in Int /\ MaxRequests \in Int  BY LimitsAssumption
  <2>. QED BY <2>1, FS_Interval DEF Ids
<1>2. Running \in SUBSET Ids /\ Running' \in SUBSET Ids
  BY DEF Running
<1>3. IsFiniteSet(Running) /\ IsFiniteSet(Running')
  BY <1>1, <1>2, FS_Subset
<1>. QED BY <1>3, FS_CardinalityType

LEMMA RunningLess ==
  ASSUME \A k \in Ids : status'[k] = "running" => status[k] = "running"
  PROVE  Cardinality(Running') <= Cardinality(Running)
<1>1. Running' \in SUBSET Running
  BY DEF Running
<1>. QED BY <1>1, RunningFinite, FS_Subset

LEMMA OneRunningLess ==
  ASSUME TypeOK, NEW k \in Ids, TaskEnds(k)
  PROVE  Cardinality(Running') < Cardinality(Running)
<1>1. Running' = Running \ {k} /\ k \in Running
  BY DEF TaskEnds, Running, TypeOK
<1>2. Cardinality(Running') = Cardinality(Running) - 1
  BY <1>1, RunningFinite, FS_RemoveElement
<1>. QED BY <1>2, RunningFinite

LEMMA StepsLeftType == TypeOK => StepsLeft \in Nat
<1>. SUFFICES ASSUME TypeOK PROVE StepsLeft \in Nat
  OBVIOUS
<1>1. Len(queue) \in Nat
  BY LenProperties DEF TypeOK
<1>2. HandlerSteps \in Nat /\ SenderSteps \in Nat
  BY DEF HandlerSteps, SenderSteps
<1>3. EventsLeft \in Nat
  BY DEF EventsLeft, Yet
<1>. QED BY <1>1, <1>2, <1>3, RunningFinite DEF StepsLeft

LEMMA DieLess ==
  ASSUME TypeOK, NEW more, Die(more)
  PROVE  /\ SenderSteps' = 0 /\ Len(queue') = 0 /\ Lost' = Lost
         /\ Cardinality(Running') <= Cardinality(Running)
<1>1. \A k \in Ids : status'[k] = "running" => status[k] = "running"
  BY DEF Die
<1>. QED BY <1>1, RunningLess DEF Die, SenderSteps, CloseTransport, Lost

LEMMA StepsLess ==
  ASSUME TypeOK, NothingToRead, Next
  PROVE  StepsLeft' < StepsLeft
<1>1. /\ HandlerSteps \in 0..4 /\ HandlerSteps' \in 0..4
      /\ SenderSteps \in 0..2 /\ SenderSteps' \in 0..2
      /\ EventsLeft \in 0..3 /\ EventsLeft' \in 0..3
  BY DEF HandlerSteps, SenderSteps, EventsLeft, Yet
<1>2. Len(queue) \in Nat /\ Len(queue') \in Nat
  BY TypeStep, LenProperties DEF TypeOK
\* Before and after: what handler, queue, sender, lookups and events count
<1>3. PICK h \in 0..4, h1 \in 0..4, q \in Nat, q1 \in Nat, s \in 0..2, s1 \in 0..2,
           r \in Nat, r1 \in Nat, y \in 0..3, y1 \in 0..3 :
        /\ h = HandlerSteps /\ q = Len(queue) /\ s = SenderSteps
        /\ r = Cardinality(Running) /\ y = EventsLeft
        /\ h1 = HandlerSteps' /\ q1 = Len(queue') /\ s1 = SenderSteps'
        /\ r1 = Cardinality(Running') /\ y1 = EventsLeft'
  BY Zenon, <1>1, <1>2, RunningFinite
<1>. DEFINE Less == 4 * h1 + 3 * q1 + s1 + r1 + y1 < 4 * h + 3 * q + s + r + y
<1>. SUFFICES Less
  <2>1. /\ StepsLeft = 4 * h + 3 * q + s + r + y
        /\ StepsLeft' = 4 * h1 + 3 * q1 + s1 + r1 + y1
    BY Zenon, <1>3 DEF StepsLeft
  <2>. QED BY Zenon, <2>1
<1>4. ASSUME UNCHANGED <<status, stopped, conn, eof>> PROVE r1 = r /\ y1 = y
  <2>1. Running' = Running /\ EventsLeft' = EventsLeft
    BY <1>4 DEF Running, EventsLeft, Yet, Lost
  <2>. QED BY Zenon, <1>3, <2>1
<1>5. ASSUME spc' = spc PROVE s1 = s
  <2>1. SenderSteps' = SenderSteps
    BY <1>5 DEF SenderSteps
  <2>. QED BY Zenon, <1>3, <2>1
<1>6. ASSUME hpc' = hpc PROVE h1 = h
  <2>1. HandlerSteps' = HandlerSteps
    BY <1>6 DEF HandlerSteps
  <2>. QED BY Zenon, <1>3, <2>1
<1>7. ASSUME queue' = queue PROVE q1 = q
  BY Zenon, <1>3, <1>7
<1>8. CASE Send \/ SendMalformed \/ ReadChunk \/ AwaitData \/ Parse
  <2>1. ~ (Send \/ SendMalformed \/ AwaitData \/ Parse)
    BY DEF Send, SendMalformed, AwaitData, Parse, NothingToRead, TypeOK
  <2>2. ~ ReadChunk
    BY DEF ReadChunk, NothingToRead, TypeOK
  <2>. QED BY <1>8, <2>1, <2>2
<1>9. CASE ShutWrite \/ ConnectionLost
  <2>1. h1 = h /\ q1 = q /\ s1 = s
    BY Zenon, <1>3, <1>5, <1>6, <1>7, <1>9 DEF ShutWrite, ConnectionLost
  <2>2. Running' = Running
    BY <1>9 DEF ShutWrite, ConnectionLost, Running
  <2>3. r1 = r
    BY Zenon, <1>3, <2>2
  <2>4. y1 < y
    BY <1>3, <1>9 DEF ShutWrite, ConnectionLost, EventsLeft, Yet, Lost, TypeOK
  <2>. QED BY <2>1, <2>3, <2>4
\* A future or the marker goes into the queue
<1>10. ASSUME NEW e \in 0..MaxRequests, queue' = Append(queue, e), spc' = spc, h1 < h,
             UNCHANGED <<status, stopped, conn, eof>>
      PROVE  Less
  <2>1. Len(Append(queue, e)) = Len(queue) + 1
    BY AppendProperties DEF TypeOK
  <2>2. q1 = q + 1
    BY Zenon, <1>3, <1>10, <2>1
  <2>3. s1 = s /\ r1 = r /\ y1 = y
    BY Zenon, <1>3, <1>4, <1>5, <1>10
  <2>. QED BY <1>10, <2>2, <2>3
<1>11. CASE PutResumes
  <2>1. h1 < h /\ created \in 0..MaxRequests
    BY <1>3, <1>11 DEF PutResumes, HandlerSteps, TypeOK
  <2>. QED BY <1>10, <1>11, <2>1 DEF PutResumes, clientVars
<1>12. CASE Finalize \/ FinalPutResumes
  <2>1. h1 < h
    BY <1>3, <1>12 DEF Finalize, FinalPutResumes, HandlerSteps
  <2>2. spc' = spc /\ UNCHANGED <<status, stopped, conn, eof>>
    BY <1>12 DEF Finalize, FinalPutResumes, clientVars
  <2>3. CASE queue' = Append(queue, End)
    <3>1. End \in 0..MaxRequests
      BY LimitsAssumption DEF End
    <3>. QED BY <1>10, <2>1, <2>2, <2>3, <3>1
  <2>4. CASE queue' = queue
    <3>1. q1 = q /\ s1 = s /\ r1 = r /\ y1 = y
      BY Zenon, <1>3, <1>4, <1>5, <1>7, <2>2, <2>4
    <3>. QED BY <2>1, <3>1
  <2>. QED BY <1>12, <2>3, <2>4 DEF Finalize, FinalPutResumes
<1>13. CASE HandlerEnds
  <2>1. h1 < h
    BY <1>3, <1>13 DEF HandlerEnds, HandlerSteps
  <2>2. queue' = queue /\ spc' = spc /\ UNCHANGED <<status, stopped, conn, eof>>
    BY <1>13 DEF HandlerEnds, clientVars
  <2>3. q1 = q /\ s1 = s /\ r1 = r /\ y1 = y
    BY Zenon, <1>3, <1>4, <1>5, <1>7, <2>2
  <2>. QED BY <2>1, <2>3
<1>14. CASE Get
  <2>1. Len(Tail(queue)) = Len(queue) - 1 /\ queue' = Tail(queue) /\ hpc' = hpc
    BY <1>14, HeadTailProperties DEF Get, TypeOK
  <2>2. q1 = q - 1 /\ h1 = h
    BY Zenon, <1>3, <1>6, <2>1
  <2>3. s = 0
    BY <1>3, <1>14 DEF Get, SenderSteps
  <2>4. Running' = Running /\ EventsLeft' = EventsLeft
    BY <1>14 DEF Get, Running, EventsLeft, Yet, Lost, CloseTransport, clientVars
  <2>5. r1 = r /\ y1 = y
    BY Zenon, <1>3, <2>4
  <2>. QED BY <2>2, <2>3, <2>5
<1>15. ASSUME NEW more, Die(more), h1 <= h, y1 <= y, s1 < s \/ y1 < y
       PROVE  Less
  <2>1. SenderSteps' = 0 /\ Len(queue') = 0 /\ Cardinality(Running') <= Cardinality(Running)
    BY <1>15, DieLess
  <2>2. s1 = 0 /\ q1 = 0 /\ r1 <= r
    BY Zenon, <1>3, <2>1
  <2>. QED BY <1>15, <2>2
<1>16. ASSUME Lost' = Lost, eof' = eof, stopped' = stopped PROVE y1 = y
  <2>1. EventsLeft' = EventsLeft
    BY <1>16 DEF EventsLeft, Yet
  <2>. QED BY Zenon, <1>3, <2>1
<1>17. CASE Write \/ AwaitRaises \/ DrainReturns
  <2>1. hpc' = hpc /\ stopped' = stopped /\ eof' = eof
    BY <1>17 DEF Write, AwaitRaises, DrainReturns, clientVars
  <2>2. h1 = h
    BY <1>6, <2>1
  <2>3. s1 < s
    BY <1>3, <1>17 DEF Write, AwaitRaises, DrainReturns, Die, SenderSteps
  <2>4. CASE UNCHANGED <<conn, status, queue, strays>>
    <3>1. q1 = q /\ r1 = r /\ y1 = y
      BY Zenon, <1>3, <1>4, <1>7, <2>1, <2>4
    <3>. QED BY <2>2, <2>3, <3>1
  <2>5. CASE Die({})
    <3>1. Lost' = Lost
      BY <2>5, DieLess
    <3>2. y1 = y
      BY <1>16, <2>1, <3>1
    <3>. QED BY <1>15, <2>2, <2>3, <2>5, <3>2
  <2>. QED BY <1>17, <2>4, <2>5 DEF Write, AwaitRaises, DrainReturns
<1>18. CASE ShutdownTimeout
  <2>1. h1 <= h
    BY <1>3, <1>18 DEF ShutdownTimeout, HandlerSteps, TypeOK
  <2>2. ~stopped /\ stopped' /\ eof' = eof
    BY <1>18 DEF ShutdownTimeout, clientVars
  <2>3. ASSUME Lost' = Lost PROVE y1 < y
    BY <1>3, <2>2, <2>3 DEF EventsLeft, Yet
  <2>4. CASE UNCHANGED <<spc, queue, status, conn, strays>>
    <3>1. s1 = s /\ q1 = q
      BY Zenon, <1>3, <1>5, <1>7, <2>4
    <3>2. Running' = Running /\ Lost' = Lost
      BY <2>4 DEF Running, Lost
    <3>3. r1 = r
      BY Zenon, <1>3, <3>2
    <3>. QED BY <2>1, <2>3, <3>1, <3>2, <3>3
  <2>5. ASSUME NEW more, Die(more) PROVE Less
    <3>1. Lost' = Lost
      BY <2>5, DieLess
    <3>. QED BY <1>15, <2>1, <2>3, <2>5, <3>1
  <2>. QED BY <1>18, <2>4, <2>5 DEF ShutdownTimeout, CancelSender
<1>19. ASSUME NEW k \in Ids, TaskEnds(k) PROVE Less
  <2>1. hpc' = hpc /\ queue' = queue /\ spc' = spc /\ Lost' = Lost /\ eof' = eof /\ stopped' = stopped
    BY <1>19 DEF TaskEnds, Lost, clientVars
  <2>2. h1 = h /\ q1 = q /\ s1 = s /\ y1 = y
    BY Zenon, <1>3, <1>5, <1>6, <1>7, <1>16, <2>1
  <2>3. Cardinality(Running') < Cardinality(Running)
    BY <1>19, OneRunningLess
  <2>4. r1 < r
    BY Zenon, <1>3, <2>3
  <2>. QED BY <2>2, <2>4
<1>. HIDE DEF Less
<1>. QED BY <1>8, <1>9, <1>11, <1>12, <1>13, <1>14, <1>17, <1>18, <1>19
         DEF Next, Handler, Others, Sender

\* A handler that has nothing more to read has room for what it still puts, whether
\* its sender lives or dies, and comes a step nearer to its end with every step of
\* anyone: client, handler, sender, lookups, transport or stop().
ReleaseEnds == [][Releasing => Releasing' /\ StepsLeft' < StepsLeft]_vars

\* With NeverStuck this is what GoneClientReleased needs besides fairness.  It takes a
\* queue of two at least (the code's QUEUE_LIMIT is 128): when the sender dies, the
\* handler may wait with a request and has the end marker to come, and one entry
\* would leave it waiting with the marker for ever.
THEOREM ReleaseEndsHolds ==
  QueueLimit >= 2 => (Spec => [](StepsLeft \in Nat) /\ ReleaseEnds)
<1>. SUFFICES ASSUME QueueLimit >= 2
              PROVE  Spec => [](StepsLeft \in Nat) /\ ReleaseEnds
  OBVIOUS
<1>1. TypeOK => StepsLeft \in Nat
  BY StepsLeftType
<1>2. Session /\ [Next]_vars => [Releasing => Releasing' /\ StepsLeft' < StepsLeft]_vars
  BY ReleasingStays, StepsLess DEF Session, Inv, Releasing
<1>. QED BY <1>1, <1>2, SessionHolds, TypeCorrect, PTL DEF Spec, ReleaseEnds

-----------------------------------------------------------------------------
(* stop() *)

\* When stop() gave up on the handler, it is over or about to be; its sender is gone and
\* has begun to close the connection, unless its cancellation was swallowed.
AfterStop ==
  stopped =>
    /\ HandlerOver \/ (hpc = "finwait" /\ Releasing)
    /\ swallowed \/ (~Alive /\ conn # "open")

\* With NeverStuck and ReleaseEnds, what StopCloses needs besides fairness.
THEOREM AfterStopHolds == Spec => []AfterStop
<1> DEFINE Closed == ~Alive => conn # "open"
           Cancelled == stopped => /\ hpc \in {"finwait", "done", "cancelled"}
                                   /\ swallowed \/ ~Alive
<1>1. Session /\ Closed /\ Cancelled => AfterStop
  <2>1. ASSUME Session, hpc = "finwait" PROVE Releasing
    <3>1. NothingToRead /\ PutsLeft = 0 /\ Len(queue) <= QueueLimit /\ Len(queue) \in Nat
      BY <2>1, LenProperties DEF Session, Inv, Drained, NothingToRead, PutsLeft, TypeOK
    <3>. QED BY <3>1 DEF Releasing
  <2>. QED BY <2>1 DEF AfterStop, HandlerOver
<1>2. Init => Closed /\ Cancelled
  BY DEF Init, Alive
<1>3. ASSUME Closed, [Next]_vars PROVE Closed'
  <2>1. ASSUME UNCHANGED <<spc, conn>> PROVE Closed'
    BY <1>3, <2>1 DEF Alive
  <2>2. ASSUME NEW more, Die(more) PROVE Closed'
    BY <2>2 DEF Die, CloseTransport
  <2>3. CASE ConnectionLost
    BY <2>3 DEF ConnectionLost
  <2>4. CASE Get
    BY <2>4 DEF Get, CloseTransport, Alive
  <2>5. CASE Write \/ AwaitRaises \/ DrainReturns
    <3>1. CASE Die({})
      BY <2>2, <3>1
    <3>2. CASE spc' \in {"get", "drain"}
      BY <3>2 DEF Alive
    <3>. QED BY <2>5, <3>1, <3>2 DEF Write, AwaitRaises, DrainReturns
  <2>6. CASE ShutdownTimeout
    BY <2>1, <2>2, <2>6 DEF ShutdownTimeout, CancelSender
  <2>7. CASE Handler \/ Send \/ SendMalformed \/ ShutWrite
             \/ UNCHANGED vars \/ \E k \in Ids : TaskEnds(k)
    BY <2>1, <2>7 DEF Handler, ReadChunk, AwaitData, Parse, PutResumes, Finalize, FinalPutResumes,
                      HandlerEnds, Send, SendMalformed, ShutWrite, TaskEnds, vars
  <2>. QED BY <1>3, <2>3, <2>4, <2>5, <2>6, <2>7 DEF Next, Others, Sender
<1>4. ASSUME TypeOK, Cancelled, [Next]_vars PROVE Cancelled'
  <2>1. CASE ShutdownTimeout
    <3>1. hpc' \in {"finwait", "cancelled"}
      BY <2>1 DEF ShutdownTimeout
    <3>2. swallowed' \/ ~Alive'
      BY <2>1 DEF ShutdownTimeout, CancelSender, Die, Alive
    <3>. QED BY <3>1, <3>2
  <2>2. CASE Sender
    <3>1. UNCHANGED <<hpc, stopped, swallowed>> /\ (~Alive => FALSE)
      BY <2>2 DEF Sender, Get, Write, AwaitRaises, DrainReturns, Alive, clientVars
    <3>. QED BY <1>4, <3>1
  <2>3. CASE HandlerEnds
    BY <1>4, <2>3 DEF HandlerEnds, Alive
  <2>4. CASE ReadChunk \/ AwaitData \/ Parse \/ PutResumes \/ Finalize \/ FinalPutResumes
    <3>1. hpc \notin {"finwait", "done", "cancelled"} /\ stopped' = stopped
      BY <2>4 DEF ReadChunk, AwaitData, Parse, PutResumes, Finalize, FinalPutResumes
    <3>. QED BY <1>4, <3>1
  <2>5. CASE Send \/ SendMalformed \/ ShutWrite \/ ConnectionLost
             \/ UNCHANGED vars \/ \E k \in Ids : TaskEnds(k)
    BY <1>4, <2>5 DEF Send, SendMalformed, ShutWrite, ConnectionLost, TaskEnds, vars, Alive
  <2>. QED BY <1>4, <2>1, <2>2, <2>3, <2>4, <2>5 DEF Next, Handler, Others
<1>. HIDE DEF Closed, Cancelled
<1>5. Session => TypeOK
  BY DEF Session, Inv
<1>. QED BY <1>1, <1>2, <1>3, <1>4, <1>5, SessionHolds, PTL DEF Spec
=============================================================================
