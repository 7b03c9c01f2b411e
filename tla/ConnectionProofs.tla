-------------------------- MODULE ConnectionProofs --------------------------
(***************************************************************************)
(* Proofs about Connection for every QueueLimit and any number of          *)
(* requests, with or without lost cancellations.                           *)
(*                                                                         *)
(* Pipeline says that what was answered, what the sender holds, what is    *)
(* queued and what the handler is about to put, laid end to end, are the   *)
(* requests 1, 2, ... created, as long as the sender lives.                *)
(***************************************************************************)
EXTENDS Connection, SequenceTheorems, TLAPS

\* Requests the sender has taken from the queue
Taken == IF spc = "await" THEN Len(out) + 1 ELSE Len(out)

Pipeline ==
  /\ \A i \in DOMAIN out : out[i] = i
  /\ Alive =>
       /\ spc = "await" => held = Len(out) + 1 /\ held <= created
       /\ \A i \in DOMAIN queue :
            \/ queue[i] = Taken + i /\ queue[i] <= created
            \/ queue[i] = End /\ i = Len(queue) /\ hpc = "finwait"
       /\ hpc \in {"read", "parse", "finput"} => Taken + Len(queue) = created
       /\ hpc = "put" => Taken + Len(queue) + 1 = created

Inv == TypeOK /\ Pipeline

\* The types of what Die assigns.
LEMMA DieType ==
  ASSUME TypeOK, NEW more, Die(more)
  PROVE  /\ spc' = "died" /\ queue' = <<>> /\ queue' \in Seq(0..MaxRequests)
         /\ Len(queue') = 0
         /\ status' \in [Ids -> {"none", "running", "replied", "failed", "cancelled"}]
         /\ conn' \in {"open", "closing", "closed", "reset"} /\ strays' \subseteq Ids
BY DEF Die, MayRunOn, CloseTransport, TypeOK

LEMMA TypeInit == Init => TypeOK
<1> SUFFICES ASSUME Init PROVE TypeOK
  OBVIOUS
<1>1. 0 \in 0..MaxRequests /\ Len(queue) = 0 /\ queue \in Seq(0..MaxRequests)
      /\ out \in Seq(Ids)
  BY LimitsAssumption DEF Init
<1>2. status \in [Ids -> {"none", "running", "replied", "failed", "cancelled"}]
  BY DEF Init
<1>3. created + bio + inbox <= MaxRequests /\ Len(queue) <= QueueLimit
  BY <1>1, LimitsAssumption DEF Init
<1>. QED BY <1>1, <1>2, <1>3 DEF Init, TypeOK

\* The actions that leave the queue, its sender and the tasks alone.
LEMMA TypeQuiet ==
  ASSUME TypeOK, \/ Send \/ SendMalformed \/ ShutWrite \/ ConnectionLost
                 \/ ReadChunk \/ AwaitData \/ HandlerEnds \/ UNCHANGED vars
  PROVE  TypeOK'
<1>. USE LimitsAssumption DEF TypeOK
<1>1. CASE Send
  BY <1>1 DEF Send
<1>2. CASE SendMalformed
  BY <1>2 DEF SendMalformed
<1>3. CASE ShutWrite
  BY <1>3 DEF ShutWrite
<1>4. CASE ConnectionLost
  BY <1>4 DEF ConnectionLost
<1>5. CASE ReadChunk
  BY <1>5 DEF ReadChunk
<1>6. CASE AwaitData
  BY <1>6 DEF AwaitData, clientVars
<1>7. CASE HandlerEnds
  BY <1>7 DEF HandlerEnds, clientVars
<1>8. CASE UNCHANGED vars
  BY <1>8 DEF vars
<1>. QED BY <1>1, <1>2, <1>3, <1>4, <1>5, <1>6, <1>7, <1>8

LEMMA TypeStep == TypeOK /\ [Next]_vars => TypeOK'
<1> SUFFICES ASSUME TypeOK, [Next]_vars PROVE TypeOK'
  OBVIOUS
<1>. USE LimitsAssumption
<1>1. ASSUME NEW e \in 0..MaxRequests, HasRoom, queue' = Append(queue, e)
      PROVE  queue' \in Seq(0..MaxRequests) /\ Len(queue') <= QueueLimit
  BY <1>1, AppendProperties DEF HasRoom, TypeOK
<1>2. CASE Parse
  <2>1. created + 1 \in Ids /\ created + 1 \in 0..MaxRequests
    BY <1>2 DEF Parse, TypeOK, Ids
  <2>2. status' \in [Ids -> {"none", "running", "replied", "failed", "cancelled"}]
    BY <1>2 DEF Parse, TypeOK
  <2>3. queue' \in Seq(0..MaxRequests) /\ Len(queue') <= QueueLimit
    BY <1>2, <1>1, <2>1 DEF Parse, TypeOK
  <2>. QED BY <1>2, <2>1, <2>2, <2>3 DEF Parse, TypeOK
<1>3. CASE PutResumes
  <2>1. queue' \in Seq(0..MaxRequests) /\ Len(queue') <= QueueLimit
    BY <1>3, <1>1 DEF PutResumes, TypeOK
  <2>. QED BY <1>3, <2>1 DEF PutResumes, clientVars, TypeOK
<1>4. CASE Finalize \/ FinalPutResumes
  <2>1. queue' \in Seq(0..MaxRequests) /\ Len(queue') <= QueueLimit
    BY <1>4, <1>1 DEF Finalize, FinalPutResumes, TypeOK, End
  <2>. QED BY <1>4, <2>1 DEF Finalize, FinalPutResumes, clientVars, TypeOK
<1>5. CASE Get
  <2>1. /\ Head(queue) \in 0..MaxRequests
        /\ Tail(queue) \in Seq(0..MaxRequests) /\ Len(Tail(queue)) = Len(queue) - 1
        /\ Len(queue) \in Nat
    BY <1>5, HeadTailProperties, LenProperties DEF Get, TypeOK
  <2>. QED BY <1>5, <2>1 DEF Get, CloseTransport, clientVars, TypeOK, Ids, End
<1>6. CASE Write
  <2>1. held # 0 => Append(out, held) \in Seq(Ids)
    BY AppendProperties DEF TypeOK, Ids
  <2>2. held \in Ids
    BY <1>6 DEF Write, TypeOK, Ids
  <2>3. CASE Lost
    BY <1>6, <2>1, <2>2, <2>3, DieType DEF Write, clientVars, TypeOK
  <2>4. CASE ~Lost
    <3>1. out' \in Seq(Ids) /\ spc' = "drain"
      BY <1>6, <2>1, <2>2, <2>4 DEF Write, Ids
    <3>2. /\ UNCHANGED <<inbox, bio, bad, eof, conn, hpc, created, status, queue, held>>
          /\ UNCHANGED <<stopped, swallowed, strays>>
      BY <1>6, <2>4 DEF Write, clientVars
    <3>. QED BY <3>1, <3>2 DEF TypeOK
  <2>. QED BY <2>3, <2>4
<1>7. CASE AwaitRaises
  BY <1>7, DieType DEF AwaitRaises, clientVars, TypeOK
<1>8. CASE DrainReturns
  BY <1>8, DieType DEF DrainReturns, clientVars, TypeOK
<1>9. CASE ShutdownTimeout
  <2>1. CASE UNCHANGED <<spc, queue, status, conn, strays>>
    BY <1>9, <2>1 DEF ShutdownTimeout, CancelSender, clientVars, TypeOK
  <2>2. CASE Die(IF spc = "await" THEN {held} ELSE {}) /\ UNCHANGED swallowed
    BY <1>9, <2>2, DieType DEF ShutdownTimeout, clientVars, TypeOK
  <2>. QED BY <1>9, <2>1, <2>2 DEF ShutdownTimeout, CancelSender
<1>10. ASSUME NEW k \in Ids, TaskEnds(k) PROVE TypeOK'
  BY <1>10 DEF TaskEnds, clientVars, TypeOK
<1>. QED BY <1>2, <1>3, <1>4, <1>5, <1>6, <1>7, <1>8, <1>9, <1>10, TypeQuiet
          DEF Next, Handler, Others, Sender

\* Every variable keeps its type; in particular the queue never grows past its limit.
THEOREM TypeCorrect == Spec => []TypeOK
BY TypeInit, TypeStep, PTL DEF Spec

-----------------------------------------------------------------------------
(* RepliesInOrder *)

LEMMA PipelineInit == Init => Pipeline
<1> SUFFICES ASSUME Init PROVE Pipeline
  OBVIOUS
<1>1. DOMAIN out = {} /\ DOMAIN queue = {} /\ Len(queue) = 0 /\ Len(out) = 0
  BY DEF Init
<1>. QED BY <1>1 DEF Init, Pipeline, Alive, Taken

\* A future is queued right behind the pipeline.
LEMMA PipelinePut ==
  ASSUME Inv, Alive, UNCHANGED <<spc, held, out>>, created' \in Nat, created' >= created,
         queue' = Append(queue, created'), Taken + Len(queue) + 1 = created',
         hpc # "finwait", hpc' \in {"read", "parse"}
  PROVE  Pipeline'
<1>1. Taken' = Taken /\ Alive' /\ Taken \in Nat
  BY DEF Taken, Alive, Inv, TypeOK
<1>2. /\ Len(queue') = Len(queue) + 1 /\ DOMAIN queue' = 1..(Len(queue) + 1)
      /\ \A i \in 1..Len(queue) : queue'[i] = queue[i]
      /\ queue'[Len(queue) + 1] = created'
      /\ Len(queue) \in Nat /\ DOMAIN queue = 1..Len(queue)
  BY DEF Inv, TypeOK
<1>3. \A i \in DOMAIN queue : queue[i] = Taken + i /\ queue[i] <= created
  BY DEF Inv, Pipeline
<1>4. \A i \in DOMAIN queue' : queue'[i] = Taken' + i /\ queue'[i] <= created'
  <2>1. TAKE i \in DOMAIN queue'
  <2>2. CASE i \in 1..Len(queue)
    BY <1>1, <1>2, <1>3, <2>2 DEF Inv, TypeOK
  <2>3. CASE i = Len(queue) + 1
    BY <1>1, <1>2, <2>3
  <2>. QED BY <1>2, <2>2, <2>3
<1>5. Taken' + Len(queue') = created'
  BY <1>1, <1>2
<1>. QED BY <1>1, <1>4, <1>5 DEF Inv, TypeOK, Pipeline

\* The marker is queued right behind the pipeline.
LEMMA PipelineEnd ==
  ASSUME Inv, Alive, UNCHANGED <<spc, held, out, created>>, queue' = Append(queue, End),
         hpc # "finwait", hpc' = "finwait"
  PROVE  Pipeline'
<1>1. Taken' = Taken /\ Alive' /\ Taken \in Nat
  BY DEF Taken, Alive, Inv, TypeOK
<1>2. /\ Len(queue') = Len(queue) + 1 /\ DOMAIN queue' = 1..(Len(queue) + 1)
      /\ \A i \in 1..Len(queue) : queue'[i] = queue[i]
      /\ queue'[Len(queue) + 1] = End
      /\ Len(queue) \in Nat /\ DOMAIN queue = 1..Len(queue)
  BY DEF Inv, TypeOK, End
<1>3. \A i \in DOMAIN queue' : \/ queue'[i] = Taken' + i /\ queue'[i] <= created'
                               \/ queue'[i] = End /\ i = Len(queue') /\ hpc' = "finwait"
  BY <1>1, <1>2 DEF Inv, Pipeline
<1>. QED BY <1>1, <1>3 DEF Inv, TypeOK, Pipeline

\* Nothing is promised of a dead sender but the replies it wrote.
LEMMA PipelineDead ==
  ASSUME \A i \in DOMAIN out' : out'[i] = i, ~Alive' PROVE Pipeline'
BY DEF Pipeline

\* The handler or a task moves and the pipeline stays as it is.
LEMMA PipelineStill ==
  ASSUME Inv, UNCHANGED <<spc, held, out, created, queue>>,
         hpc' = hpc \/ hpc' \in {"cancelled", "done"} \/ {hpc, hpc'} \subseteq {"read", "parse", "finput"},
         hpc = "finwait" => hpc' = hpc \/ ~Alive
  PROVE  Pipeline'
BY DEF Inv, Pipeline, Taken, Alive

LEMMA PipelineStep == Inv /\ [Next]_vars => Pipeline'
<1> SUFFICES ASSUME Inv, [Next]_vars PROVE Pipeline'
  OBVIOUS
<1>1. (\A i \in DOMAIN out : out[i] = i) /\ out \in Seq(Ids) /\ Len(out) \in Nat
      /\ queue \in Seq(0..MaxRequests) /\ Len(queue) \in Nat /\ created \in Nat
  BY DEF Inv, Pipeline, TypeOK
<1>2. CASE UNCHANGED vars
  BY <1>2, PipelineStill DEF vars
<1>3. CASE Send \/ SendMalformed \/ ShutWrite \/ ConnectionLost
  BY <1>3, PipelineStill DEF Send, SendMalformed, ShutWrite, ConnectionLost
<1>4. CASE ReadChunk \/ AwaitData
  BY <1>4, PipelineStill DEF ReadChunk, AwaitData
<1>5. CASE Parse
  <2>1. CASE ~Alive
    BY <1>5, <1>1, <2>1, PipelineDead DEF Parse, Alive
  <2>2. CASE Alive /\ HasRoom
    BY <1>5, <1>1, <2>2, PipelinePut DEF Parse, Inv, Pipeline
  <2>3. CASE Alive /\ ~HasRoom
    <3>1. /\ Taken' = Taken /\ queue' = queue /\ Alive' /\ hpc' = "put"
          /\ Taken' + Len(queue') + 1 = created' /\ created' = created + 1
          /\ out' = out /\ held' = held /\ spc' = spc
      BY <1>5, <2>3 DEF Parse, Taken, Alive, Inv, Pipeline
    <3>2. \A i \in DOMAIN queue' : queue'[i] = Taken' + i /\ queue'[i] <= created'
      <4>1. \A i \in DOMAIN queue : queue[i] = Taken + i /\ queue[i] <= created
        BY <1>5, <2>3 DEF Inv, Pipeline, Parse
      <4>2. Taken \in Nat /\ DOMAIN queue \subseteq Nat
        BY <1>1 DEF Taken
      <4>. QED BY <1>1, <3>1, <4>1, <4>2
    <3>3. spc' = "await" => held' = Len(out') + 1 /\ held' <= created'
      BY <1>1, <2>3, <3>1 DEF Inv, Pipeline, TypeOK
    <3>. QED BY <1>1, <3>1, <3>2, <3>3 DEF Pipeline
  <2>. QED BY <2>1, <2>2, <2>3
<1>6. CASE PutResumes
  <2>1. CASE ~Alive
    BY <1>6, <1>1, <2>1, PipelineDead DEF PutResumes, Alive
  <2>2. CASE Alive
    BY <1>6, <1>1, <2>2, PipelinePut DEF PutResumes, Inv, Pipeline
  <2>. QED BY <2>1, <2>2
<1>7. CASE Finalize
  <2>1. CASE ~Alive
    BY <1>7, <1>1, <2>1, PipelineDead DEF Finalize, Alive
  <2>2. CASE Alive /\ HasRoom
    BY <1>7, <2>2, PipelineEnd DEF Finalize
  <2>3. CASE ~HasRoom
    BY <1>7, <2>3, PipelineStill DEF Finalize
  <2>. QED BY <2>1, <2>2, <2>3
<1>8. CASE FinalPutResumes
  <2>1. CASE ~Alive
    BY <1>8, <1>1, <2>1, PipelineDead DEF FinalPutResumes, Alive
  <2>2. CASE Alive
    BY <1>8, <2>2, PipelineEnd DEF FinalPutResumes
  <2>. QED BY <2>1, <2>2
<1>9. CASE HandlerEnds
  BY <1>9, PipelineStill DEF HandlerEnds
<1>10. ASSUME NEW k \in Ids, TaskEnds(k) PROVE Pipeline'
  BY <1>10, PipelineStill DEF TaskEnds
<1>11. CASE Get
  <2>1. CASE Head(queue) = End
    BY <1>11, <1>1, <2>1, PipelineDead DEF Get, Alive
  <2>2. CASE Head(queue) # End
    <3>1. /\ Head(queue) = queue[1] /\ 1 \in DOMAIN queue /\ Len(queue') = Len(queue) - 1
          /\ DOMAIN queue' = 1..(Len(queue) - 1) /\ DOMAIN queue = 1..Len(queue)
          /\ \A i \in 1..(Len(queue) - 1) : queue'[i] = queue[i + 1]
      BY <1>1, <1>11 DEF Get
    <3>2. Alive /\ Taken = Len(out) /\ spc' = "await" /\ Alive' /\ held' = queue[1]
          /\ out' = out /\ created' = created /\ hpc' = hpc
      BY <1>11, <2>2, <3>1 DEF Get, Alive, Taken
    <3>3. held' = Len(out') + 1 /\ held' <= created' /\ Taken' = Len(out) + 1
      BY <1>1, <2>2, <3>1, <3>2 DEF Inv, Pipeline, Taken
    <3>4. ASSUME NEW i \in DOMAIN queue'
          PROVE  \/ queue'[i] = Taken' + i /\ queue'[i] <= created'
                 \/ queue'[i] = End /\ i = Len(queue') /\ hpc' = "finwait"
      <4>1. i \in 1..(Len(queue) - 1) /\ i + 1 \in DOMAIN queue
        BY <1>1, <3>1
      <4>2. \/ queue[i + 1] = Taken + (i + 1) /\ queue[i + 1] <= created
            \/ queue[i + 1] = End /\ i + 1 = Len(queue) /\ hpc = "finwait"
        BY <3>2, <4>1 DEF Inv, Pipeline
      <4>3. CASE queue[i + 1] = Taken + (i + 1) /\ queue[i + 1] <= created
        <5>1. queue'[i] = queue[i + 1] /\ created' = created /\ i \in Nat
          BY <3>1, <3>2, <4>1
        <5>2. Taken \in Nat /\ Taken' = Taken + 1
          BY <1>1, <3>2, <3>3
        <5>3. Taken + (i + 1) = Taken' + i
          BY <5>1, <5>2
        <5>. QED BY <4>3, <5>1, <5>3
      <4>4. CASE queue[i + 1] = End /\ i + 1 = Len(queue) /\ hpc = "finwait"
        BY <1>1, <3>1, <3>2, <4>1, <4>4
      <4>. QED BY <4>2, <4>3, <4>4
    <3>5. Taken' + Len(queue') = Taken + Len(queue)
      BY <1>1, <3>1, <3>2, <3>3
    <3>. QED BY <1>1, <3>2, <3>3, <3>4, <3>5 DEF Inv, Pipeline
  <2>. QED BY <2>1, <2>2
<1>12. CASE Write
  <2>1. Alive /\ held = Len(out) + 1 /\ held <= created /\ Taken = Len(out) + 1
    BY <1>12 DEF Write, Alive, Inv, Pipeline, Taken
  <2>2. out' = Append(out, Len(out) + 1) /\ held \in Ids
    BY <1>12, <2>1 DEF Write, Inv, TypeOK
  <2>3. Len(out') = Len(out) + 1 /\ \A i \in DOMAIN out' : out'[i] = i
    BY <1>1, <2>1, <2>2, AppendProperties
  <2>4. CASE Lost
    BY <1>12, <2>3, <2>4, PipelineDead DEF Write, Die, Alive
  <2>5. CASE ~Lost
    <3>1. spc' = "drain" /\ queue' = queue /\ hpc' = hpc /\ created' = created /\ Taken' = Taken
      BY <1>12, <2>1, <2>3, <2>5 DEF Write, Taken
    <3>. QED BY <2>1, <2>3, <3>1 DEF Inv, Pipeline
  <2>. QED BY <2>4, <2>5
<1>13. CASE AwaitRaises
  BY <1>13, <1>1, PipelineDead DEF AwaitRaises, Die, Alive
<1>14. CASE DrainReturns
  <2>1. CASE Die({})
    BY <1>14, <1>1, <2>1, PipelineDead DEF DrainReturns, Die, Alive
  <2>2. CASE spc' = "get" /\ UNCHANGED <<conn, status, queue, strays>>
    <3>1. Taken' = Taken /\ Alive /\ UNCHANGED <<out, queue, created, hpc>>
      BY <1>14, <2>2 DEF DrainReturns, Taken, Alive
    <3>. QED BY <2>2, <3>1 DEF Inv, Pipeline
  <2>. QED BY <1>14, <2>1, <2>2 DEF DrainReturns
<1>15. CASE ShutdownTimeout
  <2>1. CASE ~Alive
    BY <1>15, <1>1, <2>1, PipelineDead DEF ShutdownTimeout, CancelSender, Alive
  <2>2. CASE spc' = "died"
    BY <1>15, <1>1, <2>2, PipelineDead DEF ShutdownTimeout, Alive
  <2>3. CASE UNCHANGED <<spc, queue, status, conn, strays>>
    BY <1>15, <2>3, PipelineStill DEF ShutdownTimeout
  <2>. QED BY <1>15, <2>1, <2>2, <2>3 DEF ShutdownTimeout, CancelSender, Die
<1>. QED BY <1>2, <1>3, <1>4, <1>5, <1>6, <1>7, <1>8, <1>9, <1>10, <1>11, <1>12, <1>13,
            <1>14, <1>15 DEF Next, Handler, Others, Sender

LEMMA InvHolds == Spec => []Inv
<1>1. Init => Inv
  BY TypeInit, PipelineInit DEF Inv
<1>2. Inv /\ [Next]_vars => Inv'
  BY TypeStep, PipelineStep DEF Inv
<1>. QED BY <1>1, <1>2, PTL DEF Spec

\* Replies go out one per request and in the order of the requests, for every
\* queue limit, any order in which the tasks finish, and any error or stop.
THEOREM RepliesInOrderHolds == Spec => []RepliesInOrder
<1>1. Inv => RepliesInOrder
  BY DEF Inv, Pipeline, RepliesInOrder
<1>. QED BY <1>1, InvHolds, PTL

-----------------------------------------------------------------------------
(* PromiseKept *)

\* A step asks, replies, closes, or is none of the client's business.
LEMMA PromiseStep ==
  ASSUME Inv, [Next]_vars
  PROVE  Promise!Next \/ UNCHANGED <<created, out, Alive>>
<1>1. /\ out \in Seq(Ids) /\ Len(out) \in Nat /\ created \in Nat /\ Alive \in BOOLEAN
      /\ Alive' \in BOOLEAN
  BY DEF Inv, TypeOK, Alive
<1>2. CASE Parse
  BY <1>2 DEF Parse, Promise!Next, Promise!Ask, Alive
<1>3. CASE Write
  <2>1. Alive /\ held = Len(out) + 1 /\ held <= created
    BY <1>3 DEF Write, Alive, Inv, Pipeline
  <2>2. out' = Append(out, Len(out) + 1) /\ created' = created
    BY <1>3, <2>1 DEF Write
  <2>3. Promise!Reply
    BY <1>1, <2>1, <2>2 DEF Promise!Reply
  <2>. QED BY <2>3 DEF Promise!Next
<1>4. ASSUME UNCHANGED <<created, out>>, Alive' => Alive
      PROVE  Promise!Next \/ UNCHANGED <<created, out, Alive>>
  <2>1. CASE Alive /\ ~Alive'
    BY <1>4, <2>1 DEF Promise!Next, Promise!Close
  <2>2. CASE Alive' = Alive
    BY <1>4, <2>2
  <2>. QED BY <1>1, <1>4, <2>1, <2>2
<1>5. CASE UNCHANGED vars \/ ReadChunk \/ AwaitData \/ PutResumes \/ Finalize \/ FinalPutResumes
           \/ HandlerEnds
  BY <1>4, <1>5 DEF vars, ReadChunk, AwaitData, PutResumes, Finalize, FinalPutResumes,
                    HandlerEnds, Alive
<1>6. CASE Send \/ SendMalformed \/ ShutWrite \/ ConnectionLost \/ \E k \in Ids : TaskEnds(k)
  BY <1>4, <1>6 DEF Send, SendMalformed, ShutWrite, ConnectionLost, TaskEnds, Alive
<1>7. CASE Get \/ AwaitRaises \/ DrainReturns
  BY <1>4, <1>7 DEF Get, AwaitRaises, DrainReturns, Die, Alive
<1>8. CASE ShutdownTimeout
  BY <1>4, <1>8 DEF ShutdownTimeout, CancelSender, Die, Alive
<1>. QED BY <1>2, <1>3, <1>5, <1>6, <1>7, <1>8 DEF Next, Handler, Others, Sender

\* The connection implements OrderedReplies: a reply only ever goes to the oldest
\* request not yet answered, and nothing is sent once the sender is over.
THEOREM PromiseHolds == Spec => PromiseKept
<1>1. Init => Promise!Init
  BY DEF Init, Promise!Init, Alive
<1>2. Inv /\ [Next]_vars => [Promise!Next]_(Promise!vars)
  BY PromiseStep DEF Promise!vars
<1>. QED BY <1>1, <1>2, InvHolds, PTL DEF Spec, PromiseKept, Promise!Spec

-----------------------------------------------------------------------------
(* NoForgottenLookup *)

\* Where task k is reached from.
Reach(k) ==
  \/ InQueue(k)
  \/ spc = "await" /\ held = k
  \/ hpc \in {"put", "cancelled"} /\ k = created
  \/ k \in strays

LEMMA AppendReaches ==
  ASSUME TypeOK, NEW e \in 0..MaxRequests, queue' = Append(queue, e), NEW k \in Ids,
         InQueue(k) \/ k = e
  PROVE  InQueue(k)'
<1>1. /\ DOMAIN queue = 1..Len(queue) /\ DOMAIN queue' = 1..(Len(queue) + 1)
      /\ \A i \in 1..Len(queue) : queue'[i] = queue[i]
      /\ queue'[Len(queue) + 1] = e /\ Len(queue) \in Nat
  BY DEF TypeOK
<1>2. CASE k = e
  <2>1. Len(queue) + 1 \in DOMAIN queue'
    BY <1>1
  <2>. QED BY <1>1, <1>2, <2>1 DEF InQueue
<1>3. CASE InQueue(k)
  <2>1. PICK i \in DOMAIN queue : queue[i] = k
    BY <1>3 DEF InQueue
  <2>2. i \in DOMAIN queue' /\ queue'[i] = k
    BY <1>1, <2>1
  <2>. QED BY <2>2 DEF InQueue
<1>. QED BY <1>2, <1>3

\* When the sender dies, what it drops is no longer running, or astray.
LEMMA DieReaches ==
  ASSUME NEW more, Die(more), NEW k \in Ids, Reach(k), status'[k] = "running",
         spc = "await" => status[held] # "running" \/ held \in more,
         created' = created, hpc \in {"put", "cancelled"} => hpc' \in {"put", "cancelled"}
  PROVE  Reach(k)'
<1>1. PICK astray \in SUBSET MayRunOn :
        /\ strays' = strays \cup astray
        /\ status' = [j \in Ids |-> IF status[j] = "running" /\ j \notin astray
                                       /\ (InQueue(j) \/ j \in more)
                                   THEN "cancelled" ELSE status[j]]
  BY DEF Die
<1>2. status[k] = "running" /\ (k \in astray \/ (~InQueue(k) /\ k \notin more))
  BY <1>1
<1>. QED BY <1>1, <1>2 DEF Reach

LEMMA ReachStep ==
  ASSUME TypeOK, NoForgottenLookup, [Next]_vars, NEW k \in Ids, status'[k] = "running"
  PROVE  Reach(k)'
<1>1. status[k] = "running" => Reach(k)
  BY DEF NoForgottenLookup, Reach
<1>2. ASSUME UNCHANGED <<queue, spc, held, created, strays>>, status[k] = "running",
             hpc \in {"put", "cancelled"} => hpc' \in {"put", "cancelled"}
      PROVE  Reach(k)'
  BY <1>1, <1>2 DEF Reach, InQueue
<1>3. CASE UNCHANGED vars \/ Send \/ SendMalformed \/ ShutWrite \/ ConnectionLost
  BY <1>2, <1>3 DEF vars, Send, SendMalformed, ShutWrite, ConnectionLost
<1>4. CASE ReadChunk \/ AwaitData \/ HandlerEnds
  BY <1>2, <1>4 DEF ReadChunk, AwaitData, HandlerEnds
<1>5. ASSUME NEW j \in Ids, TaskEnds(j) PROVE Reach(k)'
  <2>1. status[k] = "running"
    BY <1>5 DEF TaskEnds, TypeOK
  <2>. QED BY <1>2, <1>5, <2>1 DEF TaskEnds
<1>6. CASE Parse
  <2>1. created + 1 \in Ids /\ created + 1 \in 0..MaxRequests
    BY <1>6, LimitsAssumption DEF Parse, TypeOK, Ids
  <2>2. k = created + 1 \/ status[k] = "running"
    BY <1>6, <2>1 DEF Parse, TypeOK
  <2>3. status[k] = "running" => InQueue(k) \/ (spc = "await" /\ held = k) \/ k \in strays
    BY <1>1, <1>6 DEF Reach, Parse
  <2>4. CASE HasRoom
    BY <1>6, <2>1, <2>2, <2>3, <2>4, AppendReaches DEF Parse, Reach
  <2>5. CASE ~HasRoom
    BY <1>6, <2>2, <2>3, <2>5 DEF Parse, Reach, InQueue
  <2>. QED BY <2>4, <2>5
<1>7. CASE PutResumes
  <2>1. created \in 0..MaxRequests /\ status[k] = "running"
    BY <1>7 DEF PutResumes, TypeOK
  <2>2. InQueue(k) \/ k = created \/ (spc = "await" /\ held = k) \/ k \in strays
    BY <1>1, <2>1 DEF Reach
  <2>. QED BY <1>7, <2>1, <2>2, AppendReaches DEF PutResumes, Reach
<1>8. CASE Finalize \/ FinalPutResumes
  <2>1. End \in 0..MaxRequests /\ status[k] = "running"
    BY <1>8, LimitsAssumption DEF Finalize, FinalPutResumes, End
  <2>2. InQueue(k) \/ (spc = "await" /\ held = k) \/ k \in strays
    BY <1>1, <1>8, <2>1 DEF Reach, Finalize, FinalPutResumes
  <2>3. CASE queue' = Append(queue, End)
    BY <1>8, <2>1, <2>2, <2>3, AppendReaches DEF Finalize, FinalPutResumes, Reach
  <2>4. CASE queue' = queue
    BY <1>8, <2>2, <2>4 DEF Finalize, FinalPutResumes, Reach, InQueue
  <2>. QED BY <1>8, <2>3, <2>4 DEF Finalize, FinalPutResumes
<1>9. CASE Get
  <2>1. status[k] = "running" /\ hpc' = hpc /\ created' = created /\ spc # "await"
    BY <1>9 DEF Get
  <2>2. CASE (hpc \in {"put", "cancelled"} /\ k = created) \/ k \in strays
    BY <1>9, <2>1, <2>2 DEF Get, Reach
  <2>3. CASE InQueue(k)
    <3>1. PICK i \in DOMAIN queue : queue[i] = k
      BY <2>3 DEF InQueue
    <3>2. /\ DOMAIN queue = 1..Len(queue) /\ Len(queue) \in Nat /\ Head(queue) = queue[1]
          /\ DOMAIN queue' = 1..(Len(queue) - 1)
          /\ \A j \in 1..(Len(queue) - 1) : queue'[j] = queue[j + 1]
      BY <1>9 DEF Get, TypeOK
    <3>3. CASE i = 1
      BY <1>9, <3>1, <3>2, <3>3 DEF Get, Reach, Ids, End
    <3>4. CASE i # 1
      <4>1. i - 1 \in DOMAIN queue' /\ queue'[i - 1] = k
        BY <3>1, <3>2, <3>4
      <4>. QED BY <4>1 DEF Reach, InQueue
    <3>. QED BY <3>3, <3>4
  <2>. QED BY <1>1, <2>1, <2>2, <2>3 DEF Reach
<1>10. ASSUME NEW more, Die(more), created' = created,
              hpc \in {"put", "cancelled"} => hpc' \in {"put", "cancelled"},
              spc = "await" => status[held] # "running" \/ held \in more
       PROVE  Reach(k)'
  <2>1. status[k] = "running"
    BY <1>10 DEF Die
  <2>. QED BY <1>1, <1>10, <2>1, DieReaches
<1>11. CASE Write
  <2>1. CASE Lost
    BY <1>10, <1>11, <2>1 DEF Write
  <2>2. CASE ~Lost
    BY <1>1, <1>11, <2>2 DEF Write, Reach, InQueue
  <2>. QED BY <2>1, <2>2
<1>12. CASE AwaitRaises
  BY <1>10, <1>12 DEF AwaitRaises
<1>13. CASE DrainReturns
  <2>1. CASE Die({})
    BY <1>10, <1>13, <2>1 DEF DrainReturns
  <2>2. CASE UNCHANGED <<conn, status, queue, strays>> /\ spc' = "get"
    BY <1>1, <1>13, <2>2 DEF DrainReturns, Reach, InQueue
  <2>. QED BY <1>13, <2>1, <2>2 DEF DrainReturns
<1>14. CASE ShutdownTimeout
  <2>1. /\ created' = created /\ held' = held
        /\ hpc \in {"put", "cancelled"} => hpc' \in {"put", "cancelled"}
    BY <1>14 DEF ShutdownTimeout
  <2>2. CASE UNCHANGED <<spc, queue, status, conn, strays>>
    BY <1>2, <2>1, <2>2
  <2>3. CASE Die(IF spc = "await" THEN {held} ELSE {})
    BY <1>10, <2>1, <2>3
  <2>. QED BY <1>14, <2>2, <2>3 DEF ShutdownTimeout, CancelSender
<1>. QED BY <1>3, <1>4, <1>5, <1>6, <1>7, <1>8, <1>9, <1>11, <1>12, <1>13, <1>14
         DEF Next, Handler, Others, Sender

\* No lookup is forgotten while it runs, but for the two kinds the property names, for
\* every queue limit and any number of requests.
THEOREM NoForgottenLookupHolds == Spec => []NoForgottenLookup
<1>1. Init => NoForgottenLookup
  BY DEF Init, NoForgottenLookup
<1>2. TypeOK /\ NoForgottenLookup /\ [Next]_vars => NoForgottenLookup'
  BY ReachStep DEF NoForgottenLookup, Reach
<1>. QED BY <1>1, <1>2, TypeCorrect, PTL DEF Spec

-----------------------------------------------------------------------------
(* EveryRequestAnswered *)

\* The handler gives up reading only when nothing is left to parse.
Drained ==
  hpc \in {"finput", "finwait", "done"} =>
    bio = 0 /\ (bad = "bio" \/ (eof /\ bad = "none" /\ inbox = 0))

\* While the sender lives nobody has closed the transport or cancelled a task.
Untouched == Alive => conn \in {"open", "reset"} /\ \A k \in Ids : status[k] # "cancelled"

\* What the sender may die of.
Cause == spc = "died" => stopped \/ conn = "reset" \/ \E k \in 1..created : status[k] = "failed"

\* The end marker is the last in the queue and comes after all requests.
Marker ==
  /\ hpc = "finwait" /\ Alive =>
       Len(queue) > 0 /\ queue[Len(queue)] = End /\ Taken + Len(queue) = created + 1
  /\ spc = "ended" => Len(out) = created /\ hpc \in {"finwait", "done"}
  /\ hpc = "done" => ~Alive

LEMMA DrainedStep ==
  ASSUME TypeOK, Drained, [Next]_vars
  PROVE  Drained'
<1>1. CASE UNCHANGED vars \/ Send \/ SendMalformed \/ ShutWrite
  BY <1>1 DEF vars, Send, SendMalformed, ShutWrite, Drained
<1>2. CASE ConnectionLost
  BY <1>2 DEF ConnectionLost, Drained
<1>3. CASE ReadChunk \/ AwaitData \/ Parse \/ PutResumes
  BY <1>3 DEF ReadChunk, AwaitData, Parse, PutResumes, Drained
<1>4. CASE Finalize \/ FinalPutResumes \/ HandlerEnds
  BY <1>4 DEF Finalize, FinalPutResumes, HandlerEnds, clientVars, Drained
<1>5. CASE Get \/ Write \/ AwaitRaises \/ DrainReturns \/ \E k \in Ids : TaskEnds(k)
  <2>1. UNCHANGED <<hpc, bio, bad, eof, inbox>>
    BY <1>5 DEF Get, Write, AwaitRaises, DrainReturns, TaskEnds, clientVars
  <2>. QED BY <2>1 DEF Drained
<1>6. CASE ShutdownTimeout
  BY <1>6 DEF ShutdownTimeout, clientVars, Drained
<1>. QED BY <1>1, <1>2, <1>3, <1>4, <1>5, <1>6 DEF Next, Handler, Others, Sender

LEMMA UntouchedStep ==
  ASSUME TypeOK, Untouched, [Next]_vars
  PROVE  Untouched'
<1>1. ASSUME UNCHANGED <<conn, status>>, Alive' => Alive PROVE Untouched'
  BY <1>1 DEF Untouched
<1>2. ASSUME ~Alive' PROVE Untouched'
  BY <1>2 DEF Untouched
<1>3. CASE UNCHANGED vars \/ Send \/ SendMalformed \/ ShutWrite
  BY <1>1, <1>3 DEF vars, Send, SendMalformed, ShutWrite, Alive
<1>4. CASE ConnectionLost
  BY <1>4 DEF ConnectionLost, Lost, Alive, Untouched
<1>5. CASE ReadChunk \/ AwaitData \/ PutResumes \/ Finalize \/ FinalPutResumes \/ HandlerEnds
  BY <1>1, <1>5 DEF ReadChunk, AwaitData, PutResumes, Finalize, FinalPutResumes, HandlerEnds, Alive
<1>6. CASE Parse
  BY <1>6 DEF Parse, Untouched, Alive, TypeOK
<1>7. ASSUME NEW j \in Ids, TaskEnds(j) PROVE Untouched'
  BY <1>7 DEF TaskEnds, Untouched, Alive, TypeOK
<1>8. CASE Get
  BY <1>1, <1>2, <1>8 DEF Get, Alive
<1>9. CASE Write
  BY <1>1, <1>2, <1>9 DEF Write, Die, Alive
<1>10. CASE AwaitRaises
  BY <1>2, <1>10 DEF AwaitRaises, Die, Alive
<1>11. CASE DrainReturns
  BY <1>1, <1>2, <1>11 DEF DrainReturns, Die, Alive
<1>12. CASE ShutdownTimeout
  BY <1>1, <1>2, <1>12 DEF ShutdownTimeout, CancelSender, Die, Alive
<1>. QED BY <1>3, <1>4, <1>5, <1>6, <1>7, <1>8, <1>9, <1>10, <1>11, <1>12
         DEF Next, Handler, Others, Sender

LEMMA CauseStep ==
  ASSUME Inv, Untouched, Cause, [Next]_vars
  PROVE  Cause'
<1>1. ASSUME spc' = "died" => spc = "died", stopped => stopped', conn = "reset" => conn' = "reset",
             created \in Nat => created' \in Nat /\ created' >= created,
             \A k \in 1..created : status[k] = "failed" => status'[k] = "failed"
      PROVE  Cause'
  BY <1>1 DEF Cause, Inv, TypeOK
<1>2. CASE UNCHANGED vars \/ Send \/ SendMalformed \/ ShutWrite
  BY <1>1, <1>2 DEF vars, Send, SendMalformed, ShutWrite
<1>3. CASE ConnectionLost
  BY <1>1, <1>3 DEF ConnectionLost, Lost
<1>4. CASE ReadChunk \/ AwaitData \/ PutResumes \/ Finalize \/ FinalPutResumes \/ HandlerEnds
  BY <1>1, <1>4 DEF ReadChunk, AwaitData, PutResumes, Finalize, FinalPutResumes, HandlerEnds
<1>5. CASE Parse
  BY <1>1, <1>5 DEF Parse, Inv, TypeOK, Ids
<1>6. ASSUME NEW j \in Ids, TaskEnds(j) PROVE Cause'
  BY <1>1, <1>6 DEF TaskEnds, Inv, TypeOK, Ids
<1>7. CASE Get
  BY <1>1, <1>7 DEF Get, CloseTransport
<1>8. CASE Write
  BY <1>1, <1>8 DEF Write, Die, CloseTransport, Alive, Untouched, Lost, Cause, Inv, TypeOK, Ids
<1>9. CASE AwaitRaises
  <2>1. held \in Ids /\ held <= created /\ status[held] = "failed"
    BY <1>9 DEF AwaitRaises, Untouched, Alive, Inv, Pipeline, TypeOK
  <2>2. status'[held] = "failed" /\ created' = created /\ held \in 1..created
    BY <1>9, <2>1 DEF AwaitRaises, Die, Inv, TypeOK, Ids
  <2>. QED BY <2>2 DEF Cause
<1>10. CASE DrainReturns
  BY <1>1, <1>10 DEF DrainReturns, Die, CloseTransport, Alive, Untouched, Lost, Cause, Inv, TypeOK, Ids
<1>11. CASE ShutdownTimeout
  BY <1>11 DEF ShutdownTimeout, Cause
<1>. QED BY <1>2, <1>3, <1>4, <1>5, <1>6, <1>7, <1>8, <1>9, <1>10, <1>11
         DEF Next, Handler, Others, Sender

LEMMA MarkerStep ==
  ASSUME Inv, Marker, [Next]_vars
  PROVE  Marker'
<1>1. /\ out \in Seq(Ids) /\ Len(out) \in Nat /\ created \in Nat
      /\ queue \in Seq(0..MaxRequests) /\ Len(queue) \in Nat /\ Taken \in Nat
  BY DEF Inv, TypeOK, Taken
<1>2. ASSUME UNCHANGED <<spc, out, created, queue>>,
             hpc' = hpc \/ (hpc' # "finwait" /\ hpc' # "done" /\ hpc # "finwait" /\ hpc # "done")
      PROVE  Marker'
  BY <1>2 DEF Marker, Taken, Alive
<1>3. ASSUME spc' = "died" PROVE Marker'
  BY <1>3 DEF Marker, Alive
<1>4. CASE UNCHANGED vars \/ Send \/ SendMalformed \/ ShutWrite \/ ConnectionLost \/ ReadChunk \/ AwaitData
  BY <1>2, <1>4 DEF vars, Send, SendMalformed, ShutWrite, ConnectionLost, ReadChunk, AwaitData
<1>5. ASSUME NEW j \in Ids, TaskEnds(j) PROVE Marker'
  BY <1>2, <1>5 DEF TaskEnds
<1>6. CASE Parse \/ PutResumes
  <2>1. hpc \in {"parse", "put"} /\ hpc' \in {"parse", "put"} /\ spc' = spc
    BY <1>6 DEF Parse, PutResumes
  <2>. QED BY <2>1 DEF Marker
<1>7. ASSUME queue' = Append(queue, End), hpc' = "finwait", UNCHANGED <<spc, out, created>>,
             hpc \in {"read", "parse", "finput"}
      PROVE  Marker'
  <2>1. Len(queue') = Len(queue) + 1 /\ queue'[Len(queue) + 1] = End
    BY <1>1, <1>7 DEF End
  <2>2. Alive => Taken + Len(queue) = created
    BY <1>7 DEF Inv, Pipeline
  <2>3. Taken' = Taken /\ Alive' = Alive /\ spc' # "ended"
    BY <1>7 DEF Taken, Alive, Marker
  <2>4. Alive' => Len(queue') > 0 /\ queue'[Len(queue')] = End
    BY <1>1, <2>1
  <2>5. Alive' => Taken' + Len(queue') = created' + 1
    <3> SUFFICES ASSUME Alive' PROVE Taken + (Len(queue) + 1) = created + 1
      BY <1>7, <2>1, <2>3
    <3>1. Taken + Len(queue) = created
      BY <2>2, <2>3
    <3>2. Taken \in Nat /\ Len(queue) \in Nat
      BY <1>1
    <3>. QED BY <3>1, <3>2
  <2>6. hpc' = "finwait"
    BY <1>7
  <2>. QED BY <2>3, <2>4, <2>5, <2>6 DEF Marker
<1>8. CASE Finalize \/ FinalPutResumes
  <2>1. CASE queue' = Append(queue, End) /\ hpc' = "finwait"
    BY <1>7, <1>8, <2>1 DEF Finalize, FinalPutResumes
  <2>2. CASE ~(queue' = Append(queue, End) /\ hpc' = "finwait")
    BY <1>2, <1>8, <2>2 DEF Finalize, FinalPutResumes
  <2>. QED BY <2>1, <2>2
<1>9. CASE HandlerEnds
  BY <1>9 DEF HandlerEnds, Marker, Alive
<1>10. CASE Get
  <2>1. /\ Head(queue) = queue[1] /\ 1 \in DOMAIN queue /\ Len(queue') = Len(queue) - 1
        /\ Alive /\ Taken = Len(out)
        /\ \A i \in 1..(Len(queue) - 1) : queue'[i] = queue[i + 1]
    BY <1>1, <1>10 DEF Get, Alive, Taken
  <2>2. CASE Head(queue) = End
    <3>1. 1 = Len(queue) /\ hpc = "finwait"
      BY <1>1, <2>1, <2>2 DEF Inv, Pipeline, End
    <3>2. Len(out) = created
      <4>1. Taken + Len(queue) = created + 1
        BY <2>1, <3>1 DEF Marker
      <4>2. Taken + 1 = created + 1 /\ Taken \in Nat /\ created \in Nat
        BY <1>1, <3>1, <4>1
      <4>3. Taken = Len(out)
        BY <2>1
      <4>. QED BY <4>2, <4>3
    <3>. QED BY <1>10, <2>2, <3>1, <3>2 DEF Get, Marker, Alive
  <2>3. CASE Head(queue) # End
    <3>1. spc' = "await" /\ hpc' = hpc /\ out' = out /\ created' = created /\ hpc # "done"
      BY <1>10, <2>1, <2>3 DEF Get, Marker
    <3>2. CASE hpc = "finwait"
      <4>1. Len(queue) > 1 /\ queue[Len(queue)] = End /\ Taken + Len(queue) = created + 1
        BY <1>1, <2>1, <2>3, <3>2 DEF Marker
      <4>2. queue'[Len(queue')] = End /\ Len(queue') > 0 /\ Len(queue') \in Nat
        BY <1>1, <2>1, <4>1
      <4>3. Taken' = Taken + 1
        BY <2>1, <3>1 DEF Taken
      <4>4. Taken' + Len(queue') = created' + 1
        <5>1. /\ Len(queue') = Len(queue) - 1 /\ created' = created
              /\ Taken \in Nat /\ created \in Nat /\ Len(queue) \in Nat
          BY <1>1, <2>1, <3>1
        <5>. QED BY <4>1, <4>3, <5>1
      <4>. QED BY <3>1, <4>2, <4>4 DEF Marker
    <3>. QED BY <3>1, <3>2 DEF Marker
  <2>. QED BY <2>2, <2>3
<1>11. CASE Write
  <2>1. CASE Lost
    BY <1>3, <1>11, <2>1 DEF Write, Die
  <2>2. CASE ~Lost
    <3>1. /\ spc = "await" /\ spc' = "drain" /\ UNCHANGED <<queue, hpc, created>>
          /\ out' = Append(out, held) /\ held \in Ids /\ Alive
      BY <1>11, <2>2 DEF Write, Inv, TypeOK, Alive
    <3>2. Taken' = Taken
      BY <1>1, <3>1, AppendProperties DEF Taken
    <3>. QED BY <3>1, <3>2 DEF Marker, Alive
  <2>. QED BY <2>1, <2>2
<1>12. CASE AwaitRaises
  BY <1>3, <1>12 DEF AwaitRaises, Die
<1>13. CASE DrainReturns
  <2>1. CASE Die({})
    BY <1>3, <2>1 DEF Die
  <2>2. CASE spc' = "get" /\ UNCHANGED <<conn, status, queue, strays>>
    BY <1>13, <2>2 DEF DrainReturns, Marker, Taken, Alive
  <2>. QED BY <1>13, <2>1, <2>2 DEF DrainReturns
<1>14. CASE ShutdownTimeout
  <2>1. CASE UNCHANGED <<spc, queue>>
    BY <1>2, <1>14, <2>1 DEF ShutdownTimeout, HandlerOver
  <2>2. CASE spc' = "died"
    BY <1>3, <2>2
  <2>. QED BY <1>14, <2>1, <2>2 DEF ShutdownTimeout, CancelSender, Die
<1>. QED BY <1>4, <1>5, <1>6, <1>8, <1>9, <1>10, <1>11, <1>12, <1>13, <1>14
         DEF Next, Handler, Others, Sender

Session == Inv /\ Drained /\ Untouched /\ Cause /\ Marker

LEMMA SessionHolds == Spec => []Session
<1>1. Init => Drained /\ Untouched /\ Cause /\ Marker
  BY DEF Init, Drained, Untouched, Cause, Marker, Alive
<1>2. Inv /\ Session /\ [Next]_vars => (Drained /\ Untouched /\ Cause /\ Marker)'
  BY DrainedStep, UntouchedStep, CauseStep, MarkerStep DEF Inv, Session
<1>3. Session <=> Inv /\ Drained /\ Untouched /\ Cause /\ Marker
  BY DEF Session
<1>. QED BY <1>1, <1>2, <1>3, InvHolds, PTL DEF Spec

\* A session that ends by itself has answered all it was asked: for every queue
\* limit and any number of requests, wherever the end of the stream falls.
THEOREM EveryRequestAnsweredHolds == Spec => []EveryRequestAnswered
<1>1. Session => EveryRequestAnswered
  <2> SUFFICES ASSUME Session, hpc = "done", ~stopped, conn # "reset",
                      \A k \in Ids : status[k] # "failed"
               PROVE  Len(out) = created /\ bio = 0 /\ (bad = "none" => inbox = 0)
    BY DEF EveryRequestAnswered
  <2>1. (\A k \in 1..created : k \in Ids) /\ spc \in {"get", "await", "drain", "ended", "died"}
    BY LimitsAssumption DEF Session, Inv, TypeOK, Ids
  <2>2. spc = "ended"
    BY <2>1 DEF Session, Marker, Cause, Alive
  <2>. QED BY <2>2 DEF Session, Marker, Drained
<1>. QED BY <1>1, SessionHolds, PTL
=============================================================================
