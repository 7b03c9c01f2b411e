----------------------------- MODULE Connection -----------------------------
(***************************************************************************)
(* One client connection of STSSocketmapResponder: the handler task reads  *)
(* and parses requests and starts a process_request task for each, a       *)
(* bounded queue keeps the tasks in order, and the sender task awaits them *)
(* one by one and writes their replies.                                    *)
(*                                                                         *)
(* Requests are numbered in the order they are parsed; what they say is    *)
(* the matter of PolicyLookup.  The handler runs from one await that makes *)
(* it wait to the next: while its hpc is "parse" it has the event loop to  *)
(* itself.  The sender's awaits are all taken as waits.                    *)
(***************************************************************************)
EXTENDS Naturals, Sequences

CONSTANTS
  QueueLimit,     \* QUEUE_LIMIT
  MaxRequests,    \* bound: requests a client sends on the connection
  CancelMayBeLost \* a lookup may go on after cancel(): wait_for swallows a cancellation
                  \* that meets a result, and what a broken connection's replacement
                  \* raises takes its place

ASSUME LimitsAssumption ==
  QueueLimit \in Nat \ {0} /\ MaxRequests \in Nat /\ CancelMayBeLost \in BOOLEAN

Ids == 1..MaxRequests
End == 0  \* the None that finalize() puts into the queue

VARIABLES
  inbox,   \* whole requests in the asyncio.StreamReader's buffer
  bio,     \* whole requests fed to the netstring parser and not yet parsed
  bad,     \* where a malformed netstring follows them: "none", "inbox" or "bio"
  eof,     \* the StreamReader was told that nothing more comes
  conn,    \* transport: "open", "closing", "closed" after close(), "reset"
  hpc,     \* where the handler awaits
  created, \* process_request tasks started
  status,  \* state of each of these tasks
  queue,   \* the queue of futures
  spc,     \* where the sender awaits; "ended" at End, "died" by an exception
  held,    \* the future the sender took last
  out,     \* requests whose replies were written to the transport
  stopped, \* stop() gave up waiting and cancelled the handler
  swallowed, \* history: the cancellation of the sender was lost in the lookup it awaited
  strays   \* history: lookups of the queue whose cancellation was lost

vars == <<inbox, bio, bad, eof, conn, hpc, created, status, queue, spc, held, out, stopped,
          swallowed, strays>>
clientVars == <<inbox, bio, bad, eof>>

Alive == spc \in {"get", "await", "drain"}
HandlerOver == hpc \in {"done", "cancelled"}
Lost == conn \in {"closed", "reset"}

TypeOK ==
  /\ inbox \in 0..MaxRequests /\ bio \in 0..MaxRequests
  /\ created + bio + inbox <= MaxRequests
  /\ bad \in {"none", "inbox", "bio"} /\ eof \in BOOLEAN
  /\ stopped \in BOOLEAN /\ swallowed \in BOOLEAN /\ strays \subseteq Ids
  /\ conn \in {"open", "closing", "closed", "reset"}
  /\ hpc \in {"read", "parse", "put", "finput", "finwait", "done", "cancelled"}
  /\ created \in 0..MaxRequests
  /\ status \in [Ids -> {"none", "running", "replied", "failed", "cancelled"}]
  /\ queue \in Seq(0..MaxRequests) /\ Len(queue) <= QueueLimit
  /\ spc \in {"get", "await", "drain", "ended", "died"}
  /\ held \in 0..MaxRequests /\ (spc = "await" => held \in Ids)
  /\ out \in Seq(Ids)

Init ==
  /\ inbox = 0 /\ bio = 0 /\ bad = "none" /\ eof = FALSE /\ conn = "open"
  /\ hpc = "read" /\ created = 0 /\ status = [k \in Ids |-> "none"]
  /\ queue = <<>> /\ spc = "get" /\ held = 0 /\ out = <<>>
  /\ stopped = FALSE /\ swallowed = FALSE /\ strays = {}

-----------------------------------------------------------------------------
(* The client and the transport *)

Send ==
  /\ conn = "open" /\ ~eof /\ bad = "none" /\ created + bio + inbox < MaxRequests
  /\ inbox' = inbox + 1
  /\ UNCHANGED <<bio, bad, eof, conn, hpc, created, status, queue, spc, held, out, stopped,
                 swallowed, strays>>

SendMalformed ==
  /\ conn = "open" /\ ~eof /\ bad = "none"
  /\ bad' = "inbox"
  /\ UNCHANGED <<inbox, bio, eof, conn, hpc, created, status, queue, spc, held, out, stopped,
                 swallowed, strays>>

ShutWrite ==
  /\ conn = "open" /\ ~eof /\ eof' = TRUE
  /\ UNCHANGED <<inbox, bio, bad, conn, hpc, created, status, queue, spc, held, out, stopped,
                 swallowed, strays>>

\* connection_lost: without an error what was received can still be read, with
\* one every later read() raises
ConnectionLost ==
  /\ ~Lost
  /\ conn' = IF conn = "open" THEN "reset" ELSE "closed"
  /\ eof' = TRUE
  /\ \/ UNCHANGED <<inbox, bad>>
     \/ inbox' = 0 /\ bad' = IF bad = "inbox" THEN "none" ELSE bad
  /\ UNCHANGED <<bio, hpc, created, status, queue, spc, held, out, stopped, swallowed, strays>>

-----------------------------------------------------------------------------
(* handler *)

ReadChunk ==
  /\ hpc \in {"read", "parse"} /\ bio = 0 /\ bad # "bio"
  /\ hpc' = "parse"
  /\ \E n \in 0..inbox :
       /\ bio' = n /\ inbox' = inbox - n
       /\ \/ n > 0 /\ UNCHANGED bad
          \/ n = inbox /\ bad = "inbox" /\ bad' = "bio"
  /\ UNCHANGED <<eof, conn, created, status, queue, spc, held, out, stopped, swallowed, strays>>

\* Nothing to read: the handler waits
AwaitData ==
  /\ hpc = "parse" /\ bio + inbox = 0 /\ bad = "none" /\ ~eof
  /\ hpc' = "read"
  /\ UNCHANGED <<clientVars, conn, created, status, queue, spc, held, out, stopped, swallowed,
                 strays>>

HasRoomForOneMore == Len(queue) <= QueueLimit  \* mutant: off by one

HasRoom == Len(queue) < QueueLimit

\* A request is complete: its task starts, then its future goes into the queue
Parse ==
  /\ hpc = "parse" /\ bio > 0
  /\ bio' = bio - 1
  /\ created' = created + 1
  /\ status' = [status EXCEPT ![created + 1] = "running"]
  /\ IF HasRoom THEN queue' = Append(queue, created + 1) /\ UNCHANGED hpc
                ELSE hpc' = "put" /\ UNCHANGED queue
  /\ UNCHANGED <<inbox, bad, eof, conn, spc, held, out, stopped, swallowed, strays>>

PutResumesAtHead ==  \* mutant: the future that waited for room jumps the queue
  /\ hpc = "put" /\ HasRoom
  /\ queue' = <<created>> \o queue
  /\ hpc' = "parse"
  /\ UNCHANGED <<clientVars, conn, created, status, spc, held, out, stopped, swallowed, strays>>

PutResumes ==
  /\ hpc = "put" /\ HasRoom
  /\ queue' = Append(queue, created)
  /\ hpc' = "parse"
  /\ UNCHANGED <<clientVars, conn, created, status, spc, held, out, stopped, swallowed, strays>>

FinalizeEarly ==  \* mutant: the end of the stream overtakes data still buffered
  /\ hpc \in {"read", "parse"} /\ bio = 0
  /\ bad = "bio" \/ eof
  /\ IF HasRoom THEN queue' = Append(queue, End) /\ hpc' = "finwait"
                ELSE hpc' = "finput" /\ UNCHANGED queue
  /\ UNCHANGED <<clientVars, conn, created, status, spc, held, out, stopped, swallowed, strays>>

FinalizeWithoutMarker ==  \* mutant: the sender is awaited but never told the end
  /\ hpc \in {"read", "parse"} /\ bio = 0
  /\ bad = "bio" \/ (eof /\ inbox = 0 /\ bad = "none")
  /\ hpc' = "finwait"
  /\ UNCHANGED <<clientVars, conn, created, status, queue, spc, held, out, stopped, swallowed,
                 strays>>

\* ParseError, EndOfStream or a connection error: finalize()
Finalize ==
  /\ hpc \in {"read", "parse"} /\ bio = 0
  /\ bad = "bio" \/ (eof /\ inbox = 0 /\ bad = "none")
  /\ IF HasRoom THEN queue' = Append(queue, End) /\ hpc' = "finwait"
                ELSE hpc' = "finput" /\ UNCHANGED queue
  /\ UNCHANGED <<clientVars, conn, created, status, spc, held, out, stopped, swallowed, strays>>

FinalPutResumes ==
  /\ hpc = "finput" /\ HasRoom
  /\ queue' = Append(queue, End)
  /\ hpc' = "finwait"
  /\ UNCHANGED <<clientVars, conn, created, status, spc, held, out, stopped, swallowed, strays>>

HandlerEnds ==
  /\ hpc = "finwait" /\ ~Alive
  /\ hpc' = "done"
  /\ UNCHANGED <<clientVars, conn, created, status, queue, spc, held, out, stopped, swallowed,
                 strays>>

-----------------------------------------------------------------------------
(* process_request, as seen from here *)

TaskEnds(k) ==
  /\ status[k] = "running"
  /\ \E s \in {"replied", "failed"} : status' = [status EXCEPT ![k] = s]
  /\ UNCHANGED <<clientVars, conn, hpc, created, queue, spc, held, out, stopped, swallowed, strays>>

-----------------------------------------------------------------------------
(* sender *)

InQueue(k) == \E i \in DOMAIN queue : queue[i] = k

CloseTransport == conn' = IF conn = "open" THEN "closing" ELSE conn

\* Queued lookups that may go on though they are cancelled
MayRunOn == IF CancelMayBeLost THEN {k \in Ids : status[k] = "running" /\ InQueue(k)} ELSE {}

DieUncancelled(more) ==  \* mutant: the queue is dropped, its tasks run on
  /\ spc' = "died" /\ queue' = <<>>
  /\ UNCHANGED <<status, strays>>
  /\ CloseTransport

\* cleanup_queue() cancels what is queued (cancelling a finished task does nothing, and
\* one may run on) and the finally clause closes the transport; `more` was cancelled along
Die(more) ==
  /\ spc' = "died"
  /\ queue' = <<>>
  /\ \E lost \in SUBSET MayRunOn :
       /\ strays' = strays \cup lost
       /\ status' = [k \in Ids |-> IF status[k] = "running" /\ k \notin lost
                                      /\ (InQueue(k) \/ k \in more)
                                  THEN "cancelled" ELSE status[k]]
  /\ CloseTransport

GetNewest ==  \* mutant: the queue is taken from the wrong end
  /\ spc = "get" /\ queue # <<>>
  /\ queue' = SubSeq(queue, 1, Len(queue) - 1)
  /\ IF queue[Len(queue)] = End
     THEN spc' = "ended" /\ CloseTransport /\ UNCHANGED held
     ELSE spc' = "await" /\ held' = queue[Len(queue)] /\ UNCHANGED conn
  /\ UNCHANGED <<clientVars, hpc, created, status, out, stopped, swallowed, strays>>

Get ==
  /\ spc = "get" /\ queue # <<>>
  /\ queue' = Tail(queue)
  /\ IF Head(queue) = End
     THEN spc' = "ended" /\ CloseTransport /\ UNCHANGED held
     ELSE spc' = "await" /\ held' = Head(queue) /\ UNCHANGED conn
  /\ UNCHANGED <<clientVars, hpc, created, status, out, stopped, swallowed, strays>>

\* The awaited task replied: write, and drain unless the connection is gone
Write ==
  /\ spc = "await" /\ status[held] = "replied"
  /\ out' = Append(out, held)
  /\ IF Lost THEN Die({}) ELSE spc' = "drain" /\ UNCHANGED <<conn, status, queue, strays>>
  /\ UNCHANGED <<clientVars, hpc, created, held, stopped, swallowed>>

AwaitRaisesSkips ==  \* mutant: the sender goes on with the next future
  /\ spc = "await" /\ status[held] \in {"failed", "cancelled"}
  /\ spc' = "get"
  /\ UNCHANGED <<clientVars, conn, hpc, created, status, queue, held, out, stopped, swallowed,
                 strays>>

\* The awaited task raised, or was cancelled
AwaitRaises ==
  /\ spc = "await" /\ status[held] \in {"failed", "cancelled"}
  /\ Die({})
  /\ UNCHANGED <<clientVars, hpc, created, held, out, stopped, swallowed>>

\* drain() returns, or raises as the connection was lost with an error
DrainReturns ==
  /\ spc = "drain"
  /\ \/ spc' = "get" /\ UNCHANGED <<conn, status, queue, strays>>
     \/ Lost /\ Die({})
  /\ UNCHANGED <<clientVars, hpc, created, held, out, stopped, swallowed>>

-----------------------------------------------------------------------------
(* stop(): the shutdown timeout expires and the handler is cancelled.  It      *)
(* cancels the sender, whose wait for a task is cancelled with the task - but  *)
(* the task may go on in spite of that, and the sender with it.                *)

CancelSender ==
  IF ~Alive THEN UNCHANGED <<spc, queue, status, conn, swallowed, strays>>
  ELSE \/ Die(IF spc = "await" THEN {held} ELSE {}) /\ UNCHANGED swallowed
       \/ /\ CancelMayBeLost /\ spc = "await" /\ status[held] = "running"
          /\ swallowed' = TRUE
          /\ UNCHANGED <<spc, queue, status, conn, strays>>

ShutdownTimeoutSparesSender ==  \* mutant: the handler does not cancel the sender
  /\ ~stopped /\ ~HandlerOver
  /\ stopped' = TRUE
  /\ hpc' = IF hpc = "finwait" THEN hpc ELSE "cancelled"
  /\ UNCHANGED <<clientVars, conn, created, status, queue, spc, held, out, swallowed, strays>>

ShutdownTimeout ==
  /\ ~stopped /\ ~HandlerOver
  /\ stopped' = TRUE
  /\ hpc' = IF hpc = "finwait" THEN hpc ELSE "cancelled"
  /\ CancelSender
  /\ UNCHANGED <<clientVars, created, held, out>>

Handler ==
  \/ ReadChunk \/ AwaitData \/ Parse \/ PutResumes
  \/ Finalize \/ FinalPutResumes \/ HandlerEnds

Sender == Get \/ Write \/ AwaitRaises \/ DrainReturns

Others ==
  \/ Send \/ SendMalformed \/ ShutWrite \/ ConnectionLost
  \/ Sender \/ ShutdownTimeout
  \/ \E k \in Ids : TaskEnds(k)

Next == Handler \/ (hpc # "parse" /\ Others)

Spec == Init /\ [][Next]_vars

\* The loop runs every task that can run, a request's lookups time out, a client
\* reads its replies or goes away, and close() gets the connection closed;
\* nothing makes a client send, shut down or a server stop.
Fairness ==
  /\ WF_vars(Handler) /\ WF_vars(hpc # "parse" /\ Sender)
  /\ WF_vars(hpc # "parse" /\ conn = "closing" /\ ConnectionLost)
  /\ \A k \in Ids : WF_vars(hpc # "parse" /\ TaskEnds(k))

FairSpec == Spec /\ Fairness

-----------------------------------------------------------------------------
(* Properties *)

\* Replies are written in the order of the requests, none skipped, none twice,
\* whatever order the tasks finish in and wherever an error or a stop falls.
RepliesInOrder == \A i \in DOMAIN out : out[i] = i

\* No lookup drops out of the pipeline while it runs: it is queued, held by the
\* sender or in the handler's hands, so that QueueLimit bounds what one client has
\* running even after errors.  Two exceptions: the task a handler was putting into a
\* full queue when stop() cancelled it, and those of a dead sender's queue that went on
\* in spite of being cancelled.
NoForgottenLookup ==
  \A k \in Ids : status[k] = "running" =>
    \/ InQueue(k)
    \/ spc = "await" /\ held = k
    \/ hpc \in {"put", "cancelled"} /\ k = created
    \/ k \in strays

\* A client that shuts down its side (or sends a malformed request) gets every
\* request it had sent before answered, unless a task failed, the connection was
\* lost or the server was stopped.
EveryRequestAnswered ==
  hpc = "done" /\ ~stopped /\ conn # "reset" /\ (\A k \in Ids : status[k] # "failed") =>
    Len(out) = created /\ bio = 0 /\ (bad = "none" => inbox = 0)

\* Once stop() gave up on the handler, the handler ends even if it was stuck, and
\* the sender closes the connection, unless its cancellation was lost.
StopCloses == stopped ~> HandlerOver /\ (Lost \/ swallowed)

\* A client that went away is noticed and its handler ends, if the sender was
\* still at work when its last request was parsed.
GoneClientReleased == 
  eof /\ bio + inbox = 0 /\ bad = "none" /\ Alive ~> HandlerOver

\* A handler that waits for room in the queue gets it: the sender it created
\* "awaits for steady responses and sends them".
QueueMoves == hpc \in {"put", "finput"} ~> hpc \notin {"put", "finput"}

\* The connection implements the promise to its client; it also keeps it moving,
\* unless a stop() was lost in a lookup and left the sender without a handler.
Promise == INSTANCE OrderedReplies
             WITH asked <- created, replies <- out, closed <- ~Alive
PromiseKept == Promise!Spec
PromiseKeptFairly == Promise!Fairness \/ <>swallowed
=============================================================================
