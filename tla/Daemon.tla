------------------------------- MODULE Daemon -------------------------------
(***************************************************************************)
(* The life of the daemon with a SQLite cache: amain sets the cache up,    *)
(* starts the responder and the proactive fetcher, waits for a signal and  *)
(* stops them again in order, while clients connect and their lookups, and *)
(* the fetcher, borrow connections of the pool (SqliteConnPool).           *)
(*                                                                         *)
(* A session and its lookups are the matter of Connection, the rounds of   *)
(* the fetcher of ProactiveFetch; here each is a task that borrows.        *)
(***************************************************************************)
EXTENDS Naturals, FiniteSets, Sequences

CONSTANTS
  Clients,
  Fetch,            \* the task of the proactive fetcher
  Threads, Conns, None,
  CancelMayBeLost   \* asyncio.wait_for may swallow a cancellation that meets a result

ASSUME FetchAssumption == Fetch \notin Clients /\ CancelMayBeLost \in BOOLEAN

ASSUME PoolAssumption ==
  /\ Threads \in Nat \ {0} /\ IsFiniteSet(Conns) /\ Threads <= Cardinality(Conns)
  /\ None \notin Conns /\ IsFiniteSet(Clients)

Tasks == Clients \cup {Fetch}

VARIABLES
  phase, open, free, drained, pc, held, dirty, lost, late

poolVars == <<phase, open, free, drained, pc, held, dirty, lost, late>>

Pool == INSTANCE SqliteConnPool WITH Borrowers <- Tasks

VARIABLES
  stage,     \* where amain is
  signalled, \* exit_event
  beating,   \* the heartbeat wakes the loop
  notifier,  \* of systemd
  listening, \* the server accepts connections
  session,   \* each client's handler
  mute,      \* clients whose sender died before their handler
  children,  \* _children of the responder
  gathered,  \* the handlers that stop() gathered
  task,      \* what uses the cache: a client's lookup, the fetch task
  astray     \* history: tasks at work that nobody awaits or is going to cancel

amainVars == <<stage, signalled, beating, notifier>>
clientVars == <<listening, session, mute, children, gathered>>
taskVars == <<task, astray>>
vars == <<poolVars, amainVars, clientVars, taskVars>>

TypeOK ==
  /\ stage \in {"setup", "start", "wait", "gather", "expired", "settle", "fetchstop",
                "teardown", "exited", "crashed", "killed"}
  /\ {signalled, beating, listening} \subseteq BOOLEAN
  /\ notifier \in [started : BOOLEAN, queue : Seq({"READY", "STOPPING"}),
                   unfinished : Nat, monitor : BOOLEAN]
  /\ session \in [Clients -> {"none", "accepted", "serving", "cancelled",
                             "abandoned"}]
  /\ mute \subseteq {c \in Clients : session[c] \in {"serving", "cancelled"}}
  /\ children \subseteq {c \in Clients : session[c] = "serving"}
  /\ gathered \subseteq Clients
  /\ task \in [Tasks -> {"none", "live", "dead", "cancelling", "unwinding"}]
  /\ astray \subseteq {t \in Tasks : task[t] = "live"}
  /\ \A t \in Tasks : pc[t] # "out" => task[t] \in {"live", "cancelling", "unwinding"}

Init ==
  /\ Pool!Init
  /\ stage = "setup" /\ signalled = FALSE /\ beating = FALSE
  /\ notifier = [started |-> FALSE, queue |-> <<>>, unfinished |-> 0, monitor |-> FALSE]
  /\ listening = FALSE /\ session = [c \in Clients |-> "none"]
  /\ mute = {} /\ children = {} /\ gathered = {}
  /\ task = [t \in Tasks |-> "none"] /\ astray = {}

over == stage \in {"exited", "crashed", "killed"}

\* cancel() of a task, which learns of it when it runs again
Cancelled(t) == IF task[t] = "live" THEN [task EXCEPT ![t] = "cancelling"] ELSE task

StillAstray == {t \in astray : task'[t] = "live"}

\* If t is at work now, nobody will end it
LeftAlone(t) == StillAstray \cup (IF task'[t] = "live" THEN {t} ELSE {})

-----------------------------------------------------------------------------
(* AsyncSystemdNotifier: nobody runs between the put and _drain *)

DrainsDoneLate(n) ==  \* mutant: task_done() comes after the send
  {[n EXCEPT !.queue = <<>>, !.unfinished = @ - Len(n.queue), !.monitor = FALSE]}
  \cup {[n EXCEPT !.queue = SubSeq(@, k + 1, Len(@)), !.unfinished = @ - k + 1,
                  !.monitor = TRUE] : k \in 1..Len(n.queue)}

\* _drain sends all, or the socket is full at one of the messages, which is lost, and
\* a writer callback has it called again
Drains(n) ==
  {[n EXCEPT !.queue = <<>>, !.unfinished = @ - Len(n.queue), !.monitor = FALSE]}
  \cup {[n EXCEPT !.queue = SubSeq(@, k + 1, Len(@)), !.unfinished = @ - k,
                  !.monitor = TRUE] : k \in 1..Len(n.queue)}

Notified(n, status) ==
  IF n.started
  THEN Drains([n EXCEPT !.queue = Append(@, status), !.unfinished = @ + 1])
  ELSE {n}

\* Without NOTIFY_SOCKET, or without a socket, it is not started
NotifierStarts == {[notifier EXCEPT !.started = s] : s \in BOOLEAN}

\* stop(): join() waits for what is unfinished, and then the socket is closed
NotifierStops(n) ==
  /\ n.unfinished = 0
  /\ notifier' = [n EXCEPT !.started = FALSE, !.monitor = FALSE]

Writable ==
  /\ notifier.monitor /\ notifier' \in Drains(notifier)
  /\ UNCHANGED <<poolVars, stage, signalled, beating, clientVars, taskVars>>

-----------------------------------------------------------------------------
(* amain, up to the signal *)

PrepareOne ==
  /\ stage = "setup" /\ Pool!PrepareOne
  /\ UNCHANGED <<amainVars, clientVars, taskVars>>

\* A connection cannot be opened, or the tables cannot be created
SetupFails ==
  /\ stage = "setup" /\ stage' = "crashed"
  /\ Pool!PrepareFails \/ (phase = "ready" /\ UNCHANGED poolVars)
  /\ UNCHANGED <<signalled, beating, notifier, clientVars, taskVars>>

SetupDone ==
  /\ stage = "setup" /\ phase = "ready" /\ stage' = "start"
  /\ UNCHANGED <<poolVars, signalled, beating, notifier, clientVars, taskVars>>

\* The address is in use, or TCP without reuse_port, for which start() sets no options
StartFails ==
  /\ stage = "start" /\ stage' = "crashed"
  /\ UNCHANGED <<poolVars, signalled, beating, notifier, clientVars, taskVars>>

ServeWithoutBeat ==  \* mutant: no heartbeat
  /\ stage = "start" /\ stage' = "wait"
  /\ listening' = TRUE
  /\ task' \in {task, [task EXCEPT ![Fetch] = "live"]}
  /\ \E n \in NotifierStarts : notifier' \in Notified(n, "READY")
  /\ UNCHANGED <<poolVars, beating, signalled, session, mute, children, gathered, astray>>

\* The server listens, the fetcher starts if it is enabled, and amain goes on to wait
\* without suspending in between
Serve ==
  /\ stage = "start" /\ stage' = "wait"
  /\ listening' = TRUE /\ beating' = TRUE
  /\ task' \in {task, [task EXCEPT ![Fetch] = "live"]}
  /\ \E n \in NotifierStarts : notifier' \in Notified(n, "READY")
  /\ UNCHANGED <<poolVars, signalled, session, mute, children, gathered, astray>>

\* exit_handler, which is not installed before the server listens: until then a signal
\* kills, and so does a second one
Signal ==
  /\ IF stage \in {"setup", "start"} \/ signalled
     THEN stage' = "killed" /\ UNCHANGED signalled
     ELSE signalled' = TRUE /\ UNCHANGED stage
  /\ UNCHANGED <<poolVars, beating, notifier, clientVars, taskVars>>

-----------------------------------------------------------------------------
(* amain, from the signal on, and the responder's stop() *)

GatherTooLate ==  \* mutant: the handlers are gathered after the set is cleared
  gathered' = {} /\ children' = {}

GatherAll == gathered' = children /\ children' = {}

\* The handler sets the event without waking the loop: the next heartbeat does
Woken == signalled /\ beating

\* Nothing suspends until stop() waits for the handlers, not even wait_closed()
Wake ==
  /\ stage = "wait" /\ Woken
  /\ \E n \in Notified(notifier, "STOPPING") : NotifierStops(n)
  /\ stage' = "gather" /\ beating' = FALSE /\ listening' = FALSE /\ GatherAll
  /\ UNCHANGED <<poolVars, signalled, session, mute, taskVars>>

AllOver == \A c \in gathered : session[c] \notin {"serving", "cancelled"}

Gathered ==
  /\ stage \in {"gather", "expired"} /\ AllOver
  /\ stage' = "settle"
  /\ UNCHANGED <<poolVars, signalled, beating, notifier, clientVars, taskVars>>

\* The shutdown timeout cancels what was gathered
Expire ==
  /\ stage = "gather" /\ ~AllOver
  /\ stage' = "expired"
  /\ session' = [c \in Clients |-> IF c \in gathered /\ session[c] = "serving"
                                   THEN "cancelled" ELSE session[c]]
  /\ UNCHANGED <<poolVars, signalled, beating, notifier, listening, mute, children, gathered,
                 taskVars>>

SettleOnce ==  \* mutant: stop() does not look for new handlers
  /\ stage = "settle"
  /\ \A c \in Clients : session[c] \in {"none", "serving"} /\ task[c] # "cancelling"
  /\ stage' = "fetchstop" /\ task' = Cancelled(Fetch) /\ astray' = StillAstray
  /\ UNCHANGED <<poolVars, signalled, beating, notifier, clientVars>>

\* A second is enough for the loop to spawn the handlers of connections that had been
\* accepted and to run the senders and lookups that were cancelled
Settle ==
  /\ stage = "settle"
  /\ \A c \in Clients : session[c] \in {"none", "serving"} /\ task[c] # "cancelling"
  /\ IF children = {}
     THEN /\ stage' = "fetchstop" /\ task' = Cancelled(Fetch) /\ astray' = StillAstray
          /\ UNCHANGED <<gathered, children>>
     ELSE stage' = "gather" /\ GatherAll /\ UNCHANGED taskVars
  /\ UNCHANGED <<poolVars, signalled, beating, notifier, listening, session, mute>>

FetchStoppedReraises ==  \* mutant: stop() does not catch CancelledError
  /\ stage = "fetchstop" /\ task[Fetch] \in {"none", "dead"}
  /\ \/ stage' = "crashed" /\ UNCHANGED poolVars
     \/ task[Fetch] = "none" /\ stage' = "teardown" /\ Pool!Stop
  /\ UNCHANGED <<signalled, beating, notifier, clientVars, taskVars>>

\* Awaiting a fetch task that had died raises what it died of, and ends amain
FetchStopped ==
  /\ stage = "fetchstop" /\ task[Fetch] \in {"none", "dead"}
  /\ IF task[Fetch] = "dead" THEN stage' = "crashed" /\ UNCHANGED poolVars
     ELSE stage' = "teardown" /\ Pool!Stop
  /\ UNCHANGED <<signalled, beating, notifier, clientVars, taskVars>>

TeardownStep ==
  /\ stage = "teardown" /\ Pool!StopClosesOne
  /\ UNCHANGED <<amainVars, clientVars, taskVars>>

ExitAtOnce ==  \* mutant: teardown() is not awaited
  /\ stage = "teardown" /\ stage' = "exited"
  /\ UNCHANGED <<poolVars, signalled, beating, notifier, clientVars, taskVars>>

\* The loop ends with amain; what has not finished never will
Exit ==
  /\ stage = "teardown" /\ phase = "stopped" /\ stage' = "exited"
  /\ UNCHANGED <<poolVars, signalled, beating, notifier, clientVars, taskVars>>

-----------------------------------------------------------------------------
(* Clients *)

Connect(c) ==
  /\ listening /\ session[c] = "none" /\ task[c] = "none"
  /\ session' = [session EXCEPT ![c] = "accepted"]
  /\ UNCHANGED <<poolVars, amainVars, listening, mute, children, gathered, taskVars>>

\* A connection that was accepted before close() still gets its handler
Spawn(c) ==
  /\ session[c] = "accepted"
  /\ session' = [session EXCEPT ![c] = "serving"] /\ children' = children \cup {c}
  /\ UNCHANGED <<poolVars, amainVars, listening, mute, gathered, taskVars>>

\* A lookup or a write failed.  The sender cancels what is queued, not the lookup for
\* which the handler awaits room; the handler reads on and starts further ones
SenderDies(c) ==
  /\ session[c] \in {"serving", "cancelled"} /\ c \notin mute
  /\ mute' = mute \cup {c}
  /\ task' \in {task, Cancelled(c)} /\ astray' = StillAstray
  /\ UNCHANGED <<poolVars, amainVars, listening, session, children, gathered>>

HandlerMayEnd(c) ==
  session[c] = "cancelled" \/ (session[c] = "serving" /\ (c \in mute \/ task[c] = "none"))

\* Only a cancelled handler leaves a sender at work
Ended(c) ==
  [session EXCEPT ![c] = IF @ = "cancelled" /\ c \notin mute THEN "abandoned" ELSE "none"]

HandlerEndsStaysChild(c) ==  \* mutant: no done callback
  /\ HandlerMayEnd(c)
  /\ session' = Ended(c) /\ mute' = mute \ {c}
  /\ UNCHANGED task
  /\ astray' = IF session'[c] = "none" THEN LeftAlone(c) ELSE astray
  /\ UNCHANGED <<poolVars, amainVars, listening, children, gathered>>

\* A handler whose client left awaits its sender, which has answered all lookups or is
\* dead; one that was cancelled awaits nothing.  A dead sender ends no lookup
HandlerEnds(c) ==
  /\ HandlerMayEnd(c)
  /\ session' = Ended(c) /\ mute' = mute \ {c} /\ children' = children \ {c}
  /\ UNCHANGED task
  /\ astray' = IF session'[c] = "none" THEN LeftAlone(c) ELSE astray
  /\ UNCHANGED <<poolVars, amainVars, listening, gathered>>

\* The sender it cancelled cancels the lookups and does not await them; the one for
\* which the handler awaited room never got into the queue
SenderEnds(c) ==
  /\ session[c] = "abandoned"
  /\ session' = [session EXCEPT ![c] = "none"]
  /\ task' \in {task, Cancelled(c)} /\ astray' = LeftAlone(c)
  /\ UNCHANGED <<poolVars, amainVars, listening, mute, children, gathered>>

-----------------------------------------------------------------------------
(* Tasks that use the cache *)

\* A lookup starts or goes on; the fetch task scans, or stores what it fetched
Use(t) ==
  /\ \/ task[t] = "live"
     \/ t # Fetch /\ task[t] = "none" /\ session[t] = "serving"
  /\ task' = [task EXCEPT ![t] = "live"]
  /\ Pool!Borrow(t)
  /\ UNCHANGED <<amainVars, clientVars, astray>>

\* A lookup answers, whatever the cache did
Answer(t) ==
  /\ t # Fetch /\ task[t] = "live" /\ pc[t] = "out"
  /\ task' = [task EXCEPT ![t] = "none"] /\ astray' = StillAstray
  /\ UNCHANGED <<poolVars, amainVars, clientVars>>

Work(t) ==
  /\ task[t] = "live"
  /\ \/ Pool!Acquire(t) \/ Pool!Write(t) \/ Pool!Commit(t) \/ Pool!Leave(t)
     \/ Pool!TimesOut(t) \/ Pool!Raise(t) \/ Pool!Closed(t)
     \/ Pool!Replaced(t) \/ Pool!ReplaceFails(t)
  /\ UNCHANGED <<amainVars, clientVars, taskVars>>

\* An error of the cache has left __aexit__, in the fetch task and not in a processor
FetchDies ==
  /\ task[Fetch] = "live"
  /\ Pool!TimesOut(Fetch) \/ Pool!Replaced(Fetch) \/ Pool!ReplaceFails(Fetch)
  /\ task' = [task EXCEPT ![Fetch] = "dead"] /\ astray' = StillAstray
  /\ UNCHANGED <<amainVars, clientVars>>

\* CancelledError at the await where the task is; __aexit__ goes on after it
Deliver(t) ==
  /\ task[t] = "cancelling"
  /\ \/ pc[t] = "out" /\ UNCHANGED poolVars
     \/ Pool!TimesOut(t) \/ Pool!Raise(t) \/ Pool!CloseCancelled(t) \/ Pool!ReplaceFails(t)
     \/ pc[t] = "lastclose" /\ Pool!Closed(t)
  /\ task' = [task EXCEPT ![t] = IF pc'[t] = "out" THEN "none" ELSE "unwinding"]
  /\ UNCHANGED <<amainVars, clientVars, astray>>

GoesOn(t) == task' = [task EXCEPT ![t] = "live"] /\ astray' = LeftAlone(t)

\* It meets the connection that borrow()'s wait_for got, or the answer that resolve()'s
\* did, and the task goes on as if nothing were
Swallow(t) ==
  /\ CancelMayBeLost /\ task[t] = "cancelling"
  /\ Pool!Acquire(t) \/ (pc[t] = "out" /\ UNCHANGED poolVars)
  /\ GoesOn(t)
  /\ UNCHANGED <<amainVars, clientVars>>

Unwind(t) ==
  /\ task[t] = "unwinding"
  /\ Pool!Closed(t) \/ Pool!Replaced(t)
  /\ task' = [task EXCEPT ![t] = IF pc'[t] = "out" THEN "none" ELSE "unwinding"]
  /\ UNCHANGED <<amainVars, clientVars, astray>>

\* What the replacement raises takes the place of CancelledError: process_request and
\* safe_set() catch it and go on, and the fetch task dies of it
UnwindFails(t) ==
  /\ task[t] = "unwinding" /\ Pool!ReplaceFails(t)
  /\ \/ GoesOn(t)
     \/ t = Fetch /\ task' = [task EXCEPT ![t] = "dead"] /\ UNCHANGED astray
  /\ UNCHANGED <<amainVars, clientVars>>

-----------------------------------------------------------------------------
Amain ==
  \/ Wake \/ Gathered \/ Expire \/ Settle \/ FetchStopped \/ TeardownStep \/ Exit

Cancellation(t) == Deliver(t) \/ Swallow(t) \/ Unwind(t) \/ UnwindFails(t)

Startup == PrepareOne \/ SetupFails \/ SetupDone \/ StartFails \/ Serve

Next ==
  /\ ~over
  /\ \/ Startup \/ Amain \/ Signal \/ Writable \/ FetchDies
     \/ \E c \in Clients : \/ Connect(c) \/ Spawn(c) \/ SenderDies(c)
                          \/ HandlerEnds(c) \/ SenderEnds(c)
     \/ \E t \in Tasks : Use(t) \/ Answer(t) \/ Work(t) \/ Cancellation(t)

Spec == Init /\ [][Next]_vars

\* The loop runs what can run, connections' threads answer, timers fire and a cancelled
\* handler ends (Connection's StopCloses).  Clients may stay and ask for ever.
CancelledEnds(c) == session[c] = "cancelled" /\ HandlerEnds(c)

Fairness ==
  /\ WF_vars(~over /\ Amain)
  /\ \A c \in Clients : WF_vars(~over /\ (Spawn(c) \/ CancelledEnds(c) \/ SenderEnds(c)))
  /\ \A t \in Tasks : WF_vars(~over /\ Cancellation(t))

FairSpec == Spec /\ Fairness

-----------------------------------------------------------------------------
(* Properties *)

\* While and after the cache is torn down no handler is left, not even of a connection
\* accepted at the last moment, and the fetcher and the lookups are at most putting away
\* a connection.  What may still be at work is what nobody ends: lookups started after
\* their sender died, or awaiting room in the queue when their handler was cancelled, or
\* whose cancellation was lost.
QuietTeardown ==
  stage \in {"teardown", "exited"} =>
    /\ \A c \in Clients : session[c] = "none"
    /\ Fetch \notin astray
    /\ \A t \in Tasks \ astray : /\ task[t] \in {"none", "unwinding"}
                                 /\ pc[t] \in {"out", "close", "lastclose", "open"}

\* stop() does not lose sight of a handler: it is in _children or in what is gathered.
HandlersKnown ==
  \A c \in Clients : session[c] \in {"serving", "cancelled"} => c \in children \cup gathered

\* When the daemon returns, the connections of the pool, whose threads would keep the
\* process alive, are closed or being closed, but for those in the hands of lookups that
\* nobody ended and replacements of broken ones that were under way.
ConnectionsClosed ==
  stage = "exited" =>
    \A c \in open : \/ c \in late
                   \/ \E t \in Tasks : held[t] = c /\ (task[t] = "unwinding" \/ t \in astray)

\* A full socket of systemd makes neither put() nor join() wait, and leaves no callback
\* on a closed socket.
NotifierQuiet ==
  /\ notifier.queue = <<>> /\ notifier.unfinished = 0
  /\ ~notifier.started => ~notifier.monitor

\* "Got first exit signal! Terminating gracefully.": amain gets to its end, though clients
\* stay connected and the loop may have no event but the heartbeat.  Only a fetch task
\* that died of the database has it raise, and only one that goes on in spite of being
\* cancelled keeps it waiting.
SignalEnds ==
  signalled ~> \/ stage \in {"exited", "killed"}
               \/ stage = "crashed" /\ task[Fetch] = "dead"
               \/ Fetch \in astray
=============================================================================
