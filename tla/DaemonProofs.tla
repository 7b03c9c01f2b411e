---------------------------- MODULE DaemonProofs ----------------------------
(***************************************************************************)
(* Proofs about Daemon for any clients, threads and connections, whatever  *)
(* fails and whichever signals and cancellations come.                     *)
(***************************************************************************)
EXTENDS Daemon, FiniteSetTheorems, TLAPS

USE DEF taskVars

Closing == {"close", "lastclose", "open"}

\* What the proofs need of the types
Types ==
  /\ DOMAIN pc = Tasks /\ pc = [t \in Tasks |-> pc[t]]
  /\ task \in [Tasks -> {"none", "live", "dead", "cancelling", "unwinding"}]
  /\ session \in [Clients -> {"none", "accepted", "serving", "cancelled", "abandoned"}]
  /\ children \subseteq {c \in Clients : session[c] = "serving"}
  /\ gathered \subseteq Clients
  /\ mute \subseteq {c \in Clients : session[c] \in {"serving", "cancelled"}}
  /\ astray \subseteq {t \in Tasks : task[t] = "live"}

\* Where a task that is not at work may be
TaskPlaces ==
  \A t \in Tasks : /\ task[t] \in {"none", "dead"} => pc[t] = "out"
                   /\ task[t] = "unwinding" => pc[t] \in Closing
                   /\ task[t] = "dead" => t = Fetch

\* A lookup at work has its session, or is left to itself
LookupOwned ==
  \A c \in Clients :
    task[c] = "live" => c \in astray \/ session[c] \in {"serving", "cancelled", "abandoned"}

\* Whom stop() gathered came before, and it settles when they are over
Stages ==
  /\ stage \in {"setup", "start"} =>
       ~signalled /\ \A c \in Clients : session[c] = "none"
  /\ listening => stage \in {"wait", "killed"}
  /\ stage \in {"setup", "start", "wait"} => gathered = {}
  /\ children \cap gathered = {} /\ \A c \in gathered : session[c] # "accepted"
  /\ stage = "settle" => AllOver
  /\ \A c \in Clients : session[c] = "cancelled" => c \in gathered

\* From the fetcher's stop() on there are no sessions and no lookups at work but such
NoClients ==
  stage \in {"fetchstop", "teardown", "exited"} =>
    \A c \in Clients : /\ session[c] = "none"
                       /\ c \in astray \/ task[c] \in {"none", "unwinding"}

NoFetch == stage \in {"teardown", "exited"} => task[Fetch] = "none"

Inv ==
  Types /\ TaskPlaces /\ LookupOwned /\ HandlersKnown /\ Stages /\ NoClients /\ NoFetch

Clientele(c) ==
  Connect(c) \/ Spawn(c) \/ SenderDies(c) \/ HandlerEnds(c) \/ SenderEnds(c)

TaskStep(t) ==
  \/ Use(t) \/ Answer(t) \/ Work(t)
  \/ Deliver(t) \/ Swallow(t) \/ Unwind(t) \/ UnwindFails(t)

LEMMA StepCases ==
  ASSUME [Next]_vars
  PROVE  \/ UNCHANGED vars
         \/ Startup \/ Amain \/ Signal \/ Writable \/ FetchDies
         \/ \E c \in Clients : Clientele(c)
         \/ \E t \in Tasks : TaskStep(t)
BY DEF Next, Clientele, TaskStep, Cancellation

\* A step of a borrower moves only that borrower
Moves(t) == \E place : pc' = [pc EXCEPT ![t] = place]

LEMMA BorrowerMoves ==
  ASSUME NEW t \in Tasks, TaskStep(t) \/ (t = Fetch /\ FetchDies)
  PROVE  pc' = pc \/ Moves(t)
<1>. USE DEF Moves, Pool!Goto
<1>1. CASE Use(t)
  BY <1>1 DEF Use, Pool!Borrow
<1>2. CASE Answer(t)
  BY <1>2 DEF Answer, poolVars
<1>3. CASE Work(t)
  BY <1>3 DEF Work, Pool!Acquire, Pool!Write, Pool!Commit, Pool!Leave, Pool!TimesOut,
              Pool!Raise, Pool!Closed, Pool!Replaced, Pool!ReplaceFails
<1>4. CASE Deliver(t)
  BY <1>4 DEF Deliver, poolVars, Pool!TimesOut, Pool!Raise, Pool!CloseCancelled,
              Pool!ReplaceFails, Pool!Closed
<1>5. CASE Swallow(t)
  BY <1>5 DEF Swallow, poolVars, Pool!Acquire
<1>6. CASE Unwind(t) \/ UnwindFails(t)
  BY <1>6 DEF Unwind, UnwindFails, Pool!Closed, Pool!Replaced, Pool!ReplaceFails
<1>7. CASE t = Fetch /\ FetchDies
  BY <1>7 DEF FetchDies, Pool!TimesOut, Pool!Replaced, Pool!ReplaceFails
<1>. QED BY <1>1, <1>2, <1>3, <1>4, <1>5, <1>6, <1>7 DEF TaskStep

\* The steps of amain and of the clients move no borrower
LEMMA OthersMoveNone ==
  ASSUME \/ UNCHANGED vars \/ Startup \/ Amain \/ Signal \/ Writable
         \/ \E c \in Clients : Clientele(c)
  PROVE  pc' = pc
<1>1. CASE UNCHANGED vars
  BY <1>1 DEF vars, poolVars
<1>2. CASE Startup
  BY <1>2 DEF Startup, PrepareOne, SetupFails, SetupDone, StartFails, Serve, poolVars,
              Pool!PrepareOne, Pool!PrepareFails
<1>3. CASE Amain
  BY <1>3 DEF Amain, Wake, Gathered, Expire, Settle, FetchStopped, TeardownStep, Exit,
              poolVars, Pool!Stop, Pool!StopClosesOne
<1>4. CASE Signal \/ Writable
  BY <1>4 DEF Signal, Writable, poolVars
<1>5. CASE \E c \in Clients : Clientele(c)
  BY <1>5 DEF Clientele, Connect, Spawn, SenderDies, HandlerEnds, SenderEnds, poolVars
<1>. QED BY <1>1, <1>2, <1>3, <1>4, <1>5

-----------------------------------------------------------------------------

LEMMA InitInv == Init => Inv
<1> SUFFICES ASSUME Init PROVE Inv
  OBVIOUS
<1>. USE DEF Init, Pool!Init
<1>1. Types
  BY DEF Types
<1>2. TaskPlaces /\ LookupOwned /\ HandlersKnown /\ Stages /\ NoClients /\ NoFetch
  BY FetchAssumption
  DEF TaskPlaces, LookupOwned, HandlersKnown, Stages, NoClients, NoFetch, AllOver, Tasks
<1>. QED BY <1>1, <1>2 DEF Inv

\* What the steps of amain and of the clients do to the tasks: they start the fetch
\* task or cancel one
LEMMA TaskChange ==
  ASSUME \/ UNCHANGED vars \/ Startup \/ Amain \/ Signal \/ Writable
         \/ \E c \in Clients : Clientele(c)
  PROVE  \/ task' = task
         \/ task' = [task EXCEPT ![Fetch] = "live"] /\ Serve
         \/ \E t \in Tasks : task[t] = "live" /\ task' = [task EXCEPT ![t] = "cancelling"]
<1>. USE DEF Cancelled
<1>1. CASE UNCHANGED vars
  BY <1>1 DEF vars
<1>2. CASE Startup
  BY <1>2 DEF Startup, PrepareOne, SetupFails, SetupDone, StartFails, Serve
<1>3. CASE Amain
  BY <1>3 DEF Amain, Wake, Gathered, Expire, Settle, FetchStopped, TeardownStep, Exit, Tasks
<1>4. CASE Signal \/ Writable
  BY <1>4 DEF Signal, Writable
<1>5. CASE \E c \in Clients : Clientele(c)
  BY <1>5 DEF Clientele, Connect, Spawn, SenderDies, HandlerEnds, SenderEnds, Tasks
<1>. QED BY <1>1, <1>2, <1>3, <1>4, <1>5

\* A task left to itself stays so as long as it works
LEMMA AstrayStays ==
  ASSUME [Next]_vars, NEW t \in astray, task'[t] = "live"
  PROVE  t \in astray'
<1>1. UNCHANGED astray \/ StillAstray \subseteq astray'
  BY StepCases, Zenon
  DEF vars, Startup, PrepareOne, SetupFails, SetupDone, StartFails, Serve, Amain, Wake, Gathered,
      Expire, Settle, FetchStopped, TeardownStep, Exit, Signal, Writable, Clientele, Connect,
      Spawn, SenderDies, HandlerEnds, SenderEnds, FetchDies, TaskStep, Use, Answer, Work, Deliver,
      Swallow, Unwind, UnwindFails, GoesOn, LeftAlone
<1>. QED BY <1>1 DEF StillAstray

\* Only tasks at work are left to themselves
LEMMA AstrayWork ==
  ASSUME Types, [Next]_vars
  PROVE  astray' \subseteq {t \in Tasks : task'[t] = "live"}
<1>. USE DEF StillAstray, LeftAlone, Types
<1>1. ASSUME UNCHANGED astray, NEW t \in Tasks, task[t] # "live",
             \E state : task' = [task EXCEPT ![t] = state]
      PROVE  astray' \subseteq {u \in Tasks : task'[u] = "live"}
  BY <1>1
<1>2. CASE UNCHANGED taskVars
  BY <1>2
<1>3. ASSUME astray' = StillAstray PROVE astray' \subseteq {t \in Tasks : task'[t] = "live"}
  BY <1>3
<1>4. ASSUME NEW t \in Tasks, astray' = LeftAlone(t)
      PROVE  astray' \subseteq {u \in Tasks : task'[u] = "live"}
  BY <1>4
<1>5. CASE Startup \/ Amain
  <2>1. UNCHANGED taskVars \/ astray' = StillAstray \/ Serve
    BY <1>5 DEF Startup, PrepareOne, SetupFails, SetupDone, StartFails, Amain, Wake, Gathered,
                Expire, Settle, FetchStopped, TeardownStep, Exit
  <2>2. CASE Serve
    BY <2>2 DEF Serve
  <2>. QED BY <1>2, <1>3, <2>1, <2>2
<1>6. CASE UNCHANGED vars \/ Signal \/ Writable \/ FetchDies
  BY <1>2, <1>3, <1>6 DEF vars, Signal, Writable, FetchDies
<1>7. ASSUME NEW c \in Clients, Clientele(c)
      PROVE  astray' \subseteq {t \in Tasks : task'[t] = "live"}
  <2>1. CASE Connect(c) \/ Spawn(c)
    BY <1>2, <2>1 DEF Connect, Spawn
  <2>2. CASE SenderDies(c)
    BY <1>3, <2>2 DEF SenderDies
  <2>3. CASE HandlerEnds(c) \/ SenderEnds(c)
    BY <1>2, <1>4, <2>3 DEF HandlerEnds, SenderEnds, Tasks
  <2>. QED BY <1>7, <2>1, <2>2, <2>3 DEF Clientele
<1>8. ASSUME NEW t \in Tasks, TaskStep(t)
      PROVE  astray' \subseteq {u \in Tasks : task'[u] = "live"}
  <2>1. CASE Use(t)
    BY <2>1 DEF Use
  <2>2. CASE Answer(t) \/ Work(t)
    BY <1>2, <1>3, <2>2 DEF Answer, Work
  <2>3. CASE Deliver(t) \/ Unwind(t)
    BY <1>1, <2>3 DEF Deliver, Unwind
  <2>4. CASE Swallow(t)
    BY <1>4, <2>4 DEF Swallow, GoesOn
  <2>5. CASE UnwindFails(t)
    BY <1>1, <1>4, <2>5 DEF UnwindFails, GoesOn
  <2>. QED BY <1>8, <2>1, <2>2, <2>3, <2>4, <2>5 DEF TaskStep
<1>. QED BY <1>5, <1>6, <1>7, <1>8, StepCases

LEMMA TypesStep == ASSUME Inv, [Next]_vars PROVE Types'
<1>0. Types /\ HandlersKnown
  BY DEF Inv
<1>1. (DOMAIN pc = Tasks /\ pc = [t \in Tasks |-> pc[t]])'
  <2>1. pc' = pc \/ \E t \in Tasks : Moves(t)
    BY StepCases, OthersMoveNone, BorrowerMoves DEF Tasks
  <2>. QED BY <1>0, <2>1 DEF Moves, Types
<1>2. (task \in [Tasks -> {"none", "live", "dead", "cancelling", "unwinding"}])'
  <2>. USE <1>0 DEF Types
  <2>1. CASE \/ UNCHANGED vars \/ Startup \/ Amain \/ Signal \/ Writable
             \/ \E c \in Clients : Clientele(c)
    BY <2>1, TaskChange DEF Tasks
  <2>2. CASE FetchDies
    BY <2>2 DEF FetchDies
  <2>3. ASSUME NEW t \in Tasks, TaskStep(t)
        PROVE  task' \in [Tasks -> {"none", "live", "dead", "cancelling", "unwinding"}]
    BY <2>3 DEF TaskStep, Use, Answer, Work, Deliver, Swallow, Unwind, UnwindFails, GoesOn
  <2>. QED BY <2>1, <2>2, <2>3, StepCases
<1>3. (/\ session \in [Clients -> {"none", "accepted", "serving", "cancelled", "abandoned"}]
       /\ children \subseteq {c \in Clients : session[c] = "serving"}
       /\ gathered \subseteq Clients)'
  <2>. USE <1>0 DEF Types
  <2>1. CASE UNCHANGED <<session, children, gathered>>
    BY <2>1
  <2>2. CASE Wake
    BY <2>2 DEF Wake, GatherAll
  <2>3. CASE Expire
    <3>1. children \cap gathered = {}
      BY DEF Inv, Stages
    <3>. QED BY <2>3, <3>1 DEF Expire
  <2>4. CASE Settle
    BY <2>4 DEF Settle, GatherAll
  <2>5. ASSUME NEW c \in Clients, Clientele(c)
        PROVE  /\ session' \in [Clients -> {"none", "accepted", "serving", "cancelled",
                                            "abandoned"}]
               /\ children' \subseteq {d \in Clients : session'[d] = "serving"}
               /\ gathered' \subseteq Clients
    BY <2>5 DEF Clientele, Connect, Spawn, SenderDies, HandlerEnds, SenderEnds, Ended
  <2>6. CASE Startup \/ Signal \/ Writable \/ FetchDies \/ UNCHANGED vars
    BY <2>6, <2>1 DEF Startup, PrepareOne, SetupFails, SetupDone, StartFails, Serve, Signal,
                      Writable, FetchDies, vars, clientVars
  <2>7. CASE Gathered \/ FetchStopped \/ TeardownStep \/ Exit
    BY <2>7, <2>1 DEF Gathered, FetchStopped, TeardownStep, Exit, clientVars
  <2>8. ASSUME NEW t \in Tasks, TaskStep(t)
        PROVE  UNCHANGED <<session, children, gathered>>
    BY <2>8 DEF TaskStep, Use, Answer, Work, Deliver, Swallow, Unwind, UnwindFails, GoesOn, clientVars
  <2>. QED BY <2>1, <2>2, <2>3, <2>4, <2>5, <2>6, <2>7, <2>8, StepCases DEF Amain
<1>4. (mute \subseteq {c \in Clients : session[c] \in {"serving", "cancelled"}})'
  <2>. USE <1>0 DEF Types
  <2>1. CASE UNCHANGED <<session, mute>>
    BY <2>1
  <2>2. CASE Expire
    BY <2>2 DEF Expire
  <2>3. ASSUME NEW c \in Clients, Clientele(c)
        PROVE  mute' \subseteq {d \in Clients : session'[d] \in {"serving", "cancelled"}}
    BY <2>3 DEF Clientele, Connect, Spawn, SenderDies, HandlerEnds, SenderEnds, Ended
  <2>4. CASE Startup \/ Signal \/ Writable \/ FetchDies \/ UNCHANGED vars
    BY <2>4, <2>1 DEF Startup, PrepareOne, SetupFails, SetupDone, StartFails, Serve, Signal,
                      Writable, FetchDies, vars, clientVars
  <2>5. CASE Amain /\ ~Expire
    BY <2>5, <2>1 DEF Amain, Wake, Gathered, Settle, FetchStopped, TeardownStep, Exit, clientVars
  <2>6. ASSUME NEW t \in Tasks, TaskStep(t) PROVE UNCHANGED <<session, mute>>
    BY <2>6 DEF TaskStep, Use, Answer, Work, Deliver, Swallow, Unwind, UnwindFails, clientVars
  <2>. QED BY <2>1, <2>2, <2>3, <2>4, <2>5, <2>6, StepCases
<1>. QED BY <1>0, <1>1, <1>2, <1>3, <1>4, AstrayWork DEF Types

LEMMA TaskPlacesStep == ASSUME Inv, [Next]_vars PROVE TaskPlaces'
<1>. USE DEF TaskPlaces, Closing
<1>0. Types /\ TaskPlaces
  BY DEF Inv
<1>1. CASE \/ UNCHANGED vars \/ Startup \/ Amain \/ Signal \/ Writable
           \/ \E c \in Clients : Clientele(c)
  <2>1. pc' = pc
    BY <1>1, OthersMoveNone
  <2>2. \A t \in Tasks : task'[t] = task[t] \/ task'[t] \in {"live", "cancelling"}
    BY <1>0, <1>1, TaskChange DEF Types
  <2>. QED BY <1>0, <2>1, <2>2
<1>2. ASSUME NEW t \in Tasks,
             \/ task' = [task EXCEPT ![t] = IF pc'[t] = "out" THEN "none" ELSE "unwinding"]
                /\ pc'[t] \in Closing \cup {"out"}
             \/ task' = [task EXCEPT ![t] = "live"]
             \/ task' = [task EXCEPT ![t] = "none"] /\ pc'[t] = "out"
             \/ task' = [task EXCEPT ![t] = "dead"] /\ pc'[t] = "out" /\ t = Fetch
             \/ task' = task /\ task[t] = "live",
             pc' = pc \/ Moves(t)
      PROVE  TaskPlaces'
  <2> SUFFICES ASSUME NEW u \in Tasks
               PROVE  /\ task'[u] \in {"none", "dead"} => pc'[u] = "out"
                      /\ task'[u] = "unwinding" => pc'[u] \in Closing
                      /\ task'[u] = "dead" => u = Fetch
    OBVIOUS
  <2>1. CASE u # t
    <3>1. task'[u] = task[u] /\ pc'[u] = pc[u]
      BY <1>0, <1>2, <2>1 DEF Types, Moves
    <3>. QED BY <1>0, <3>1
  <2>2. CASE u = t
    BY <1>0, <1>2, <2>2 DEF Types
  <2>. QED BY <2>1, <2>2
<1>3. ASSUME NEW t \in Tasks, TaskStep(t) PROVE TaskPlaces'
  <2>0. pc' = pc \/ Moves(t)
    BY <1>3, BorrowerMoves
  <2>1. CASE Use(t) \/ Swallow(t)
    BY <1>2, <2>0, <2>1 DEF Use, Swallow, GoesOn
  <2>2. CASE Answer(t)
    BY <1>2, <2>0, <2>2 DEF Answer, poolVars
  <2>3. CASE Work(t)
    BY <1>2, <2>0, <2>3 DEF Work
  <2>4. CASE Deliver(t)
    <3>1. pc'[t] \in Closing \cup {"out"}
      BY <1>0, <2>4
      DEF Deliver, poolVars, Types, Pool!TimesOut, Pool!Raise, Pool!CloseCancelled,
          Pool!ReplaceFails, Pool!Closed, Pool!Goto
    <3>. QED BY <1>2, <2>0, <2>4, <3>1 DEF Deliver
  <2>5. CASE Unwind(t)
    <3>1. pc'[t] \in Closing \cup {"out"}
      BY <1>0, <2>5
      DEF Unwind, Types, Pool!Closed, Pool!Replaced, Pool!ReplaceFails, Pool!Goto
    <3>. QED BY <1>2, <2>0, <2>5, <3>1 DEF Unwind
  <2>6. CASE UnwindFails(t)
    <3>1. pc'[t] = "out"
      BY <1>0, <2>6 DEF UnwindFails, Types, Pool!ReplaceFails, Pool!Goto
    <3>. QED BY <1>2, <2>0, <2>6, <3>1 DEF UnwindFails, GoesOn
  <2>. QED BY <1>3, <2>1, <2>2, <2>3, <2>4, <2>5, <2>6 DEF TaskStep
<1>4. CASE FetchDies
  <2>1. Fetch \in Tasks /\ (pc' = pc \/ Moves(Fetch))
    BY <1>4, BorrowerMoves DEF Tasks
  <2>2. pc'[Fetch] = "out"
    BY <1>0, <1>4, <2>1
    DEF FetchDies, Types, Pool!TimesOut, Pool!Replaced, Pool!ReplaceFails, Pool!Goto
  <2>. QED BY <1>2, <1>4, <2>1, <2>2 DEF FetchDies
<1>. QED BY <1>1, <1>3, <1>4, StepCases

LEMMA LookupOwnedStep == ASSUME Inv, [Next]_vars PROVE LookupOwned'
<1>0. Types /\ LookupOwned /\ Stages
  BY DEF Inv
<1>1. SUFFICES ASSUME NEW c \in Clients, task'[c] = "live", c \notin astray'
               PROVE  session'[c] \in {"serving", "cancelled", "abandoned"}
  BY DEF LookupOwned
<1>. c \in Tasks /\ c # Fetch
  BY FetchAssumption DEF Tasks
<1>2. CASE \/ UNCHANGED vars \/ Startup \/ Amain \/ Signal \/ Writable
           \/ \E d \in Clients : Clientele(d)
  <2>1. task[c] = "live"
    BY <1>0, <1>1, <1>2, TaskChange DEF Types
  <2>2. c \notin astray
    BY <1>1, AstrayStays
  <2>3. session[c] \in {"serving", "cancelled", "abandoned"}
    BY <1>0, <2>1, <2>2 DEF LookupOwned
  <2>4. CASE UNCHANGED session
    BY <2>3, <2>4
  <2>5. CASE Expire
    BY <2>3, <2>5 DEF Expire
  <2>6. ASSUME NEW d \in Clients, Clientele(d)
        PROVE  session'[c] \in {"serving", "cancelled", "abandoned"}
    <3>1. CASE d # c
      BY <1>0, <2>3, <2>6, <3>1
      DEF Clientele, Connect, Spawn, SenderDies, HandlerEnds, SenderEnds, Ended, Types
    <3>2. CASE d = c
      <4>1. CASE Connect(c) \/ Spawn(c) \/ SenderDies(c)
        BY <1>0, <2>3, <4>1 DEF Connect, Spawn, SenderDies, Types
      <4>2. CASE HandlerEnds(c)
        <5>1. session'[c] # "none"
          BY <1>1, <4>2 DEF HandlerEnds, LeftAlone
        <5>. QED BY <1>0, <4>2, <5>1 DEF HandlerEnds, Ended, Types
      <4>3. CASE SenderEnds(c)
        BY <1>1, <4>3 DEF SenderEnds, LeftAlone
      <4>. QED BY <2>6, <3>2, <4>1, <4>2, <4>3 DEF Clientele
    <3>. QED BY <3>1, <3>2
  <2>. QED
    BY <1>2, <2>4, <2>5, <2>6
    DEF vars, clientVars, Startup, PrepareOne, SetupFails, SetupDone, StartFails, Serve,
        Amain, Wake, Gathered, Settle, FetchStopped, TeardownStep, Exit, Signal, Writable
<1>3. CASE FetchDies
  BY <1>0, <1>1, <1>3, AstrayStays DEF FetchDies, LookupOwned, Types, clientVars
<1>4. ASSUME NEW t \in Tasks, TaskStep(t)
      PROVE  session'[c] \in {"serving", "cancelled", "abandoned"}
  <2>1. session' = session
    BY <1>4 DEF TaskStep, Use, Answer, Work, Deliver, Swallow, Unwind, UnwindFails, GoesOn, clientVars
  <2>2. CASE GoesOn(t)
    <3>1. t # c
      BY <1>1, <2>2 DEF GoesOn, LeftAlone
    <3>2. task[c] = "live"
      BY <1>0, <1>1, <2>2, <3>1 DEF GoesOn, Types
    <3>. QED BY <1>0, <1>1, <2>1, <3>2, AstrayStays DEF LookupOwned
  <2>3. CASE ~GoesOn(t)
    <3>1. task[c] = "live" \/ session[c] = "serving"
      BY <1>0, <1>1, <1>4, <2>3
      DEF TaskStep, Use, Answer, Work, Deliver, Swallow, Unwind, UnwindFails, Types
    <3>. QED BY <1>0, <1>1, <2>1, <3>1, AstrayStays DEF LookupOwned
  <2>. QED BY <2>2, <2>3
<1>. QED BY <1>2, <1>3, <1>4, StepCases

\* The steps that touch neither amain's stage nor the clients
LEMMA Elsewhere ==
  ASSUME \/ UNCHANGED vars \/ Writable \/ PrepareOne \/ TeardownStep \/ FetchDies
         \/ \E t \in Tasks : TaskStep(t)
  PROVE  UNCHANGED <<stage, signalled, listening, session, children, gathered>>
BY DEF vars, amainVars, clientVars, Writable, PrepareOne, TeardownStep, FetchDies, TaskStep,
       Use, Answer, Work, Deliver, Swallow, Unwind, UnwindFails, GoesOn

LEMMA Steps ==
  ASSUME [Next]_vars
  PROVE  \/ UNCHANGED <<stage, signalled, listening, session, children, gathered>>
         \/ SetupFails \/ SetupDone \/ StartFails \/ Serve \/ Signal
         \/ Wake \/ Gathered \/ Expire \/ Settle \/ FetchStopped \/ Exit
         \/ ~over /\ \E c \in Clients : Clientele(c)
<1>1. CASE UNCHANGED vars
  BY <1>1, Elsewhere
<1>2. CASE Next
  BY <1>2, Elsewhere DEF Next, Startup, Amain, Clientele, TaskStep, Cancellation
<1>. QED BY <1>1, <1>2

LEMMA HandlersKnownStep == ASSUME Inv, [Next]_vars PROVE HandlersKnown'
<1>0. Types /\ HandlersKnown /\ Stages
  BY DEF Inv
<1>. USE DEF HandlersKnown
<1>1. CASE UNCHANGED <<stage, signalled, listening, session, children, gathered>>
  BY <1>0, <1>1
<1>2. CASE SetupFails \/ SetupDone \/ StartFails \/ Serve \/ Signal
           \/ Gathered \/ FetchStopped \/ Exit
  BY <1>0, <1>2 DEF SetupFails, SetupDone, StartFails, Serve, Signal, Gathered,
                    FetchStopped, Exit, clientVars
<1>3. CASE Wake
  BY <1>0, <1>3 DEF Wake, GatherAll, Stages
<1>4. CASE Expire
  BY <1>0, <1>4 DEF Expire
<1>5. CASE Settle
  BY <1>0, <1>5 DEF Settle, GatherAll, Stages, AllOver
<1>6. ASSUME NEW c \in Clients, Clientele(c) PROVE HandlersKnown'
  BY <1>0, <1>6 DEF Clientele, Connect, Spawn, SenderDies, HandlerEnds, SenderEnds, Ended, Types, clientVars
<1>. QED BY <1>1, <1>2, <1>3, <1>4, <1>5, <1>6, Steps

LEMMA StagesStep == ASSUME Inv, [Next]_vars PROVE Stages'
<1>0. Types /\ HandlersKnown /\ Stages
  BY DEF Inv
<1>. USE DEF Stages, AllOver
<1>1. CASE UNCHANGED <<stage, signalled, listening, session, children, gathered>>
  BY <1>0, <1>1
<1>2. CASE SetupFails \/ SetupDone \/ StartFails \/ Serve \/ Signal
  BY <1>0, <1>2 DEF SetupFails, SetupDone, StartFails, Serve, Signal, clientVars
<1>3. CASE Gathered \/ FetchStopped \/ Exit
  BY <1>0, <1>3 DEF Gathered, FetchStopped, Exit, clientVars
<1>4. CASE Wake
  BY <1>0, <1>4 DEF Wake, GatherAll, Types
<1>5. CASE Expire
  BY <1>0, <1>5 DEF Expire, Types
<1>6. CASE Settle
  BY <1>0, <1>6 DEF Settle, GatherAll, Types
<1>7. ASSUME ~over, NEW c \in Clients, Clientele(c) PROVE Stages'
  <2>1. CASE Connect(c)
    <3>1. stage = "wait" /\ gathered = {}
      BY <1>0, <1>7, <2>1 DEF Connect, over
    <3>. QED BY <1>0, <2>1, <3>1 DEF Connect, Types, amainVars
  <2>2. CASE Spawn(c)
    BY <1>0, <2>2 DEF Spawn, Types, amainVars
  <2>3. CASE HandlerEnds(c)
    BY <1>0, <2>3 DEF HandlerEnds, Ended, Types, amainVars
  <2>4. CASE SenderEnds(c)
    BY <1>0, <2>4 DEF SenderEnds, Types, clientVars, amainVars
  <2>5. CASE SenderDies(c)
    BY <1>0, <2>5 DEF SenderDies, amainVars
  <2>. QED BY <1>7, <2>1, <2>2, <2>3, <2>4, <2>5 DEF Clientele
<1>. QED BY <1>1, <1>2, <1>3, <1>4, <1>5, <1>6, <1>7, Steps

\* A lookup without a session is over, puts away a connection or is left to itself
LEMMA Idle ==
  ASSUME Inv, [Next]_vars, NEW c \in Clients, session[c] = "none",
         c \in astray \/ task[c] \in {"none", "unwinding"}
  PROVE  c \in astray' \/ task'[c] \in {"none", "unwinding"}
<1>0. Types /\ c \in Tasks /\ c # Fetch /\ task[c] \in {"none", "unwinding", "live"}
  BY FetchAssumption DEF Inv, Types, Tasks
<1>. SUFFICES ASSUME c \notin astray' PROVE task'[c] \in {"none", "unwinding"}
  OBVIOUS
<1>1. task[c] = "live" => task'[c] # "live"
  BY AstrayStays
<1>2. CASE \/ UNCHANGED vars \/ Startup \/ Amain \/ Signal \/ Writable
           \/ \E d \in Clients : Clientele(d)
  <2>1. task'[c] = task[c]
    <3>1. \/ task' = task \/ \E t \in Tasks \ {c} : \E v : task' = [task EXCEPT ![t] = v]
      BY <1>0, <1>2
      DEF vars, Startup, PrepareOne, SetupFails, SetupDone, StartFails, Serve, Amain, Wake,
          Gathered, Expire, Settle, FetchStopped, TeardownStep, Exit, Signal, Writable, Clientele,
          Connect, Spawn, SenderDies, HandlerEnds, SenderEnds, Cancelled, Tasks
    <3>. QED BY <1>0, <3>1 DEF Types
  <2>. QED BY <1>0, <1>1, <2>1
<1>3. CASE FetchDies
  BY <1>0, <1>1, <1>3 DEF FetchDies, Types
<1>4. ASSUME NEW t \in Tasks, TaskStep(t) PROVE task'[c] \in {"none", "unwinding"}
  <2>1. CASE t = c
    BY <1>0, <1>1, <1>4, <2>1
    DEF TaskStep, Use, Answer, Work, Deliver, Swallow, Unwind, UnwindFails, GoesOn, LeftAlone, Types
  <2>2. CASE t # c
    BY <1>0, <1>1, <1>4, <2>2
    DEF TaskStep, Use, Answer, Work, Deliver, Swallow, Unwind, UnwindFails, GoesOn, Types
  <2>. QED BY <2>1, <2>2
<1>. QED BY <1>2, <1>3, <1>4, StepCases

Closed == {"fetchstop", "teardown", "exited"}

LEMMA NoClientsStep == ASSUME Inv, [Next]_vars PROVE NoClients'
<1>0. Types /\ HandlersKnown /\ LookupOwned /\ TaskPlaces /\ Stages /\ NoClients
  BY DEF Inv
<1>1. SUFFICES ASSUME stage' \in Closed, NEW c \in Clients
               PROVE  session'[c] = "none" /\ (c \in astray' \/ task'[c] \in {"none", "unwinding"})
  BY DEF NoClients, Closed
<1>. c \in Tasks /\ c # Fetch
  BY FetchAssumption DEF Tasks
<1>2. CASE stage \in Closed
  <2>1. session[c] = "none" /\ (c \in astray \/ task[c] \in {"none", "unwinding"})
    BY <1>0, <1>2 DEF NoClients, Closed
  <2>2. c \in astray' \/ task'[c] \in {"none", "unwinding"}
    BY <2>1, Idle
  <2>3. session' = session
    <3>1. UNCHANGED session \/ Expire \/ \E d \in Clients : Clientele(d)
      BY Steps DEF SetupFails, SetupDone, StartFails, Serve, Signal, Wake, Gathered, Settle,
                   FetchStopped, Exit, clientVars
    <3>2. ~Expire
      BY <1>2 DEF Expire, Closed
    <3>3. ASSUME NEW d \in Clients, Clientele(d) PROVE FALSE
      BY <1>0, <1>2, <3>3
      DEF Clientele, Connect, Spawn, SenderDies, HandlerMayEnd, HandlerEnds, SenderEnds,
          NoClients, Stages, Closed
    <3>. QED BY <3>1, <3>2, <3>3
  <2>. QED BY <2>1, <2>2, <2>3
<1>3. CASE stage \notin Closed
  <2>1. Settle /\ children = {}
    BY <1>1, <1>3, Steps
    DEF Closed, SetupFails, SetupDone, StartFails, Serve, Signal, Wake, Gathered, Expire,
        Settle, FetchStopped, Exit, Clientele, Connect, Spawn, SenderDies, HandlerEnds, SenderEnds,
        amainVars
  <2>2. session[c] \in {"none", "serving"} /\ task[c] # "cancelling"
    BY <2>1 DEF Settle
  <2>3. session[c] = "none"
    BY <1>0, <2>1, <2>2 DEF Settle, Stages, AllOver, HandlersKnown
  <2>4. c \in astray \/ task[c] \in {"none", "unwinding"}
    BY <1>0, <2>2, <2>3 DEF LookupOwned, TaskPlaces, Types
  <2>5. session' = session /\ task'[c] = task[c]
    BY <1>0, <2>1 DEF Settle, Cancelled, Types
  <2>6. c \in astray => c \in astray'
    BY <1>0, <2>5, AstrayStays DEF Types
  <2>. QED BY <2>3, <2>4, <2>5, <2>6
<1>. QED BY <1>2, <1>3

LEMMA NoFetchStep == ASSUME Inv, [Next]_vars PROVE NoFetch'
<1>0. Types /\ NoFetch /\ Fetch \in Tasks /\ Fetch \notin Clients
  BY FetchAssumption DEF Inv, Tasks
<1>1. SUFFICES ASSUME stage' \in {"teardown", "exited"}
               PROVE  task'[Fetch] = "none"
  BY DEF NoFetch
<1>2. task[Fetch] = "none" /\ stage # "start" /\ ~Settle
  <2>1. CASE stage \in {"teardown", "exited"}
    BY <1>0, <2>1 DEF NoFetch, Settle
  <2>2. CASE stage \notin {"teardown", "exited"}
    <3>1. FetchStopped
      BY <1>1, <2>2, Steps
      DEF SetupFails, SetupDone, StartFails, Serve, Signal, Wake, Gathered, Expire,
          Settle, FetchStopped, Exit, Clientele, Connect, Spawn, SenderDies, HandlerEnds, SenderEnds,
          amainVars
    <3>. QED BY <1>1, <3>1 DEF FetchStopped, Settle
  <2>. QED BY <2>1, <2>2
<1>3. CASE \/ UNCHANGED vars \/ Startup \/ Amain \/ Signal \/ Writable
           \/ \E d \in Clients : Clientele(d)
  BY <1>0, <1>2, <1>3, TaskChange DEF Types, Serve
<1>4. CASE FetchDies
  BY <1>2, <1>4 DEF FetchDies
<1>5. ASSUME NEW t \in Tasks, TaskStep(t) PROVE task'[Fetch] = "none"
  BY <1>0, <1>2, <1>5
  DEF TaskStep, Use, Answer, Work, Deliver, Swallow, Unwind, UnwindFails, GoesOn, Types
<1>. QED BY <1>3, <1>4, <1>5, StepCases

-----------------------------------------------------------------------------
LEMMA Invariance == Spec => []Inv
<1>1. Inv /\ [Next]_vars => Inv'
  BY TypesStep, TaskPlacesStep, LookupOwnedStep, HandlersKnownStep, StagesStep,
     NoClientsStep, NoFetchStep DEF Inv
<1>. QED BY InitInv, <1>1, PTL DEF Spec

\* stop() of the responder never loses sight of a handler: whatever connects, ends or is
\* cancelled while it waits, a handler at work is in _children or among those it waits for.
THEOREM HandlersKnownHolds == Spec => []HandlersKnown
BY Invariance, PTL DEF Inv

\* amain's order (responder, fetcher, cache) does what it can: while the cache is torn down
\* and after it, no handler is left, the fetcher is done, and every lookup is done, puts
\* away a connection or is one that nobody ends.
THEOREM QuietTeardownHolds == Spec => []QuietTeardown
<1>1. Inv => QuietTeardown
  <2> SUFFICES ASSUME Inv, stage \in {"teardown", "exited"}
               PROVE  /\ \A c \in Clients : session[c] = "none"
                      /\ Fetch \notin astray
                      /\ \A t \in Tasks \ astray :
                           /\ task[t] \in {"none", "unwinding"}
                           /\ pc[t] \in {"out", "close", "lastclose", "open"}
    BY DEF QuietTeardown
  <2>1. \A c \in Clients : session[c] = "none" /\ (c \in astray \/ task[c] \in {"none", "unwinding"})
    BY DEF Inv, NoClients
  <2>2. task[Fetch] = "none" /\ Fetch \notin astray
    BY DEF Inv, NoFetch, Types
  <2>3. \A t \in Tasks \ astray : task[t] \in {"none", "unwinding"}
    BY <2>1, <2>2 DEF Tasks
  <2>. QED BY <2>1, <2>2, <2>3 DEF Inv, TaskPlaces, Closing
<1>. QED BY Invariance, <1>1, PTL

Statuses == {"READY", "STOPPING"}
Records == [started : BOOLEAN, queue : Seq(Statuses), unfinished : Nat, monitor : BOOLEAN]

Rest(n) == n \in Records /\ n.queue = <<>> /\ n.unfinished = 0

\* Sending all, or losing the last message, leaves nothing to send
LEMMA RestOf ==
  ASSUME NEW n \in Records, NEW m, NEW b \in BOOLEAN,
         m = [n EXCEPT !.queue = <<>>, !.unfinished = 0, !.monitor = b]
  PROVE  Rest(m) /\ m.started = n.started
<1>1. <<>> \in Seq(Statuses)
  OBVIOUS
<1>2. m \in Records
  BY <1>1 DEF Records
<1>3. m.queue = <<>> /\ m.unfinished = 0 /\ m.started = n.started
  BY DEF Records
<1>. QED BY <1>2, <1>3 DEF Rest

LEMMA DrainsOfOne ==
  ASSUME NEW n \in Records, Len(n.queue) \in {0, 1}, n.unfinished = Len(n.queue),
         NEW m \in Drains(n)
  PROVE  Rest(m) /\ m.started = n.started
<1>0. n.queue \in Seq(Statuses)
  BY DEF Records
<1>1. CASE m = [n EXCEPT !.queue = <<>>, !.unfinished = @ - Len(n.queue), !.monitor = FALSE]
  <2>1. n.unfinished - Len(n.queue) = 0
    OBVIOUS
  <2>2. m = [n EXCEPT !.queue = <<>>, !.unfinished = n.unfinished - Len(n.queue),
                      !.monitor = FALSE]
    BY <1>1, Zenon
  <2>. QED BY <2>1, <2>2, RestOf
<1>2. ASSUME NEW k \in 1..Len(n.queue),
             m = [n EXCEPT !.queue = SubSeq(@, k + 1, Len(@)), !.unfinished = @ - k,
                           !.monitor = TRUE]
      PROVE  Rest(m) /\ m.started = n.started
  <2>1. Len(n.queue) = 1
    OBVIOUS
  <2>2. k = 1
    BY <2>1
  <2>3. SubSeq(n.queue, k + 1, Len(n.queue)) = <<>>
    BY <1>0, <2>1, <2>2
  <2>4. n.unfinished - k = 0
    BY <2>1, <2>2
  <2>5. m = [n EXCEPT !.queue = SubSeq(n.queue, k + 1, Len(n.queue)),
                      !.unfinished = n.unfinished - k, !.monitor = TRUE]
    BY <1>2, Zenon
  <2>. QED BY <2>3, <2>4, <2>5, RestOf
<1>. QED BY <1>1, <1>2 DEF Drains

LEMMA NotifiedRests ==
  ASSUME NEW n, Rest(n), NEW s \in Statuses, NEW m \in Notified(n, s)
  PROVE  Rest(m) /\ m.started = n.started /\ (~n.started => m = n)
<1>1. CASE n.started
  <2>. DEFINE put == [n EXCEPT !.queue = Append(@, s), !.unfinished = @ + 1]
  <2>1. n \in Records /\ n.queue \in Seq(Statuses) /\ n.queue = <<>> /\ n.unfinished = 0
    BY DEF Rest, Records
  <2>2. Append(n.queue, s) \in Seq(Statuses) /\ Len(Append(n.queue, s)) = 1
    BY <2>1
  <2>3. put.queue = Append(n.queue, s) /\ put.unfinished = 1 /\ put.started = n.started
    BY <2>1 DEF Records
  <2>4. put \in Records /\ Len(put.queue) = 1 /\ put.unfinished = 1 /\ put.started = n.started
    <3>1. put \in Records
      <4>1. \A q \in Seq(Statuses), u \in Nat : [n EXCEPT !.queue = q, !.unfinished = u] \in Records
        BY <2>1 DEF Records
      <4>2. n.unfinished + 1 \in Nat
        BY <2>1
      <4>. QED BY <2>2, <4>1, <4>2
    <3>. HIDE DEF put
    <3>. QED BY <2>2, <2>3, <3>1
  <2>5. m \in Drains(put)
    BY <1>1 DEF Notified
  <2>. HIDE DEF put
  <2>6. Rest(m) /\ m.started = put.started
    BY <2>4, <2>5, DrainsOfOne
  <2>. QED BY <1>1, <2>4, <2>6
<1>2. CASE ~n.started
  BY <1>2 DEF Notified
<1>. QED BY <1>1, <1>2

Quiet ==
  /\ Rest(notifier)
  /\ notifier.monitor => notifier.started
  /\ stage \in {"setup", "start"} => ~notifier.started

LEMMA QuietHolds == Spec => []Quiet
<1>. USE DEF Quiet
<1>1. Init => Quiet
  BY DEF Init, Rest, Records
<1>2. Quiet /\ [Next]_vars => Quiet'
  <2> SUFFICES ASSUME Quiet, [Next]_vars PROVE Quiet'
    OBVIOUS
  <2>1. CASE Serve
    <3>1. PICK n \in NotifierStarts : notifier' \in Notified(n, "READY")
      BY <2>1 DEF Serve
    <3>2. Rest(n) /\ ~n.monitor
      BY <2>1, <3>1 DEF Serve, NotifierStarts, Rest, Records
    <3>3. Rest(notifier') /\ notifier'.started = n.started /\ (~n.started => notifier' = n)
      BY <3>1, <3>2, NotifiedRests DEF Statuses
    <3>4. notifier'.monitor => notifier'.started
      BY <3>2, <3>3 DEF Rest, Records
    <3>. QED BY <2>1, <3>3, <3>4 DEF Serve
  <2>2. CASE Wake
    <3>1. PICK n \in Notified(notifier, "STOPPING") : NotifierStops(n)
      BY <2>2 DEF Wake
    <3>2. Rest(n)
      BY <3>1, NotifiedRests DEF Statuses
    <3>3. Rest(notifier') /\ ~notifier'.monitor
      BY <3>1, <3>2 DEF NotifierStops, Rest, Records
    <3>. QED BY <2>2, <3>3 DEF Wake
  <2>3. CASE Writable
    <3>1. Rest(notifier') /\ notifier'.started = notifier.started
      <4>1. Len(notifier.queue) = 0
        BY DEF Rest
      <4>. QED BY <2>3, <4>1, DrainsOfOne DEF Writable, Rest
    <3>2. notifier.started
      BY <2>3 DEF Writable
    <3>. QED BY <2>3, <3>1, <3>2 DEF Writable
  <2>4. CASE notifier' = notifier /\ (stage' \in {"setup", "start"} => stage \in {"setup", "start"})
    BY <2>4
  <2>5. \/ Serve \/ Wake \/ Writable
        \/ notifier' = notifier /\ (stage' \in {"setup", "start"} => stage \in {"setup", "start"})
    BY StepCases
    DEF vars, amainVars, Startup, PrepareOne, SetupFails, SetupDone, StartFails, Amain,
        Gathered, Expire, Settle, FetchStopped, TeardownStep, Exit, Signal, Clientele,
        Connect, Spawn, SenderDies, HandlerEnds, SenderEnds, FetchDies, TaskStep, Use, Answer, Work,
        Deliver, Swallow, Unwind, UnwindFails, GoesOn
  <2>. QED BY <2>1, <2>2, <2>3, <2>4, <2>5
<1>. QED BY <1>1, <1>2, PTL DEF Spec

\* put() and join() of the notifier never wait, and its callback goes before its socket,
\* however often the socket is full.
THEOREM NotifierQuietHolds == Spec => []NotifierQuiet
<1>1. Quiet => NotifierQuiet
  BY DEF Quiet, NotifierQuiet, Rest
<1>. QED BY <1>1, QuietHolds, PTL

Flags ==
  /\ stage \in {"setup", "start", "wait", "gather", "expired", "settle", "fetchstop",
                "teardown", "exited", "crashed", "killed"}
  /\ signalled \in BOOLEAN /\ beating \in BOOLEAN
  /\ listening \in BOOLEAN

LEMMA FlagsHold == Spec => []Flags
<1>1. Init => Flags
  BY DEF Init, Flags
<1>2. Flags /\ [Next]_vars => Flags'
  <2> SUFFICES ASSUME Flags, [Next]_vars PROVE Flags'
    OBVIOUS
  <2>. USE DEF Flags, amainVars, clientVars
  <2>1. CASE UNCHANGED vars
    BY <2>1 DEF vars
  <2>2. CASE Startup
    BY <2>2 DEF Startup, PrepareOne, SetupFails, SetupDone, StartFails, Serve
  <2>3. CASE Amain
    BY <2>3 DEF Amain, Wake, Gathered, Expire, Settle, FetchStopped, TeardownStep, Exit
  <2>4. CASE Signal \/ Writable \/ FetchDies
    BY <2>4 DEF Signal, Writable, FetchDies
  <2>5. ASSUME NEW c \in Clients, Clientele(c) PROVE Flags'
    BY <2>5 DEF Clientele, Connect, Spawn, SenderDies, HandlerEnds, SenderEnds
  <2>6. ASSUME NEW t \in Tasks, TaskStep(t) PROVE Flags'
    BY <2>6 DEF TaskStep, Use, Answer, Work, Deliver, Swallow, Unwind, UnwindFails, GoesOn
  <2>. QED BY <2>1, <2>2, <2>3, <2>4, <2>5, <2>6, StepCases
<1>. QED BY <1>1, <1>2, PTL DEF Spec

\* Every variable of the daemon keeps its type; in particular the notifier never counts
\* more as done than it was given, and only a task at work or cancelled borrows.
THEOREM TypeCorrect == Spec => []TypeOK
<1>1. Inv /\ Quiet /\ Flags => TypeOK
  BY DEF Inv, Types, TaskPlaces, Quiet, Rest, Records, Statuses, Flags, TypeOK
<1>. QED BY <1>1, Invariance, QuietHolds, FlagsHold, PTL

-----------------------------------------------------------------------------
(* The pool in the daemon *)

PoolProofs == INSTANCE SqliteConnPoolProofs WITH Borrowers <- Tasks

\* The assumptions of the pool hold in the daemon
LEMMA PoolConstants ==
  /\ Threads \in Nat \ {0} /\ PoolProofs!IsFiniteSet(Conns)
  /\ Threads <= PoolProofs!Cardinality(Conns)
  /\ PoolProofs!IsFiniteSet(Tasks) /\ None \notin Conns
<1>1. \A S : PoolProofs!IsFiniteSet(S) <=> IsFiniteSet(S)
  BY Zenon DEF PoolProofs!IsFiniteSet, IsFiniteSet
<1>2. PoolProofs!Cardinality(Conns) = Cardinality(Conns)
  BY Zenon DEF PoolProofs!Cardinality, Cardinality
<1>3. IsFiniteSet(Tasks)
  BY PoolAssumption, FS_AddElement DEF Tasks
<1>. QED BY <1>1, <1>2, <1>3, PoolAssumption

\* The daemon uses the pool as any borrowers may, and stop() is amain's
LEMMA PoolStep == ASSUME [Next]_vars PROVE [Pool!Next]_poolVars
<1>. USE DEF Pool!Next, Pool!Proceed
<1>1. CASE UNCHANGED vars
  BY <1>1 DEF vars
<1>2. CASE Startup
  BY <1>2 DEF Startup, PrepareOne, SetupFails, SetupDone, StartFails, Serve
<1>3. CASE Amain
  BY <1>3 DEF Amain, Wake, Gathered, Expire, Settle, FetchStopped, TeardownStep, Exit
<1>4. CASE Signal \/ Writable
  BY <1>4 DEF Signal, Writable
<1>5. CASE FetchDies
  BY <1>5 DEF FetchDies, Tasks
<1>6. ASSUME NEW c \in Clients, Clientele(c) PROVE UNCHANGED poolVars
  BY <1>6 DEF Clientele, Connect, Spawn, SenderDies, HandlerEnds, SenderEnds
<1>7. ASSUME NEW t \in Tasks, TaskStep(t) PROVE [Pool!Next]_poolVars
  BY <1>7 DEF TaskStep, Use, Answer, Work, Deliver, Swallow, Unwind, UnwindFails, GoesOn
<1>. QED BY <1>1, <1>2, <1>3, <1>4, <1>5, <1>6, <1>7, StepCases

\* The pool's actions are those that SqliteConnPoolProofs is about
LEMMA PoolNext == ASSUME [Pool!Next]_poolVars PROVE [PoolProofs!Next]_(PoolProofs!vars)
<1>1. UNCHANGED poolVars => UNCHANGED PoolProofs!vars
  BY Zenon DEF poolVars, PoolProofs!vars
<1>2. Pool!PrepareOne => PoolProofs!PrepareOne
  BY Zenon DEF Pool!PrepareOne, PoolProofs!PrepareOne,
               Pool!Cardinality, PoolProofs!Cardinality
<1>3. Pool!PrepareFails => PoolProofs!PrepareFails
  BY Zenon DEF Pool!PrepareFails, PoolProofs!PrepareFails
<1>4. Pool!Stop => PoolProofs!Stop
  BY Zenon DEF Pool!Stop, PoolProofs!Stop, Pool!DrainNext, PoolProofs!DrainNext
<1>5. Pool!StopClosesOne => PoolProofs!StopClosesOne
  BY Zenon DEF Pool!StopClosesOne, PoolProofs!StopClosesOne, Pool!DrainNext,
               PoolProofs!DrainNext, Pool!Close, PoolProofs!Close
<1>6. ASSUME NEW t \in Tasks
      PROVE  /\ Pool!Borrow(t) => PoolProofs!Borrow(t)
             /\ Pool!Proceed(t) => PoolProofs!Proceed(t)
  <2>. USE DEF Pool!Goto, PoolProofs!Goto, Pool!Hold, PoolProofs!Hold,
               Pool!stopped, PoolProofs!stopped
  <2>1. /\ Pool!Borrow(t) => PoolProofs!Borrow(t)
        /\ Pool!Acquire(t) => PoolProofs!Acquire(t)
        /\ Pool!TimesOut(t) => PoolProofs!TimesOut(t)
    BY Zenon DEF Pool!Borrow, PoolProofs!Borrow, Pool!Acquire, PoolProofs!Acquire,
                 Pool!TimesOut, PoolProofs!TimesOut
  <2>2. /\ Pool!Write(t) => PoolProofs!Write(t)
        /\ Pool!Commit(t) => PoolProofs!Commit(t)
        /\ Pool!Leave(t) => PoolProofs!Leave(t)
        /\ Pool!Raise(t) => PoolProofs!Raise(t)
    BY Zenon DEF Pool!Write, PoolProofs!Write, Pool!Commit, PoolProofs!Commit,
                 Pool!Leave, PoolProofs!Leave, Pool!Raise, PoolProofs!Raise
  <2>3. /\ Pool!Closed(t) => PoolProofs!Closed(t)
        /\ Pool!CloseCancelled(t) => PoolProofs!CloseCancelled(t)
    BY Zenon DEF Pool!Closed, PoolProofs!Closed, Pool!CloseCancelled,
                 PoolProofs!CloseCancelled, Pool!Close, PoolProofs!Close
  <2>4. /\ Pool!Replaced(t) => PoolProofs!Replaced(t)
        /\ Pool!ReplaceFails(t) => PoolProofs!ReplaceFails(t)
    BY Zenon DEF Pool!Replaced, PoolProofs!Replaced, Pool!ReplaceFails,
                 PoolProofs!ReplaceFails
  <2>. QED BY <2>1, <2>2, <2>3, <2>4, Zenon DEF Pool!Proceed, PoolProofs!Proceed
<1>. QED BY <1>1, <1>2, <1>3, <1>4, <1>5, <1>6, Zenon DEF Pool!Next, PoolProofs!Next

LEMMA PoolInvHolds == Spec => []PoolProofs!Inv
<1>1. Init => PoolProofs!Inv
  <2>1. Pool!Init => PoolProofs!Init
    BY Zenon DEF Pool!Init, PoolProofs!Init
  <2>. QED BY <2>1, PoolProofs!InitInv, PoolConstants, Zenon DEF Init
<1>2. PoolProofs!Inv /\ [Next]_vars => PoolProofs!Inv'
  <2> SUFFICES ASSUME PoolProofs!Inv, [Next]_vars PROVE PoolProofs!Inv'
    OBVIOUS
  <2>1. [PoolProofs!Next]_(PoolProofs!vars)
    BY PoolStep, PoolNext
  <2>2. PoolProofs!Types' /\ PoolProofs!PhaseOK' /\ PoolProofs!ExclusiveUse'
    BY <2>1, PoolProofs!TypesStep, PoolProofs!PhaseStep, PoolProofs!ExclusiveStep,
       PoolConstants, Zenon
  <2>3. PoolProofs!Placed' /\ PoolProofs!Unfinished'
    BY <2>1, PoolProofs!PlacedStep, PoolProofs!UnfinishedStep, PoolConstants, Zenon
  <2>4. PoolProofs!SlotSum' /\ PoolProofs!LateFree'
    BY <2>1, PoolProofs!SlotSumStep, PoolProofs!LateFreeStep, PoolConstants, Zenon
  <2>. QED BY <2>2, <2>3, <2>4, Zenon DEF PoolProofs!Inv
<1>. QED BY <1>1, <1>2, PTL DEF Spec

\* amain leaves the pool only when it is stopped
Left == stage = "exited" => phase = "stopped"

LEMMA LeftHolds == Spec => []Left
<1>1. Init => Left
  BY DEF Init, Left
<1>2. Left /\ [Next]_vars => Left'
  <2> SUFFICES ASSUME Left, [Next]_vars PROVE Left'
    OBVIOUS
  <2>1. CASE UNCHANGED vars
    BY <2>1 DEF vars, poolVars, amainVars, Left
  <2>2. CASE Exit
    BY <2>2 DEF Exit, poolVars, Left
  <2>3. CASE Next /\ ~Exit
    <3>1. stage # "exited"
      BY <2>3 DEF Next, over
    <3>2. stage' # "exited"
      BY <2>3, <3>1, Steps
      DEF SetupFails, SetupDone, StartFails, Serve, Signal, Wake, Gathered, Expire, Settle,
          FetchStopped, Clientele, Connect, Spawn, SenderDies, HandlerEnds, SenderEnds, amainVars
    <3>. QED BY <3>2 DEF Left
  <2>. QED BY <2>1, <2>2, <2>3
<1>. QED BY <1>1, <1>2, PTL DEF Spec

\* When the daemon returns, with any number of connections and tasks, those of the pool are
\* closed, or being closed by a task, or in the hands of a lookup that nobody ends, or
\* replaced a broken one while the pool was stopped.
THEOREM ConnectionsClosedHolds == Spec => []ConnectionsClosed
<1>1. ASSUME PoolProofs!Inv, Left, Inv, QuietTeardown PROVE ConnectionsClosed
  <2> SUFFICES ASSUME stage = "exited", NEW c \in open, c \notin late
               PROVE  \E t \in Tasks : held[t] = c /\ (task[t] = "unwinding" \/ t \in astray)
    BY DEF ConnectionsClosed
  <2>1. /\ open \subseteq Conns /\ drained = None /\ free \subseteq late
        /\ \A t \in Tasks : held[t] = None <=> pc[t] \in {"out", "wait", "open"}
    BY <1>1 DEF Left, PoolProofs!Inv, PoolProofs!Types, PoolProofs!LateFree
  <2>2. PICK t \in Tasks : held[t] = c
    BY <1>1, <2>1, PoolAssumption DEF PoolProofs!Inv, PoolProofs!Placed
  <2>3. pc[t] # "out"
    BY <2>1, <2>2, PoolAssumption
  <2>4. task[t] = "unwinding" \/ t \in astray
    BY <1>1, <2>3 DEF QuietTeardown, Inv, TaskPlaces
  <2>. QED BY <2>2, <2>4
<1>. QED BY <1>1, PoolInvHolds, LeftHolds, Invariance, QuietTeardownHolds, PTL
=============================================================================
