--------------------------- MODULE SqliteConnPool ---------------------------
(***************************************************************************)
(* The pool of SQLite connections that SqliteCache borrows from: prepare,  *)
(* stop and the borrowing context manager, with the transactions that      *)
(* SqliteCache runs inside it.  Every await may be left by an error or by  *)
(* the cancellation of the lookup it serves.                               *)
(*                                                                         *)
(* The order of the free connections is left out.                          *)
(***************************************************************************)
EXTENDS Naturals, FiniteSets

CONSTANTS
  Threads,    \* cache.options.threads
  Conns,      \* connections; one that was closed stands for the next one opened
  Borrowers,  \* tasks that use the cache
  None        \* no connection

ASSUME ThreadsAssumption ==
  Threads \in Nat \ {0} /\ IsFiniteSet(Conns) /\ Threads <= Cardinality(Conns)

ASSUME BorrowersAssumption == IsFiniteSet(Borrowers)

ASSUME NoneAssumption == None \notin Conns

VARIABLES
  phase,   \* of the pool: "preparing", "failed", "ready", "stopping" or "stopped"
  open,    \* connections that are open
  free,    \* _free_conns
  drained, \* the connection stop() is closing
  pc,      \* of each borrower: outside, where it waits for a connection, in the
           \* body of "async with", or in its __aexit__
  held,    \* its connection
  dirty,   \* connections with an unfinished transaction
  lost,    \* history: connections that were closed and could not be replaced
  late     \* history: connections that replaced one after stop() was called

vars == <<phase, open, free, drained, pc, held, dirty, lost, late>>

TypeOK ==
  /\ phase \in {"preparing", "failed", "ready", "stopping", "stopped"}
  /\ open \subseteq Conns /\ free \subseteq open /\ dirty \subseteq open
  /\ late \subseteq open
  /\ IF phase = "stopping" THEN drained \in open ELSE drained = None
  /\ pc \in [Borrowers -> {"out", "wait", "use", "wrote", "done",
                           "close", "lastclose", "open"}]
  /\ held \in [Borrowers -> open \cup {None}]
  /\ \A b \in Borrowers : held[b] = None <=> pc[b] \in {"out", "wait", "open"}
  /\ lost \in 0..Threads

Init ==
  /\ phase = "preparing"
  /\ open = {} /\ free = {} /\ drained = None /\ dirty = {}
  /\ pc = [b \in Borrowers |-> "out"] /\ held = [b \in Borrowers |-> None]
  /\ lost = 0 /\ late = {}

stopped == phase \in {"stopping", "stopped"}

Goto(b, place) == pc' = [pc EXCEPT ![b] = place]
Hold(b, c) == held' = [held EXCEPT ![b] = c]
Close(c) == open' = open \ {c} /\ dirty' = dirty \ {c} /\ late' = late \ {c}

-----------------------------------------------------------------------------
(* prepare and stop *)

PrepareOne ==
  /\ phase = "preparing"
  /\ \E c \in Conns \ open : open' = open \cup {c} /\ free' = free \cup {c}
  /\ phase' = IF Cardinality(free') = Threads THEN "ready" ELSE "preparing"
  /\ UNCHANGED <<drained, pc, held, dirty, lost, late>>

\* The exception leaves setup(); the connections already open stay so
PrepareFails ==
  /\ phase = "preparing" /\ phase' = "failed"
  /\ UNCHANGED <<open, free, drained, pc, held, dirty, lost, late>>

DrainNext ==
  \/ free = {} /\ phase' = "stopped" /\ drained' = None /\ UNCHANGED free
  \/ \E c \in free : phase' = "stopping" /\ drained' = c /\ free' = free \ {c}

Stop ==
  /\ phase = "ready" /\ DrainNext
  /\ UNCHANGED <<open, pc, held, dirty, lost, late>>

StopClosesOne ==
  /\ phase = "stopping" /\ Close(drained) /\ DrainNext
  /\ UNCHANGED <<pc, held, lost>>

-----------------------------------------------------------------------------
(* borrow and __aenter__ *)

BorrowUnchecked(b) ==  \* mutant: _ready is not looked at
  /\ phase \in {"ready", "stopping", "stopped"} /\ pc[b] = "out" /\ Goto(b, "wait")
  /\ UNCHANGED <<phase, open, free, drained, held, dirty, lost, late>>

Borrow(b) ==
  /\ phase = "ready" /\ pc[b] = "out" /\ Goto(b, "wait")
  /\ UNCHANGED <<phase, open, free, drained, held, dirty, lost, late>>

Acquire(b) ==
  /\ pc[b] = "wait" /\ Goto(b, "use")
  /\ \E c \in free : Hold(b, c) /\ free' = free \ {c}
  /\ UNCHANGED <<phase, open, drained, dirty, lost, late>>

NeverTimesOut(b) ==  \* mutant: no timeout is passed to borrow()
  FALSE /\ UNCHANGED vars

TimesOutTakingOne(b) ==  \* mutant: the get() that times out takes a connection along
  /\ pc[b] = "wait" /\ Goto(b, "out")
  /\ \E c \in free : free' = free \ {c}
  /\ UNCHANGED <<phase, open, drained, held, dirty, lost, late>>

\* The timeout or a cancellation; a connection just put stays for the next
TimesOut(b) ==
  /\ pc[b] = "wait" /\ Goto(b, "out")
  /\ UNCHANGED <<phase, open, free, drained, held, dirty, lost, late>>

-----------------------------------------------------------------------------
(* What SqliteCache does with the connection: get and scan only read; set and *)
(* set_proactive_fetch_ts insert, or update after an IntegrityError, and      *)
(* commit.                                                                    *)

\* SQLite admits one writer at a time; a second waits, and is refused in the end
Write(b) ==
  /\ pc[b] = "use" /\ dirty = {} /\ Goto(b, "wrote")
  /\ dirty' = dirty \cup {held[b]}
  /\ UNCHANGED <<phase, open, free, drained, held, lost, late>>

Commit(b) ==
  /\ pc[b] = "wrote" /\ Goto(b, "done")
  /\ dirty' = dirty \ {held[b]}
  /\ UNCHANGED <<phase, open, free, drained, held, lost, late>>

-----------------------------------------------------------------------------
(* __aexit__ *)

LeaveAlwaysReturns(b) ==  \* mutant: _stopped is not looked at
  /\ pc[b] \in {"use", "done"}
  /\ Goto(b, "out") /\ Hold(b, None) /\ free' = free \cup {held[b]}
  /\ UNCHANGED <<phase, open, drained, dirty, lost, late>>

Leave(b) ==
  /\ pc[b] \in {"use", "done"}
  /\ IF stopped THEN Goto(b, "lastclose") /\ UNCHANGED <<free, held>>
     ELSE Goto(b, "out") /\ Hold(b, None) /\ free' = free \cup {held[b]}
  /\ UNCHANGED <<phase, open, drained, dirty, lost, late>>

RaiseReturns(b) ==  \* mutant: a connection returns whatever happened to it
  /\ pc[b] \in {"use", "wrote", "done"}
  /\ IF stopped THEN Goto(b, "lastclose") /\ UNCHANGED <<free, held>>
     ELSE Goto(b, "out") /\ Hold(b, None) /\ free' = free \cup {held[b]}
  /\ UNCHANGED <<phase, open, drained, dirty, lost, late>>

RaiseReturnsFirst(b) ==  \* mutant: the connection returns before it is replaced
  /\ pc[b] \in {"use", "wrote", "done"}
  /\ IF stopped THEN Goto(b, "lastclose") /\ UNCHANGED free
     ELSE Goto(b, "close") /\ free' = free \cup {held[b]}
  /\ UNCHANGED <<phase, open, drained, held, dirty, lost, late>>

\* An error of the database or a cancellation leaves the body
Raise(b) ==
  /\ pc[b] \in {"use", "wrote", "done"}
  /\ Goto(b, IF stopped THEN "lastclose" ELSE "close")
  /\ UNCHANGED <<phase, open, free, drained, held, dirty, lost, late>>

ClosedKept(b) ==  \* mutant: what was closed for good goes on to the queue
  /\ pc[b] \in {"close", "lastclose"} /\ Close(held[b]) /\ Hold(b, None)
  /\ Goto(b, IF pc[b] = "close" THEN "open" ELSE "out")
  /\ free' = IF pc[b] = "lastclose" THEN free \cup {held[b]} ELSE free
  /\ UNCHANGED <<phase, drained, lost>>

Closed(b) ==
  /\ pc[b] \in {"close", "lastclose"} /\ Close(held[b]) /\ Hold(b, None)
  /\ Goto(b, IF pc[b] = "close" THEN "open" ELSE "out")
  /\ UNCHANGED <<phase, free, drained, lost>>

\* The cancellation meets close(), which the thread carries out all the same
CloseCancelled(b) ==
  /\ pc[b] = "close" /\ Close(held[b]) /\ Hold(b, None) /\ Goto(b, "out")
  /\ lost' = lost + 1
  /\ UNCHANGED <<phase, free, drained>>

\* Whether the pool was stopped meanwhile is not asked again
Replaced(b) ==
  /\ pc[b] = "open" /\ Goto(b, "out")
  /\ \E c \in Conns \ open :
       /\ open' = open \cup {c} /\ free' = free \cup {c}
       /\ late' = IF stopped THEN late \cup {c} ELSE late
  /\ UNCHANGED <<phase, drained, held, dirty, lost>>

ReplaceFails(b) ==
  /\ pc[b] = "open" /\ Goto(b, "out")
  /\ lost' = lost + 1
  /\ UNCHANGED <<phase, open, free, drained, held, dirty, late>>

-----------------------------------------------------------------------------
Proceed(b) ==
  \/ Acquire(b) \/ TimesOut(b) \/ Write(b) \/ Commit(b) \/ Leave(b) \/ Raise(b)
  \/ Closed(b) \/ CloseCancelled(b) \/ Replaced(b) \/ ReplaceFails(b)

Next ==
  \/ PrepareOne \/ PrepareFails \/ Stop \/ StopClosesOne
  \/ \E b \in Borrowers : Borrow(b) \/ Proceed(b)

Spec == Init /\ [][Next]_vars

\* Waiting for a connection, for SQLite's lock and for a connection's thread all
\* end, by an answer or a timeout; nothing makes anyone borrow or stop.
Fairness == WF_vars(StopClosesOne) /\ \A b \in Borrowers : WF_vars(Proceed(b))

FairSpec == Spec /\ Fairness

-----------------------------------------------------------------------------
(* Properties *)

\* No connection serves two tasks, or one task and the pool: concurrent lookups
\* never share a transaction, however their lookups end.
ExclusiveUse ==
  \A b \in Borrowers : held[b] # None =>
    /\ held[b] \notin free \cup {drained}
    /\ \A a \in Borrowers \ {b} : held[a] # held[b]

\* A connection in the pool has no unfinished transaction of an earlier, failed or
\* cancelled lookup: the next to borrow it would commit that or be locked out by it.
CleanWhenFree == free \cap dirty = {}

\* Until it is stopped, the pool has as many connections as threads, in the pool, in
\* use or being replaced, but for those whose replacement failed or was cancelled.
SlotsAccounted ==
  phase = "ready" =>
    Cardinality(free) + Cardinality({b \in Borrowers : pc[b] \notin {"out", "wait"}})
      + lost = Threads

\* After stop() nothing is left open but what a task has and is going to close, and
\* replacements that were under way when stop() was called.
StopClosesAll ==
  phase = "stopped" => \A c \in open : c \in late \/ \E b \in Borrowers : held[b] = c

\* Whoever asks for a connection is done in the end, even if all are lost or the
\* pool was stopped while it waited.
BorrowersLeave == \A b \in Borrowers : pc[b] # "out" ~> pc[b] = "out"

\* stop() returns, though connections keep coming back while it closes those it
\* found, and after it the pool comes to rest.
StopSettles ==
  phase = "stopping" ~> phase = "stopped" /\ \A b \in Borrowers : pc[b] = "out"
=============================================================================
