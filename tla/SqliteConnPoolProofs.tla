------------------------ MODULE SqliteConnPoolProofs ------------------------
(***************************************************************************)
(* Proofs about SqliteConnPool for any number of threads, connections and  *)
(* borrowers, whatever fails or is cancelled.                              *)
(***************************************************************************)
EXTENDS SqliteConnPool, FiniteSetTheorems, TLAPS

Places == {"out", "wait", "use", "wrote", "done", "close", "lastclose", "open"}

\* TypeOK without the bound of lost, which the sum of the slots gives
Types ==
  /\ phase \in {"preparing", "failed", "ready", "stopping", "stopped"}
  /\ open \subseteq Conns /\ free \subseteq open /\ dirty \subseteq open
  /\ late \subseteq open
  /\ IF phase = "stopping" THEN drained \in open ELSE drained = None
  /\ pc \in [Borrowers -> Places]
  /\ held \in [Borrowers -> open \cup {None}]
  /\ \A b \in Borrowers : held[b] = None <=> pc[b] \in {"out", "wait", "open"}
  /\ lost \in Nat

\* Nobody borrows before the pool is ready, or closes for good before it is stopped
PhaseOK ==
  /\ phase \in {"preparing", "failed"} => lost = 0 /\ \A b \in Borrowers : pc[b] = "out"
  /\ \A b \in Borrowers : pc[b] = "lastclose" => stopped
  /\ drained \notin free

\* An open connection is in the pool, with stop() or with a borrower
Placed == \A c \in open : c \in free \/ c = drained \/ \E b \in Borrowers : held[b] = c

\* A transaction is finished by its borrower, or by closing the connection
Unfinished ==
  \A c \in dirty : \E b \in Borrowers :
    held[b] = c /\ pc[b] \in {"wrote", "close", "lastclose"}

Users == {b \in Borrowers : pc[b] \notin {"out", "wait"}}
Slots == Cardinality(free) + Cardinality(Users) + lost

SlotSum ==
  /\ phase = "ready" => Slots = Threads
  /\ stopped => Slots <= Threads

LateFree == phase = "stopped" => free \subseteq late

Inv == Types /\ PhaseOK /\ ExclusiveUse /\ Placed /\ Unfinished /\ SlotSum /\ LateFree

Pool == PrepareOne \/ PrepareFails \/ Stop \/ StopClosesOne

\* The borrowers' actions, one at a time
BorrowerActs(b) ==
  \/ Borrow(b) \/ Acquire(b) \/ TimesOut(b) \/ Write(b) \/ Commit(b) \/ Leave(b)
  \/ Raise(b) \/ Closed(b) \/ CloseCancelled(b) \/ Replaced(b) \/ ReplaceFails(b)

LEMMA StepCases ==
  ASSUME [Next]_vars
  PROVE  UNCHANGED vars \/ Pool \/ \E b \in Borrowers : BorrowerActs(b)
BY DEF Next, Proceed, Pool, BorrowerActs

-----------------------------------------------------------------------------

LEMMA InitInv == Init => Inv
<1> SUFFICES ASSUME Init PROVE Inv
  OBVIOUS
<1>. USE DEF Init
<1>1. Types /\ PhaseOK
  BY NoneAssumption DEF Types, PhaseOK, Places, stopped
<1>2. ExclusiveUse /\ Placed /\ Unfinished /\ LateFree /\ SlotSum
  BY DEF ExclusiveUse, Placed, Unfinished, LateFree, SlotSum, stopped
<1>. QED BY <1>1, <1>2 DEF Inv

LEMMA TypesStep == ASSUME Inv, [Next]_vars PROVE Types'
<1>. USE NoneAssumption DEF Types, Places
<1>0. Types /\ PhaseOK /\ ExclusiveUse
  BY DEF Inv
<1>1. CASE UNCHANGED vars
  BY <1>0, <1>1 DEF vars
<1>2. CASE PrepareOne
  BY <1>0, <1>2 DEF PrepareOne
<1>3. CASE PrepareFails
  BY <1>0, <1>3 DEF PrepareFails
<1>4. CASE Stop
  BY <1>0, <1>4 DEF Stop, DrainNext
<1>5. CASE StopClosesOne
  <2>1. \A b \in Borrowers : held[b] # drained
    BY <1>0, <1>5 DEF StopClosesOne, ExclusiveUse
  <2>2. drained \notin free
    BY <1>0 DEF PhaseOK
  <2>. QED BY <1>0, <1>5, <2>1, <2>2 DEF StopClosesOne, DrainNext, Close
<1>6. ASSUME NEW b \in Borrowers, BorrowerActs(b) PROVE Types'
  <2>1. CASE Borrow(b) \/ TimesOut(b)
    BY <1>0, <2>1 DEF Borrow, TimesOut, Goto
  <2>2. CASE Acquire(b)
    BY <1>0, <2>2 DEF Acquire, Goto, Hold
  <2>3. CASE Write(b)
    BY <1>0, <2>3 DEF Write, Goto
  <2>4. CASE Commit(b)
    BY <1>0, <2>4 DEF Commit, Goto
  <2>5. CASE Leave(b)
    BY <1>0, <2>5 DEF Leave, Goto, Hold
  <2>6. CASE Raise(b)
    BY <1>0, <2>6 DEF Raise, Goto
  <2>7. CASE Closed(b) \/ CloseCancelled(b)
    <3>1. /\ held[b] # None /\ held[b] \notin free \cup {drained}
          /\ \A a \in Borrowers \ {b} : held[a] # held[b]
      BY <1>0, <2>7 DEF Closed, CloseCancelled, ExclusiveUse
    <3>2. held' = [held EXCEPT ![b] = None] /\ open' = open \ {held[b]}
      BY <2>7 DEF Closed, CloseCancelled, Hold, Close
    <3>3. held' \in [Borrowers -> open' \cup {None}]
      BY <1>0, <3>1, <3>2
    <3>. QED BY <1>0, <2>7, <3>1, <3>3 DEF Closed, CloseCancelled, Goto, Hold, Close
  <2>8. CASE Replaced(b)
    BY <1>0, <2>8 DEF Replaced, Goto
  <2>9. CASE ReplaceFails(b)
    BY <1>0, <2>9 DEF ReplaceFails, Goto
  <2>. QED BY <1>6, <2>1, <2>2, <2>3, <2>4, <2>5, <2>6, <2>7, <2>8, <2>9 DEF BorrowerActs
<1>. QED BY <1>1, <1>2, <1>3, <1>4, <1>5, <1>6, StepCases DEF Pool

LEMMA PhaseStep == ASSUME Inv, [Next]_vars PROVE PhaseOK'
<1>. USE NoneAssumption DEF PhaseOK, stopped
<1>0. Types /\ PhaseOK /\ ExclusiveUse
  BY DEF Inv
<1>1. CASE UNCHANGED vars
  BY <1>0, <1>1 DEF vars
<1>2. CASE PrepareOne
  BY <1>0, <1>2 DEF PrepareOne, Types
<1>3. CASE PrepareFails
  BY <1>0, <1>3 DEF PrepareFails
<1>4. CASE Stop
  BY <1>0, <1>4 DEF Stop, DrainNext, Types
<1>5. CASE StopClosesOne
  BY <1>0, <1>5 DEF StopClosesOne, DrainNext, Types
<1>6. ASSUME NEW b \in Borrowers, BorrowerActs(b) PROVE PhaseOK'
  <2>0. pc \in [Borrowers -> Places]
    BY <1>0 DEF Types
  <2>1. CASE Borrow(b) \/ TimesOut(b) \/ Write(b) \/ Commit(b)
    BY <1>0, <2>0, <2>1 DEF Borrow, TimesOut, Write, Commit, Goto
  <2>2. CASE Acquire(b)
    BY <1>0, <2>0, <2>2 DEF Acquire, Goto, Hold
  <2>3. CASE Leave(b)
    BY <1>0, <2>0, <2>3 DEF Leave, Goto, Hold, Types
  <2>4. CASE Raise(b)
    BY <1>0, <2>0, <2>4 DEF Raise, Goto
  <2>5. CASE Closed(b) \/ CloseCancelled(b)
    BY <1>0, <2>0, <2>5 DEF Closed, CloseCancelled, Goto, Hold
  <2>6. CASE Replaced(b) \/ ReplaceFails(b)
    BY <1>0, <2>0, <2>6 DEF Replaced, ReplaceFails, Goto, Types
  <2>. QED BY <1>6, <2>1, <2>2, <2>3, <2>4, <2>5, <2>6 DEF BorrowerActs
<1>. QED BY <1>1, <1>2, <1>3, <1>4, <1>5, <1>6, StepCases DEF Pool

LEMMA ExclusiveStep == ASSUME Inv, [Next]_vars PROVE ExclusiveUse'
<1>. USE NoneAssumption DEF ExclusiveUse
<1>0. Types /\ PhaseOK /\ ExclusiveUse
  BY DEF Inv
<1>1. CASE UNCHANGED vars
  BY <1>0, <1>1 DEF vars
<1>2. CASE PrepareOne \/ PrepareFails
  BY <1>0, <1>2 DEF PrepareOne, PrepareFails, Types
<1>3. CASE Stop \/ StopClosesOne
  BY <1>0, <1>3 DEF Stop, StopClosesOne, DrainNext, PhaseOK
<1>4. ASSUME NEW b \in Borrowers, BorrowerActs(b) PROVE ExclusiveUse'
  <2>1. CASE UNCHANGED <<free, drained, held>>
    BY <1>0, <2>1
  <2>2. CASE Acquire(b)
    BY <1>0, <2>2 DEF Acquire, Hold, Types, PhaseOK
  <2>3. CASE Leave(b)
    BY <1>0, <2>3 DEF Leave, Hold, Types, stopped
  <2>4. CASE Closed(b) \/ CloseCancelled(b)
    BY <1>0, <2>4 DEF Closed, CloseCancelled, Hold, Types
  <2>5. CASE Replaced(b)
    BY <1>0, <2>5 DEF Replaced, Types
  <2>. QED
    BY <1>4, <2>1, <2>2, <2>3, <2>4, <2>5
    DEF BorrowerActs, Borrow, TimesOut, Write, Commit, Raise, ReplaceFails
<1>. QED BY <1>1, <1>2, <1>3, <1>4, StepCases DEF Pool

LEMMA PlacedStep == ASSUME Inv, [Next]_vars PROVE Placed'
<1>. USE DEF Placed
<1>0. Types /\ Placed /\ ExclusiveUse
  BY DEF Inv
<1>1. CASE UNCHANGED vars
  BY <1>0, <1>1 DEF vars
<1>2. CASE PrepareOne \/ PrepareFails
  BY <1>0, <1>2 DEF PrepareOne, PrepareFails
<1>3. CASE Stop
  BY <1>0, <1>3, NoneAssumption DEF Stop, DrainNext, Types
<1>4. CASE StopClosesOne
  BY <1>0, <1>4 DEF StopClosesOne, DrainNext, Close
<1>5. ASSUME NEW b \in Borrowers, BorrowerActs(b) PROVE Placed'
  <2>1. CASE UNCHANGED <<open, free, drained, held>>
    BY <1>0, <2>1
  <2>2. CASE Acquire(b)
    <3>1. held[b] = None /\ held \in [Borrowers -> open \cup {None}]
      BY <1>0, <2>2 DEF Acquire, Types
    <3>. QED BY <1>0, <2>2, <3>1, NoneAssumption DEF Acquire, Hold, Types
  <2>3. CASE Leave(b)
    BY <1>0, <2>3 DEF Leave, Hold, Types
  <2>4. CASE Closed(b) \/ CloseCancelled(b)
    BY <1>0, <2>4 DEF Closed, CloseCancelled, Hold, Close, Types
  <2>5. CASE Replaced(b)
    BY <1>0, <2>5 DEF Replaced
  <2>. QED
    BY <1>5, <2>1, <2>2, <2>3, <2>4, <2>5
    DEF BorrowerActs, Borrow, TimesOut, Write, Commit, Raise, ReplaceFails
<1>. QED BY <1>1, <1>2, <1>3, <1>4, <1>5, StepCases DEF Pool

LEMMA UnfinishedStep == ASSUME Inv, [Next]_vars PROVE Unfinished'
<1>. USE DEF Unfinished
<1>0. Types /\ Unfinished /\ ExclusiveUse
  BY DEF Inv
<1>1. CASE UNCHANGED vars \/ PrepareOne \/ PrepareFails \/ Stop
  BY <1>0, <1>1 DEF vars, PrepareOne, PrepareFails, Stop
<1>2. CASE StopClosesOne
  BY <1>0, <1>2 DEF StopClosesOne, Close
<1>3. ASSUME NEW b \in Borrowers, BorrowerActs(b) PROVE Unfinished'
  <2>0. pc \in [Borrowers -> Places] /\ held \in [Borrowers -> open \cup {None}]
    BY <1>0 DEF Types
  <2>1. CASE Borrow(b) \/ TimesOut(b) \/ Replaced(b) \/ ReplaceFails(b)
    BY <1>0, <2>0, <2>1 DEF Borrow, TimesOut, Replaced, ReplaceFails, Goto
  <2>2. CASE Acquire(b)
    BY <1>0, <2>0, <2>2 DEF Acquire, Goto, Hold
  <2>3. CASE Write(b)
    BY <1>0, <2>0, <2>3 DEF Write, Goto
  <2>4. CASE Commit(b)
    BY <1>0, <2>0, <2>4 DEF Commit, Goto
  <2>5. CASE Leave(b)
    BY <1>0, <2>0, <2>5 DEF Leave, Goto, Hold, ExclusiveUse, Types
  <2>6. CASE Raise(b)
    BY <1>0, <2>0, <2>6 DEF Raise, Goto
  <2>7. CASE Closed(b) \/ CloseCancelled(b)
    BY <1>0, <2>0, <2>7 DEF Closed, CloseCancelled, Goto, Hold, Close
  <2>. QED BY <1>3, <2>1, <2>2, <2>3, <2>4, <2>5, <2>6, <2>7 DEF BorrowerActs
<1>. QED BY <1>1, <1>2, <1>3, StepCases DEF Pool

LEMMA LateFreeStep == ASSUME Inv, [Next]_vars PROVE LateFree'
<1>. USE DEF LateFree, stopped
<1>0. Types /\ LateFree /\ ExclusiveUse
  BY DEF Inv
<1>1. CASE UNCHANGED vars
  BY <1>0, <1>1 DEF vars
<1>2. CASE Pool
  BY <1>0, <1>2
  DEF Pool, PrepareOne, PrepareFails, Stop, StopClosesOne, DrainNext
<1>3. ASSUME NEW b \in Borrowers, BorrowerActs(b) PROVE LateFree'
  <2>1. CASE UNCHANGED <<phase, free, late>>
    BY <1>0, <2>1
  <2>2. CASE Acquire(b) \/ Leave(b) \/ Replaced(b)
    BY <1>0, <2>2 DEF Acquire, Leave, Replaced
  <2>3. CASE Closed(b) \/ CloseCancelled(b)
    <3>1. held[b] \notin free
      BY <1>0, <2>3 DEF Closed, CloseCancelled, Types, ExclusiveUse
    <3>. QED BY <1>0, <2>3, <3>1 DEF Closed, CloseCancelled, Close
  <2>. QED
    BY <1>3, <2>1, <2>2, <2>3
    DEF BorrowerActs, Borrow, TimesOut, Write, Commit, Raise, ReplaceFails
<1>. QED BY <1>1, <1>2, <1>3, StepCases

-----------------------------------------------------------------------------
(* The sum of the slots *)

LEMMA Finite == ASSUME Types PROVE IsFiniteSet(free) /\ IsFiniteSet(Users)
<1>1. free \in SUBSET Conns /\ Users \in SUBSET Borrowers
  BY DEF Types, Users
<1>. QED BY <1>1, FS_Subset, ThreadsAssumption, BorrowersAssumption

\* A borrower goes from its connection, or from replacing it, to where it has none
LEMMA UserGoes ==
  ASSUME Types, NEW b \in Users, pc' = [pc EXCEPT ![b] = "out"]
  PROVE  Cardinality(Users') = Cardinality(Users) - 1
<1>1. Users' = Users \ {b}
  BY DEF Users, Types
<1>. QED BY <1>1, Finite, FS_RemoveElement

LEMMA UserStays ==
  ASSUME Types, NEW b \in Users, NEW place \in Places \ {"out", "wait"},
         pc' = [pc EXCEPT ![b] = place]
  PROVE  Users' = Users
BY DEF Users, Types

LEMMA ReadySlots ==
  ASSUME Types, phase = "preparing", PhaseOK, PrepareOne, phase' = "ready"
  PROVE  Slots' = Threads
<1>1. Cardinality(free') = Threads /\ pc' = pc /\ lost' = 0
  BY DEF PrepareOne, PhaseOK
<1>2. Users' = {}
  BY <1>1 DEF Users, PhaseOK
<1>. QED BY <1>1, <1>2, FS_EmptySet, ThreadsAssumption DEF Slots

LEMMA SlotSumStep == ASSUME Inv, [Next]_vars PROVE SlotSum'
<1>. USE DEF SlotSum, stopped
<1>0. Types /\ PhaseOK /\ ExclusiveUse /\ SlotSum
  BY DEF Inv
<1>t. /\ IsFiniteSet(free) /\ Cardinality(free) \in Nat
      /\ Cardinality(Users) \in Nat /\ lost \in Nat /\ Threads \in Nat
  BY <1>0, Finite, FS_CardinalityType, ThreadsAssumption DEF Types
<1>1. CASE UNCHANGED <<phase, free, pc, lost>>
  BY <1>0, <1>1 DEF Slots, Users
<1>2. CASE PrepareOne
  BY <1>0, <1>2, ReadySlots DEF PrepareOne
<1>3. CASE PrepareFails
  BY <1>3 DEF PrepareFails
<1>4. CASE Stop \/ StopClosesOne
  <2>1. Slots <= Threads
    BY <1>0, <1>t, <1>4 DEF Stop, StopClosesOne, Slots
  <2>2. Users' = Users /\ lost' = lost /\ phase' \in {"stopping", "stopped"}
    BY <1>4 DEF Stop, StopClosesOne, DrainNext, Users
  <2>3. Cardinality(free') <= Cardinality(free) /\ Cardinality(free') \in Nat
    <3>1. free' = free \/ \E c \in free : free' = free \ {c}
      BY <1>4 DEF Stop, StopClosesOne, DrainNext
    <3>2. CASE free' = free
      BY <3>2, <1>t
    <3>3. CASE \E c \in free : free' = free \ {c}
      <4>1. PICK c \in free : free' = free \ {c}
        BY <3>3
      <4>2. /\ IsFiniteSet(free \ {c})
            /\ Cardinality(free \ {c}) = Cardinality(free) - 1
        BY <1>t, FS_RemoveElement
      <4>. QED BY <4>1, <4>2, <1>t, FS_CardinalityType
    <3>. QED BY <3>1, <3>2, <3>3
  <2>. QED BY <2>1, <2>2, <2>3, <1>t DEF Slots
<1>5. ASSUME NEW b \in Borrowers, BorrowerActs(b) PROVE SlotSum'
  <2>0. /\ pc[b] \notin {"out", "wait"} <=> b \in Users
        /\ phase' = phase
    BY <1>5
    DEF Users, BorrowerActs, Borrow, Acquire, TimesOut, Write, Commit, Leave, Raise,
        Closed, CloseCancelled, Replaced, ReplaceFails
  <2>1. SUFFICES \/ Slots' = Slots
                 \/ stopped /\ Slots' = Slots - 1
    BY <1>0, <1>t, <2>0 DEF Slots
  <2>2. CASE Borrow(b) \/ TimesOut(b)
    <3>1. Users' = Users
      BY <1>0, <2>2 DEF Borrow, TimesOut, Goto, Users, Types
    <3>. QED BY <3>1, <2>2 DEF Borrow, TimesOut, Slots
  <2>3. CASE Acquire(b)
    <3>1. Users' = Users \cup {b} /\ b \notin Users
      BY <1>0, <2>3 DEF Acquire, Goto, Users, Types
    <3>2. Cardinality(Users') = Cardinality(Users) + 1
      BY <3>1, <1>0, Finite, FS_AddElement
    <3>3. PICK c \in free : free' = free \ {c}
      BY <2>3 DEF Acquire
    <3>4. Cardinality(free') = Cardinality(free) - 1
      BY <3>3, <1>t, FS_RemoveElement
    <3>5. lost' = lost
      BY <2>3 DEF Acquire
    <3>. QED BY <3>2, <3>4, <3>5, <1>t DEF Slots
  <2>4. CASE Write(b) \/ Commit(b) \/ Raise(b)
    <3>1. b \in Users /\ \E place \in Places \ {"out", "wait"} : Goto(b, place)
      BY <2>0, <2>4 DEF Write, Commit, Raise, Places
    <3>2. Users' = Users
      BY <3>1, <1>0, UserStays DEF Goto
    <3>. QED BY <3>2, <2>4 DEF Write, Commit, Raise, Slots
  <2>5. CASE Leave(b)
    <3>1. b \in Users /\ lost' = lost
      BY <2>0, <2>5 DEF Leave
    <3>2. CASE stopped
      <4>1. Users' = Users
        BY <3>1, <3>2, <2>5, <1>0, UserStays DEF Leave, Goto, Places
      <4>. QED BY <3>1, <3>2, <4>1, <2>5 DEF Leave, Slots
    <3>3. CASE ~stopped
      <4>1. Cardinality(Users') = Cardinality(Users) - 1
        BY <3>1, <3>3, <2>5, <1>0, UserGoes DEF Leave, Goto
      <4>2. held[b] \notin free /\ free' = free \cup {held[b]}
        BY <3>3, <2>5, <1>0 DEF Leave, ExclusiveUse, Types
      <4>3. Cardinality(free') = Cardinality(free) + 1
        BY <4>2, <1>t, FS_AddElement
      <4>. QED BY <3>1, <4>1, <4>3, <1>t DEF Slots
    <3>. QED BY <3>2, <3>3
  <2>6. CASE Closed(b)
    <3>1. b \in Users /\ lost' = lost /\ free' = free
      BY <2>0, <2>6 DEF Closed
    <3>2. CASE pc[b] = "close"
      <4>1. Users' = Users
        BY <3>1, <3>2, <2>6, <1>0, UserStays DEF Closed, Goto, Places
      <4>. QED BY <3>1, <4>1 DEF Slots
    <3>3. CASE pc[b] = "lastclose"
      <4>1. Cardinality(Users') = Cardinality(Users) - 1
        BY <3>1, <3>3, <2>6, <1>0, UserGoes DEF Closed, Goto
      <4>2. stopped
        BY <3>3, <1>0 DEF PhaseOK
      <4>. QED BY <3>1, <4>1, <4>2, <1>t DEF Slots
    <3>. QED BY <3>2, <3>3, <2>6 DEF Closed
  <2>7. CASE CloseCancelled(b) \/ ReplaceFails(b)
    <3>1. b \in Users /\ lost' = lost + 1 /\ free' = free /\ Goto(b, "out")
      BY <2>0, <2>7 DEF CloseCancelled, ReplaceFails
    <3>2. Cardinality(Users') = Cardinality(Users) - 1
      BY <3>1, <1>0, UserGoes DEF Goto
    <3>. QED BY <3>1, <3>2, <1>t DEF Slots
  <2>8. CASE Replaced(b)
    <3>1. b \in Users /\ lost' = lost /\ Goto(b, "out")
      BY <2>0, <2>8 DEF Replaced
    <3>2. Cardinality(Users') = Cardinality(Users) - 1
      BY <3>1, <1>0, UserGoes DEF Goto
    <3>3. PICK c \in Conns \ open : free' = free \cup {c}
      BY <2>8 DEF Replaced
    <3>4. Cardinality(free') = Cardinality(free) + 1
      BY <3>3, <1>0, <1>t, FS_AddElement DEF Types
    <3>. QED BY <3>1, <3>2, <3>4, <1>t DEF Slots
  <2>. QED
    BY <1>5, <2>2, <2>3, <2>4, <2>5, <2>6, <2>7, <2>8 DEF BorrowerActs
<1>. QED BY <1>1, <1>2, <1>3, <1>4, <1>5, StepCases DEF vars, Pool

-----------------------------------------------------------------------------

LEMMA InvHolds == Spec => []Inv
<1>1. Inv /\ [Next]_vars => Inv'
  BY TypesStep, PhaseStep, ExclusiveStep, PlacedStep, UnfinishedStep, SlotSumStep,
     LateFreeStep DEF Inv
<1>. QED BY <1>1, InitInv, PTL DEF Spec

\* The variables keep their types, and the pool never loses more than it had.
THEOREM TypeCorrect == Spec => []TypeOK
<1>1. ASSUME Inv PROVE lost <= Threads
  <2>1. /\ Cardinality(free) \in Nat /\ Cardinality(Users) \in Nat
        /\ lost \in Nat /\ Threads \in Nat
    BY <1>1, Finite, FS_CardinalityType, ThreadsAssumption DEF Inv, Types
  <2>2. CASE phase \in {"preparing", "failed"}
    BY <1>1, <2>1, <2>2 DEF Inv, PhaseOK
  <2>3. CASE phase \in {"ready", "stopping", "stopped"}
    BY <1>1, <2>1, <2>3 DEF Inv, SlotSum, Slots, stopped
  <2>. QED BY <1>1, <2>2, <2>3 DEF Inv, Types
<1>2. Inv => TypeOK
  BY <1>1, ThreadsAssumption DEF Inv, Types, TypeOK, Places
<1>. QED BY <1>2, InvHolds, PTL

\* However lookups end, no connection has two users.
THEOREM ExclusiveUseHolds == Spec => []ExclusiveUse
<1>1. Inv => ExclusiveUse
  BY DEF Inv
<1>. QED BY <1>1, InvHolds, PTL

\* A transaction belongs to a borrower that commits it or has the connection closed.
THEOREM CleanWhenFreeHolds == Spec => []CleanWhenFree
<1>1. Inv => CleanWhenFree
  <2> SUFFICES ASSUME Inv, NEW c \in free, c \in dirty PROVE FALSE
    BY DEF CleanWhenFree
  <2>1. PICK b \in Borrowers : held[b] = c
    BY DEF Inv, Unfinished
  <2>2. c # None
    BY NoneAssumption DEF Inv, Types
  <2>. QED BY <2>1, <2>2 DEF Inv, ExclusiveUse
<1>. QED BY <1>1, InvHolds, PTL

\* Every slot of a ready pool is in it, in use, being replaced or known to be lost.
THEOREM SlotsAccountedHolds == Spec => []SlotsAccounted
<1>1. Inv => SlotsAccounted
  BY DEF Inv, SlotSum, SlotsAccounted, Slots, Users
<1>. QED BY <1>1, InvHolds, PTL

\* Whatever comes back while or after stop() drains the pool.
THEOREM StopClosesAllHolds == Spec => []StopClosesAll
<1>1. Inv => StopClosesAll
  BY NoneAssumption DEF Inv, Types, Placed, LateFree, StopClosesAll
<1>. QED BY <1>1, InvHolds, PTL

-----------------------------------------------------------------------------
(* The way out.  That whoever borrows is done in the end and that stop()     *)
(* settles (BorrowersLeave, StopSettles) is left to TLC with fairness; that  *)
(* neither can go on for ever is a matter of what each step does.            *)

\* How far each place of a borrower is from "out": no cycle, and two steps for the
\* replacement, whose connection stop() may have to close
Rank == [out |-> 0, lastclose |-> 1, open |-> 2, close |-> 3,
         done |-> 4, wrote |-> 5, use |-> 6, wait |-> 7]

Owed == {p \in Borrowers \X (1..7) : p[2] <= Rank[pc[p[1]]]}

\* What the borrowers and stop() have still to do
StepsLeft == Cardinality(Owed) + Cardinality(free) + (IF phase = "stopped" THEN 0 ELSE 1)

LEMMA RankType == Rank \in [Places -> 0..7]
BY DEF Rank, Places

LEMMA OwedFinite == IsFiniteSet(Owed) /\ Cardinality(Owed) \in Nat
<1>1. IsFiniteSet(1..7)
  <2>1. 1 \in Int /\ 7 \in Int  OBVIOUS
  <2>. QED BY <2>1, FS_Interval
<1>2. IsFiniteSet(Borrowers \X (1..7))
  BY <1>1, BorrowersAssumption, FS_Product
<1>. QED BY <1>2, FS_Subset, FS_CardinalityType DEF Owed

\* A borrower that goes to a lower rank leaves the others' as they are
LEMMA OwedLess ==
  ASSUME Types, NEW b \in Borrowers, NEW place \in Places,
         pc' = [pc EXCEPT ![b] = place], Rank[place] < Rank[pc[b]]
  PROVE  /\ Owed' \subseteq Owed
         /\ \A r \in (Rank[place] + 1)..Rank[pc[b]] : <<b, r>> \in Owed \ Owed'
<1>1. /\ pc[b] \in Places /\ pc'[b] = place /\ \A a \in Borrowers \ {b} : pc'[a] = pc[a]
      /\ Rank[place] \in 0..7 /\ Rank[pc[b]] \in 0..7
  BY RankType DEF Types
<1>2. ASSUME NEW a \in Borrowers, NEW r \in 1..7, r <= Rank[pc'[a]]
      PROVE  r <= Rank[pc[a]]
  BY <1>1, <1>2
<1>3. Owed' \subseteq Owed
  BY <1>2 DEF Owed
<1>4. ASSUME NEW r \in (Rank[place] + 1)..Rank[pc[b]]
      PROVE  <<b, r>> \in Owed \ Owed'
  <2>1. r \in 1..7 /\ r <= Rank[pc[b]] /\ ~ (r <= Rank[pc'[b]])
    BY <1>1, <1>4
  <2>. QED BY <2>1 DEF Owed
<1>. QED BY <1>3, <1>4

LEMMA OneLess ==
  ASSUME Types, NEW b \in Borrowers, NEW place \in Places,
         pc' = [pc EXCEPT ![b] = place], Rank[place] < Rank[pc[b]]
  PROVE  Cardinality(Owed') \in Nat /\ Cardinality(Owed') < Cardinality(Owed)
<1>1. Rank[pc[b]] \in (Rank[place] + 1)..Rank[pc[b]]
  BY RankType DEF Types
<1>2. Owed' \subseteq Owed \ {<<b, Rank[pc[b]]>>} /\ <<b, Rank[pc[b]]>> \in Owed
  BY <1>1, OwedLess
<1>3. Cardinality(Owed \ {<<b, Rank[pc[b]]>>}) = Cardinality(Owed) - 1
      /\ IsFiniteSet(Owed \ {<<b, Rank[pc[b]]>>})
  BY <1>2, OwedFinite, FS_RemoveElement
<1>4. /\ Cardinality(Owed') <= Cardinality(Owed \ {<<b, Rank[pc[b]]>>})
      /\ IsFiniteSet(Owed')
  BY <1>2, <1>3, FS_Subset
<1>. QED BY <1>3, <1>4, OwedFinite, FS_CardinalityType

\* A replacement counts for two
LEMMA TwoLess ==
  ASSUME Types, NEW b \in Borrowers, pc[b] = "open", pc' = [pc EXCEPT ![b] = "out"]
  PROVE  Cardinality(Owed') \in Nat /\ Cardinality(Owed') + 1 < Cardinality(Owed)
<1>1. Rank["open"] = 2 /\ Rank["out"] = 0 /\ "out" \in Places
  BY DEF Rank, Places
<1>2. Owed' \subseteq Owed /\ \A r \in 1..2 : <<b, r>> \in Owed \ Owed'
  <2>1. Rank["out"] < Rank[pc[b]] /\ (Rank["out"] + 1)..Rank[pc[b]] = 1..2
    BY <1>1
  <2>2. /\ Owed' \subseteq Owed
        /\ \A r \in (Rank["out"] + 1)..Rank[pc[b]] : <<b, r>> \in Owed \ Owed'
    BY <1>1, <2>1, OwedLess
  <2>. QED BY <2>1, <2>2
<1>3. PICK A : A = Owed \ {<<b, 1>>}
  OBVIOUS
<1>4. Cardinality(A) = Cardinality(Owed) - 1 /\ IsFiniteSet(A) /\ <<b, 2>> \in A
  BY <1>2, <1>3, OwedFinite, FS_RemoveElement
<1>5. Cardinality(A \ {<<b, 2>>}) = Cardinality(A) - 1 /\ IsFiniteSet(A \ {<<b, 2>>})
  BY <1>4, FS_RemoveElement
<1>6. Owed' \subseteq A \ {<<b, 2>>}
  BY <1>2, <1>3
<1>7. Cardinality(Owed') <= Cardinality(A \ {<<b, 2>>}) /\ IsFiniteSet(Owed')
  BY <1>5, <1>6, FS_Subset
<1>8. Cardinality(Owed') \in Nat /\ Cardinality(A) \in Nat
  BY <1>4, <1>7, FS_CardinalityType
<1>. QED BY <1>4, <1>5, <1>7, <1>8, OwedFinite

LEMMA FreeLess ==
  ASSUME Types, NEW c \in free, free' = free \ {c}
  PROVE  Cardinality(free') = Cardinality(free) - 1
BY Finite, FS_RemoveElement

LEMMA FreeMore ==
  ASSUME Types, NEW c, free' = free \cup {c}
  PROVE  Cardinality(free') \in Nat /\ Cardinality(free') <= Cardinality(free) + 1
<1>1. IsFiniteSet(free) /\ Cardinality(free) \in Nat
  BY Finite, FS_CardinalityType
<1>2. Cardinality(free \cup {c}) = IF c \in free THEN Cardinality(free) ELSE Cardinality(free) + 1
  BY <1>1, FS_AddElement
<1>. QED BY <1>1, <1>2

\* Every step of a borrower takes it nearer to its end, those of stop() too, and
\* nobody new comes once the pool is stopped.
LEMMA StepsLess ==
  ASSUME Types, stopped, Next
  PROVE  StepsLeft' < StepsLeft
<1>. USE DEF stopped
<1>1. Cardinality(Owed) \in Nat /\ Cardinality(free) \in Nat
  BY OwedFinite, Finite, FS_CardinalityType
<1>2. ASSUME phase' = phase, free' = free,
             Cardinality(Owed') \in Nat, Cardinality(Owed') < Cardinality(Owed)
      PROVE  StepsLeft' < StepsLeft
  BY <1>1, <1>2 DEF StepsLeft
<1>3. ASSUME NEW b \in Borrowers, NEW place \in Places,
             phase' = phase, free' = free, Goto(b, place), Rank[place] < Rank[pc[b]]
      PROVE  StepsLeft' < StepsLeft
  BY <1>2, <1>3, OneLess DEF Goto
<1>4. CASE StopClosesOne
  <2>1. Owed' = Owed /\ phase = "stopping"
    BY <1>4 DEF StopClosesOne, Owed
  <2>2. CASE phase' = "stopped" /\ free' = free
    BY <1>1, <2>1, <2>2 DEF StepsLeft
  <2>3. CASE phase' = "stopping" /\ \E c \in free : free' = free \ {c}
    <3>1. Cardinality(free') = Cardinality(free) - 1
      BY <2>3, FreeLess
    <3>. QED BY <1>1, <2>1, <2>3, <3>1 DEF StepsLeft
  <2>. QED BY <1>4, <2>2, <2>3 DEF StopClosesOne, DrainNext
<1>5. ASSUME NEW b \in Borrowers, Proceed(b) PROVE StepsLeft' < StepsLeft
  <2>. USE DEF Rank, Places
  <2>1. CASE Acquire(b)
    <3>1. Cardinality(free') = Cardinality(free) - 1
      BY <2>1, FreeLess DEF Acquire
    <3>2. Cardinality(Owed') \in Nat /\ Cardinality(Owed') < Cardinality(Owed)
      <4>1. /\ "use" \in Places /\ pc' = [pc EXCEPT ![b] = "use"]
            /\ Rank["use"] < Rank[pc[b]]
        BY <2>1 DEF Acquire, Goto
      <4>. QED BY <4>1, OneLess
    <3>3. phase' = phase
      BY <2>1 DEF Acquire
    <3>. QED BY <1>1, <3>1, <3>2, <3>3 DEF StepsLeft
  <2>2. CASE TimesOut(b)
    BY <1>3, <2>2 DEF TimesOut
  <2>3. CASE Write(b)
    BY <1>3, <2>3 DEF Write
  <2>4. CASE Commit(b)
    BY <1>3, <2>4 DEF Commit
  <2>5. CASE Leave(b)
    BY <1>3, <2>5 DEF Leave
  <2>6. CASE Raise(b)
    BY <1>3, <2>6 DEF Raise
  <2>7. CASE Closed(b)
    BY <1>3, <2>7 DEF Closed
  <2>8. CASE CloseCancelled(b)
    BY <1>3, <2>8 DEF CloseCancelled
  <2>9. CASE Replaced(b)
    <3>1. Cardinality(Owed') \in Nat /\ Cardinality(Owed') + 1 < Cardinality(Owed)
      BY <2>9, TwoLess DEF Replaced, Goto
    <3>2. PICK c : free' = free \cup {c}
      BY <2>9 DEF Replaced
    <3>3. Cardinality(free') \in Nat /\ Cardinality(free') <= Cardinality(free) + 1
      BY <3>2, FreeMore
    <3>4. phase' = phase
      BY <2>9 DEF Replaced
    <3>. QED BY <1>1, <3>1, <3>3, <3>4 DEF StepsLeft
  <2>10. CASE ReplaceFails(b)
    BY <1>3, <2>10 DEF ReplaceFails
  <2>. QED BY <1>5, <2>1, <2>2, <2>3, <2>4, <2>5, <2>6, <2>7, <2>8, <2>9, <2>10 DEF Proceed
<1>. QED BY <1>4, <1>5 DEF Next, PrepareOne, PrepareFails, Stop, Borrow

\* There is never more to do than this
LEMMA StepsBound ==
  ASSUME Types
  PROVE  StepsLeft \in 0..(7 * Cardinality(Borrowers) + Cardinality(Conns) + 1)
<1>1. Cardinality(Borrowers) \in Nat /\ Cardinality(Conns) \in Nat
  BY BorrowersAssumption, ThreadsAssumption, FS_CardinalityType
<1>2. Cardinality(Owed) <= 7 * Cardinality(Borrowers)
  <2>1. 1 \in Int /\ 7 \in Int  OBVIOUS
  <2>2. IsFiniteSet(1..7) /\ Cardinality(1..7) = IF 1 > 7 THEN 0 ELSE 7 - 1 + 1
    BY <2>1, FS_Interval
  <2>3. /\ IsFiniteSet(Borrowers \X (1..7))
        /\ Cardinality(Borrowers \X (1..7)) = Cardinality(Borrowers) * Cardinality(1..7)
    BY <2>2, BorrowersAssumption, FS_Product
  <2>4. Cardinality(Owed) <= Cardinality(Borrowers \X (1..7))
    BY <2>3, FS_Subset DEF Owed
  <2>5. Cardinality(1..7) = 7
    BY <2>2
  <2>6. Cardinality(Borrowers) * Cardinality(1..7) = 7 * Cardinality(Borrowers)
    BY <1>1, <2>5
  <2>. QED BY <2>3, <2>4, <2>6
<1>3. Cardinality(free) <= Cardinality(Conns)
  <2>1. free \in SUBSET Conns  BY DEF Types
  <2>. QED BY <2>1, ThreadsAssumption, FS_Subset
<1>4. Cardinality(Owed) \in Nat /\ Cardinality(free) \in Nat
  BY OwedFinite, Finite, FS_CardinalityType
<1>. QED BY <1>1, <1>2, <1>3, <1>4 DEF StepsLeft

\* Once stop() was called the pool comes to rest: every step that is still taken, by a
\* borrower or by stop(), leaves fewer to take, although connections keep coming back
\* and replacements are still opened and put into the queue that stop() empties.
SettlingEnds == [][stopped => StepsLeft' < StepsLeft]_vars

\* Fairness, which TLC checks StopSettles under, has only to let the steps happen:
\* there are at most seven for each borrower, one for each connection and one more.
THEOREM SettlingEndsHolds ==
  Spec => /\ [](StepsLeft \in 0..(7 * Cardinality(Borrowers) + Cardinality(Conns) + 1))
          /\ SettlingEnds
<1>1. Inv => StepsLeft \in 0..(7 * Cardinality(Borrowers) + Cardinality(Conns) + 1)
  BY StepsBound DEF Inv
<1>2. Inv /\ [Next]_vars => [stopped => StepsLeft' < StepsLeft]_vars
  BY StepsLess DEF Inv
<1>. QED BY <1>1, <1>2, InvHolds, PTL DEF Spec, SettlingEnds

\* A task that has asked for a connection goes one way only, to the end of its "async
\* with", and no other task, stop() or failure takes it back: at most seven steps.
OneWay ==
  [][\A b \in Borrowers : pc[b] # "out" => pc'[b] = pc[b] \/ Rank[pc'[b]] < Rank[pc[b]]]_vars

\* The same for one borrower, whether the pool is stopped or not (BorrowersLeave).
THEOREM OneWayHolds == Spec => OneWay
<1>1. ASSUME Types, Next, NEW b \in Borrowers, pc[b] # "out"
      PROVE  pc'[b] = pc[b] \/ Rank[pc'[b]] < Rank[pc[b]]
  <2>1. CASE PrepareOne \/ PrepareFails \/ Stop \/ StopClosesOne
    BY <2>1 DEF PrepareOne, PrepareFails, Stop, StopClosesOne
  <2>2. ASSUME NEW a \in Borrowers, Borrow(a) \/ Proceed(a)
        PROVE  pc'[b] = pc[b] \/ Rank[pc'[b]] < Rank[pc[b]]
    <3>1. CASE a = b
      BY <1>1, <2>2, <3>1
         DEF Types, Places, Rank, Borrow, Proceed, Acquire, TimesOut, Write, Commit, Leave,
             Raise, Closed, CloseCancelled, Replaced, ReplaceFails, Goto
    <3>2. CASE a # b
      BY <1>1, <2>2, <3>2
         DEF Types, Borrow, Proceed, Acquire, TimesOut, Write, Commit, Leave,
             Raise, Closed, CloseCancelled, Replaced, ReplaceFails, Goto
    <3>. QED BY <3>1, <3>2
  <2>. QED BY <1>1, <2>1, <2>2 DEF Next
<1>2. Inv /\ [Next]_vars =>
        [\A b \in Borrowers : pc[b] # "out" => pc'[b] = pc[b] \/ Rank[pc'[b]] < Rank[pc[b]]]_vars
  BY <1>1 DEF Inv
<1>. QED BY <1>2, InvHolds, PTL DEF Spec, OneWay
=============================================================================
