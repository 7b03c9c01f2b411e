------------------------ MODULE ProactiveFetchProofs ------------------------
(***************************************************************************)
(* Proofs about ProactiveFetch for any domains, processors, backend and    *)
(* sizes, whatever fails and whichever cancellations are lost.             *)
(***************************************************************************)
EXTENDS ProactiveFetch, SequenceTheorems, FiniteSetTheorems, TLAPS

\* All that is needed of the type of work
WorkType == work = [p \in Processors |-> work[p]]

\* Leaving the fetch task at its await ends it at once only where no processor is.
LEMMA UnwindQuiet ==
  ASSUME WorkType, NoStrayProcessor, Unwind, queue' = queue
  PROVE  WorkType' /\ NoStrayProcessor'
<1>1. CASE fpc \in {"sleep", "save"}
  BY <1>1 DEF Unwind, WorkType, NoStrayProcessor
<1>2. CASE fpc \notin {"sleep", "save"}
  <2>1. fpc' = "unwind" /\ CancelProcessors
    BY <1>2 DEF Unwind
  <2>2. WorkType'
    BY <2>1 DEF CancelProcessors, WorkType
  <2>. QED BY <2>1, <2>2 DEF NoStrayProcessor
<1>. QED BY <1>1, <1>2

LEMMA StrayStep == WorkType /\ NoStrayProcessor /\ [Next]_vars => WorkType' /\ NoStrayProcessor'
<1> SUFFICES ASSUME WorkType, NoStrayProcessor, [Next]_vars
             PROVE  WorkType' /\ NoStrayProcessor'
  OBVIOUS
<1>1. CASE UNCHANGED vars \/ \E d \in Domains : Request(d)
  <2>1. UNCHANGED <<fpc, queue, work>>
    BY <1>1 DEF vars, Request, roundVars
  <2>. QED BY <2>1 DEF WorkType, NoStrayProcessor
<1>2. CASE StartRound
  BY <1>2 DEF StartRound, WorkType, NoStrayProcessor
<1>3. CASE Scan \/ Put \/ PutResumes
  <2>1. work' = work /\ fpc' \in {"scan", "put", "blocked", "join"}
    BY <1>3 DEF Scan, Put, PutResumes
  <2>. QED BY <2>1 DEF WorkType, NoStrayProcessor
<1>4. CASE Join
  BY <1>4 DEF Join, WorkType, NoStrayProcessor
<1>5. CASE Save
  BY <1>5 DEF Save, WorkType, NoStrayProcessor
<1>6. CASE Unwound
  BY <1>6 DEF Unwound, WorkType, NoStrayProcessor
<1>7. CASE CacheRaises
  BY <1>7, UnwindQuiet DEF CacheRaises
<1>8. CASE Stop
  <2>1. CASE UNCHANGED <<fpc, work, queue>>
    BY <2>1 DEF WorkType, NoStrayProcessor
  <2>2. CASE Unwind /\ queue' = queue
    BY <2>2, UnwindQuiet
  <2>. QED BY <1>8, <2>1, <2>2 DEF Stop
<1>9. ASSUME NEW p \in Processors, Take(p) \/ Update(p)
      PROVE  WorkType' /\ NoStrayProcessor'
  <2>1. work[p] # "off" /\ fpc' = fpc
    BY <1>9, NamesAssumption DEF Take, Update
  <2>2. fpc \notin {"sleep", "save", "over"}
    BY <2>1 DEF NoStrayProcessor
  <2>3. WorkType'
    BY <1>9 DEF Take, Update, WorkType
  <2>. QED BY <2>1, <2>2, <2>3 DEF NoStrayProcessor
<1>. QED BY <1>1, <1>2, <1>3, <1>4, <1>5, <1>6, <1>7, <1>8, <1>9 DEF Next, Fetcher, Others

\* However a round ends, and whatever cancellation is lost on the way, the fetch
\* task is over, asleep or saving only when no processor of it is left.
THEOREM NoStrayProcessorHolds == Spec => []NoStrayProcessor
<1>1. Init => WorkType /\ NoStrayProcessor
  BY DEF Init, WorkType, NoStrayProcessor
<1>. QED BY <1>1, StrayStep, PTL DEF Spec

-----------------------------------------------------------------------------
(* Types: what the operations of the cache make of its entries *)

RowsOK ==
  /\ rows \in Seq(Domains)
  /\ \A i, j \in DOMAIN rows : rows[i] = rows[j] => i = j
  /\ backend = "internal" => Len(rows) <= CacheSize

\* new is old after x was moved to the end or added there, and perhaps the first entry
\* evicted: no other entry has moved back or overtaken another
Moved(new, old, x) ==
  \A j \in DOMAIN new : new[j] # x =>
    \E k \in DOMAIN old :
      /\ k >= j /\ new[j] = old[k]
      /\ \A m \in 1..(j - 1) : \E n \in 1..(k - 1) : new[m] = old[n] /\ old[n] # x

\* The entries after the one at i was moved to the end
LEMMA MovedToEndFacts ==
  ASSUME RowsOK, NEW i \in DOMAIN rows
  PROVE  /\ MovedToEnd(i) \in Seq(Domains) /\ Len(MovedToEnd(i)) = Len(rows)
         /\ DOMAIN MovedToEnd(i) = 1..Len(rows)
         /\ \A j \in 1..Len(rows) :
              MovedToEnd(i)[j] = rows[IF j < i THEN j ELSE IF j < Len(rows) THEN j + 1 ELSE i]
<1>1. rows \in Seq(Domains) /\ Len(rows) \in Nat /\ DOMAIN rows = 1..Len(rows) /\ i \in 1..Len(rows)
  BY DEF RowsOK
<1>2. MovedToEnd(i) =
        [j \in 1..Len(rows) |-> IF j < i THEN rows[j]
                                ELSE IF j < Len(rows) THEN rows[j + 1] ELSE rows[i]]
  BY <1>1 DEF MovedToEnd
<1>3. MovedToEnd(i) \in [1..Len(rows) -> Domains]
  BY <1>1, <1>2
<1>4. MovedToEnd(i) \in Seq(Domains) /\ Len(MovedToEnd(i)) = Len(rows)
  BY <1>1, <1>3
<1>. QED BY <1>1, <1>2, <1>4

LEMMA UsedFacts ==
  ASSUME RowsOK, NEW d \in Domains, Cached(d)
  PROVE  /\ Used(d) \in Seq(Domains) /\ Len(Used(d)) = Len(rows)
         /\ \A i, j \in DOMAIN Used(d) : Used(d)[i] = Used(d)[j] => i = j
         /\ \A i \in DOMAIN rows : \E j \in DOMAIN Used(d) : Used(d)[j] = rows[i]
         /\ backend = "internal" => Moved(Used(d), rows, d)
<1>1. rows \in Seq(Domains) /\ Len(rows) \in Nat /\ DOMAIN rows = 1..Len(rows)
  BY DEF RowsOK
<1>2. CASE backend # "internal"
  BY <1>1, <1>2 DEF Used, RowsOK
<1>3. CASE backend = "internal"
  <2>. DEFINE p == CHOOSE i \in DOMAIN rows : rows[i] = d
              new == MovedToEnd(p)
              from(j) == IF j < p THEN j ELSE IF j < Len(rows) THEN j + 1 ELSE p
  <2>1. p \in 1..Len(rows) /\ rows[p] = d
    BY <1>1 DEF Cached
  <2>2. Used(d) = new
    BY <1>3 DEF Used
  <2>. HIDE DEF p
  <2>3. new \in Seq(Domains) /\ Len(new) = Len(rows) /\ DOMAIN new = 1..Len(rows)
    BY <1>1, <2>1, MovedToEndFacts
  <2>4. \A j \in 1..Len(rows) : new[j] = rows[from(j)] /\ from(j) \in 1..Len(rows)
    BY <1>1, <2>1, MovedToEndFacts
  <2>5. \A i, j \in 1..Len(rows) : from(i) = from(j) => i = j
    BY <1>1, <2>1
  <2>6. \A i \in 1..Len(rows) : \E j \in 1..Len(rows) : from(j) = i
    <3> SUFFICES ASSUME NEW i \in 1..Len(rows) PROVE \E j \in 1..Len(rows) : from(j) = i
      OBVIOUS
    <3>1. CASE i < p
      BY <1>1, <2>1, <3>1
    <3>2. CASE i = p
      <4>1. Len(rows) \in 1..Len(rows) /\ p \in Nat /\ ~(Len(rows) < p)
        BY <1>1, <2>1
      <4>2. from(Len(rows)) = p
        BY <1>1, <4>1
      <4>. QED BY <3>2, <4>1, <4>2
    <3>3. CASE i > p
      <4>1. from(i - 1) = i /\ i - 1 \in 1..Len(rows)
        BY <1>1, <2>1, <3>3
      <4>. QED BY <4>1
    <3>. QED BY <1>1, <2>1, <3>1, <3>2, <3>3
  <2>. HIDE DEF new
  <2>7. \A i, j \in DOMAIN new : new[i] = new[j] => i = j
    <3> SUFFICES ASSUME NEW i \in 1..Len(rows), NEW j \in 1..Len(rows), new[i] = new[j]
                 PROVE  i = j
      BY <2>3
    <3>1. rows[from(i)] = rows[from(j)] /\ from(i) \in DOMAIN rows /\ from(j) \in DOMAIN rows
      BY <1>1, <2>4
    <3>2. from(i) = from(j)
      BY <3>1 DEF RowsOK
    <3>. QED BY <2>5, <3>2
  <2>8. \A i \in DOMAIN rows : \E j \in DOMAIN new : new[j] = rows[i]
    BY <1>1, <2>3, <2>4, <2>6
  <2>9. Moved(new, rows, d)
    <3> SUFFICES ASSUME NEW j \in 1..Len(rows), new[j] # d
                 PROVE  \E k \in DOMAIN rows :
                          /\ k >= j /\ new[j] = rows[k]
                          /\ \A m \in 1..(j - 1) : \E n \in 1..(k - 1) :
                               new[m] = rows[n] /\ rows[n] # d
      BY <2>3 DEF Moved
    <3>1. from(j) # p /\ from(j) >= j /\ from(j) \in DOMAIN rows /\ new[j] = rows[from(j)]
      BY <1>1, <2>1, <2>4
    <3>2. ASSUME NEW m \in 1..(j - 1)
          PROVE  from(m) \in 1..(from(j) - 1) /\ new[m] = rows[from(m)] /\ rows[from(m)] # d
      <4>1. m \in 1..Len(rows) /\ from(m) \in 1..(from(j) - 1) /\ from(m) # p
        BY <1>1, <2>1, <3>1
      <4>2. rows[from(m)] # rows[p]
        BY <1>1, <2>1, <2>4, <4>1 DEF RowsOK
      <4>. QED BY <2>1, <2>4, <4>1, <4>2
    <3>. QED BY <3>1, <3>2
  <2>. QED BY <1>1, <2>2, <2>3, <2>7, <2>8, <2>9
<1>. QED BY <1>2, <1>3

LEMMA StoredFacts ==
  ASSUME RowsOK, NEW d \in Domains
  PROVE  /\ Stored(d) \in Seq(Domains) /\ Len(Stored(d)) >= Len(rows)
         /\ \A i, j \in DOMAIN Stored(d) : Stored(d)[i] = Stored(d)[j] => i = j
         /\ backend = "internal" => Len(Stored(d)) <= CacheSize /\ Moved(Stored(d), rows, d)
         /\ backend # "internal" =>
              \A i \in DOMAIN rows : i \in DOMAIN Stored(d) /\ Stored(d)[i] = rows[i]
         /\ backend # "internal" =>
              \A i \in DOMAIN Stored(d) : i \in DOMAIN rows \/ Stored(d)[i] = d
<1>0. Len(rows) \in Nat /\ (backend = "internal" => Len(rows) <= CacheSize)
  BY DEF RowsOK
<1>1. rows \in Seq(Domains) /\ DOMAIN rows = 1..Len(rows)
  BY DEF RowsOK
<1>2. CASE Cached(d)
  <2>1. Stored(d) = Used(d)
    BY <1>2 DEF Stored
  <2>2. backend # "internal" => Used(d) = rows
    BY DEF Used
  <2>. QED BY <1>0, <1>1, <1>2, <2>1, <2>2, UsedFacts
<1>3. CASE ~Cached(d) /\ ~(backend = "internal" /\ Len(rows) >= CacheSize)
  <2>1. Stored(d) = Append(rows, d)
    BY <1>3 DEF Stored
  <2>2. /\ Append(rows, d) \in Seq(Domains) /\ Len(Append(rows, d)) = Len(rows) + 1
        /\ DOMAIN Append(rows, d) = 1..(Len(rows) + 1)
        /\ \A i \in 1..Len(rows) : Append(rows, d)[i] = rows[i]
        /\ Append(rows, d)[Len(rows) + 1] = d
    BY <1>0, <1>1
  <2>3. \A i \in 1..Len(rows) : rows[i] # d
    BY <1>0, <1>1, <1>3 DEF Cached
  <2>4. \A i, j \in 1..(Len(rows) + 1) : Append(rows, d)[i] = Append(rows, d)[j] => i = j
    <3> SUFFICES ASSUME NEW i \in 1..(Len(rows) + 1), NEW j \in 1..(Len(rows) + 1),
                        Append(rows, d)[i] = Append(rows, d)[j]
                 PROVE  i = j
      OBVIOUS
    <3>1. CASE i \in 1..Len(rows) /\ j \in 1..Len(rows)
      BY <1>0, <1>1, <2>2, <3>1 DEF RowsOK
    <3>2. CASE i = Len(rows) + 1 \/ j = Len(rows) + 1
      BY <1>0, <1>1, <2>2, <2>3, <3>2
    <3>. QED BY <1>0, <1>1, <3>1, <3>2
  <2>5. Moved(Append(rows, d), rows, d)
    <3> SUFFICES ASSUME NEW j \in 1..(Len(rows) + 1), Append(rows, d)[j] # d
                 PROVE  \E k \in DOMAIN rows :
                          /\ k >= j /\ Append(rows, d)[j] = rows[k]
                          /\ \A m \in 1..(j - 1) : \E n \in 1..(k - 1) :
                               Append(rows, d)[m] = rows[n] /\ rows[n] # d
      BY <2>2 DEF Moved
    <3>1. j \in 1..Len(rows)
      BY <1>0, <1>1, <2>2
    <3>. QED BY <1>0, <1>1, <2>2, <2>3, <3>1
  <2>. QED BY <1>0, <1>1, <1>3, <2>1, <2>2, <2>4, <2>5, SizesAssumption
<1>4. CASE ~Cached(d) /\ backend = "internal" /\ Len(rows) >= CacheSize
  <2>. DEFINE new == Append(Tail(rows), d)
  <2>0. Len(rows) = CacheSize /\ Len(rows) >= 1
    BY <1>0, <1>4, SizesAssumption
  <2>1. Stored(d) = new
    BY <1>4 DEF Stored
  <2>2. /\ Tail(rows) \in Seq(Domains) /\ Len(Tail(rows)) = Len(rows) - 1
        /\ \A i \in 1..(Len(rows) - 1) : Tail(rows)[i] = rows[i + 1]
    BY <1>0, <1>1, <2>0
  <2>3. /\ new \in Seq(Domains) /\ Len(new) = Len(rows) /\ DOMAIN new = 1..Len(rows)
        /\ \A i \in 1..(Len(rows) - 1) : new[i] = rows[i + 1]
        /\ new[Len(rows)] = d
    BY <1>0, <1>1, <2>0, <2>2
  <2>. HIDE DEF new
  <2>4. \A i \in 1..Len(rows) : rows[i] # d
    BY <1>0, <1>1, <1>4 DEF Cached
  <2>5. \A i, j \in 1..Len(rows) : new[i] = new[j] => i = j
    <3> SUFFICES ASSUME NEW i \in 1..Len(rows), NEW j \in 1..Len(rows), new[i] = new[j]
                 PROVE  i = j
      OBVIOUS
    <3>1. CASE i # Len(rows) /\ j # Len(rows)
      <4>0. /\ i \in 1..(Len(rows) - 1) /\ j \in 1..(Len(rows) - 1)
            /\ i + 1 \in 1..Len(rows) /\ j + 1 \in 1..Len(rows)
        BY <1>0, <3>1
      <4>1. rows[i + 1] = rows[j + 1]
        BY <2>3, <4>0
      <4>2. i + 1 = j + 1
        BY <1>1, <4>0, <4>1 DEF RowsOK
      <4>. QED BY <4>2
    <3>2. CASE i = Len(rows) /\ j # Len(rows)
      <4>0. j \in 1..(Len(rows) - 1) /\ j + 1 \in 1..Len(rows)
        BY <1>0, <3>2
      <4>1. new[j] = rows[j + 1]
        BY <2>3, <4>0
      <4>. QED BY <4>0, <2>3, <2>4, <3>2, <4>1
    <3>3. CASE j = Len(rows) /\ i # Len(rows)
      <4>0. i \in 1..(Len(rows) - 1) /\ i + 1 \in 1..Len(rows)
        BY <1>0, <3>3
      <4>1. new[i] = rows[i + 1]
        BY <2>3, <4>0
      <4>. QED BY <4>0, <2>3, <2>4, <3>3, <4>1
    <3>. QED BY <3>1, <3>2, <3>3
  <2>6. Moved(new, rows, d)
    <3> SUFFICES ASSUME NEW j \in 1..Len(rows), new[j] # d
                 PROVE  \E k \in DOMAIN rows :
                          /\ k >= j /\ new[j] = rows[k]
                          /\ \A m \in 1..(j - 1) : \E n \in 1..(k - 1) :
                               new[m] = rows[n] /\ rows[n] # d
      BY <2>3 DEF Moved
    <3>1. j \in 1..(Len(rows) - 1) /\ j + 1 \in DOMAIN rows /\ j + 1 >= j /\ new[j] = rows[j + 1]
      BY <1>0, <1>1, <2>3
    <3>2. ASSUME NEW m \in 1..(j - 1)
          PROVE  m + 1 \in 1..((j + 1) - 1) /\ new[m] = rows[m + 1] /\ rows[m + 1] # d
      <4>1. m + 1 \in 1..((j + 1) - 1) /\ m \in 1..(Len(rows) - 1) /\ m + 1 \in 1..Len(rows)
        BY <1>0, <3>1
      <4>. QED BY <2>3, <2>4, <4>1
    <3>. QED BY <3>1, <3>2
  <2>. QED BY <1>0, <1>1, <1>4, <2>0, <2>1, <2>3, <2>5, <2>6
<1>. QED BY <1>2, <1>3, <1>4

-----------------------------------------------------------------------------
(* Scans *)

TokenOK == token = None \/ token \in IF backend = "redis" THEN SUBSET Domains ELSE Nat

LEMMA AmountFacts ==
  ASSUME RowsOK, TokenOK, backend # "redis"
  PROVE  /\ Offset \in Nat /\ Amount \in 0..DomainQueueLimit
         /\ Amount <= Len(rows)
         /\ Offset < Len(rows) => Offset + Amount <= Len(rows) /\ Amount > 0
         /\ Offset >= Len(rows) => Amount = 0
<1>1. Len(rows) \in Nat /\ DomainQueueLimit \in Nat \ {0}
  BY SizesAssumption DEF RowsOK
<1>2. Offset \in Nat
  BY DEF TokenOK, Offset
<1>3. Len(rows) - Offset \in Int
  BY <1>1, <1>2
<1>. QED BY <1>1, <1>2, <1>3 DEF Amount

LEMMA InternalScanFacts ==
  ASSUME RowsOK, TokenOK, backend # "redis", InternalScan
  PROVE  /\ batch' \in Seq(Domains) /\ Len(batch') = Amount
         /\ \A i \in 1..Amount : batch'[i] = rows[i]
         /\ rows' \in Seq(Domains) /\ Len(rows') = Len(rows)
         /\ \A j \in 1..(Len(rows) - Amount) : rows'[j] = rows[j + Amount]
         /\ \A j \in (Len(rows) - Amount + 1)..Len(rows) :
              rows'[j] = rows[j - (Len(rows) - Amount)]
         /\ \A i, j \in DOMAIN rows' : rows'[i] = rows'[j] => i = j
         /\ \A i \in DOMAIN rows : \E j \in DOMAIN rows' : rows'[j] = rows[i]
<1>. DEFINE front == SubSeq(rows, 1, Amount)
            back == SubSeq(rows, Amount + 1, Len(rows))
            from(j) == IF j <= Len(rows) - Amount THEN j + Amount ELSE j - (Len(rows) - Amount)
<1>1. rows \in Seq(Domains) /\ DOMAIN rows = 1..Len(rows) /\ \A i \in 1..Len(rows) : rows[i] \in Domains
  BY DEF RowsOK
<1>2. Len(rows) \in Nat /\ Amount \in Nat /\ Amount <= Len(rows)
  BY <1>1, AmountFacts, SizesAssumption
<1>3. /\ front \in Seq(Domains) /\ Len(front) = Amount
      /\ \A i \in 1..Amount : front[i] = rows[i]
  BY <1>1, <1>2, SubSeqProperties
<1>4. /\ back \in Seq(Domains) /\ Len(back) = Len(rows) - Amount
      /\ \A i \in 1..(Len(rows) - Amount) : back[i] = rows[i + Amount]
  <2>1. \A i \in (Amount + 1)..Len(rows) : rows[i] \in Domains
    BY <1>1, <1>2
  <2>2. /\ back \in Seq(Domains)
        /\ Len(back) = IF Amount + 1 <= Len(rows) THEN Len(rows) - (Amount + 1) + 1 ELSE 0
        /\ \A i \in 1..(Len(rows) - (Amount + 1) + 1) : back[i] = rows[(Amount + 1) + i - 1]
    BY <1>2, <2>1, SubSeqProperties
  <2>3. Len(rows) - (Amount + 1) + 1 = Len(rows) - Amount
    BY <1>2
  <2>4. Len(back) = Len(rows) - Amount
    BY <1>2, <2>2
  <2>5. ASSUME NEW i \in 1..(Len(rows) - Amount) PROVE back[i] = rows[i + Amount]
    <3>1. (Amount + 1) + i - 1 = i + Amount
      BY <1>2
    <3>. QED BY <2>2, <2>3, <3>1
  <2>. QED BY <2>2, <2>4, <2>5
<1>5. batch' = front /\ rows' = back \o front
  BY DEF InternalScan
<1>. HIDE DEF front, back
<1>6. /\ rows' \in Seq(Domains) /\ Len(rows') = Len(rows) /\ DOMAIN rows' = 1..Len(rows)
      /\ \A j \in 1..Len(rows) : rows'[j] = IF j <= Len(back) THEN back[j] ELSE front[j - Len(back)]
  <2>1. /\ back \o front \in Seq(Domains)
        /\ Len(back \o front) = Len(back) + Len(front)
        /\ \A i \in 1..(Len(back) + Len(front)) :
             (back \o front)[i] = IF i <= Len(back) THEN back[i] ELSE front[i - Len(back)]
    BY <1>3, <1>4, ConcatProperties
  <2>2. Len(back) + Len(front) = Len(rows)
    BY <1>2, <1>3, <1>4
  <2>3. rows' \in Seq(Domains) /\ Len(rows') = Len(rows)
    BY <1>5, <2>1, <2>2
  <2>. QED BY <1>5, <2>1, <2>2, <2>3
<1>7. ASSUME NEW j \in 1..Len(rows) PROVE rows'[j] = rows[from(j)] /\ from(j) \in 1..Len(rows)
  <2>1. CASE j <= Len(rows) - Amount
    <3>1. j \in 1..(Len(rows) - Amount) /\ from(j) = j + Amount /\ from(j) \in 1..Len(rows)
      BY <1>2, <2>1
    <3>. QED BY <1>4, <1>6, <2>1, <3>1
  <2>2. CASE ~(j <= Len(rows) - Amount)
    <3>1. /\ j - (Len(rows) - Amount) \in 1..Amount /\ from(j) = j - (Len(rows) - Amount)
          /\ from(j) \in 1..Len(rows)
      BY <1>2, <2>2
    <3>. QED BY <1>3, <1>4, <1>6, <2>2, <3>1
  <2>. QED BY <2>1, <2>2
<1>8. \A i, j \in 1..Len(rows) : from(i) = from(j) => i = j
  BY <1>2
<1>9. ASSUME NEW i \in DOMAIN rows PROVE \E j \in DOMAIN rows' : rows'[j] = rows[i]
  <2>0. i \in 1..Len(rows)
    BY <1>1
  <2>1. CASE i <= Amount
    <3>1. i + (Len(rows) - Amount) \in 1..Len(rows) /\ from(i + (Len(rows) - Amount)) = i
      BY <1>2, <2>0, <2>1
    <3>. QED BY <1>6, <1>7, <3>1
  <2>2. CASE i > Amount
    <3>1. i - Amount \in 1..Len(rows) /\ from(i - Amount) = i
      BY <1>2, <2>0, <2>2
    <3>. QED BY <1>6, <1>7, <3>1
  <2>. QED BY <1>2, <2>0, <2>1, <2>2
<1>10. ASSUME NEW i \in 1..Len(rows), NEW j \in 1..Len(rows), rows'[i] = rows'[j] PROVE i = j
  <2>1. rows[from(i)] = rows[from(j)] /\ from(i) \in DOMAIN rows /\ from(j) \in DOMAIN rows
    BY <1>1, <1>7, <1>10
  <2>2. from(i) = from(j)
    BY <2>1 DEF RowsOK
  <2>. QED BY <1>8, <2>2
<1>11. ASSUME NEW j \in 1..(Len(rows) - Amount) PROVE rows'[j] = rows[j + Amount]
  <2>1. j \in 1..Len(rows) /\ from(j) = j + Amount
    BY <1>2
  <2>. QED BY <1>7, <2>1
<1>12. ASSUME NEW j \in (Len(rows) - Amount + 1)..Len(rows)
       PROVE  rows'[j] = rows[j - (Len(rows) - Amount)]
  <2>1. j \in 1..Len(rows) /\ from(j) = j - (Len(rows) - Amount)
    BY <1>2
  <2>. QED BY <1>7, <2>1
<1>. QED BY <1>3, <1>5, <1>6, <1>9, <1>10, <1>11, <1>12

LEMMA SqlScanFacts ==
  ASSUME RowsOK, TokenOK, backend # "redis", SqlScan
  PROVE  /\ batch' \in Seq(Domains) /\ Len(batch') = Amount /\ rows' = rows
         /\ \A i \in 1..Amount : batch'[i] = rows[Offset + i]
<1>1. rows \in Seq(Domains) /\ \A i \in 1..Len(rows) : rows[i] \in Domains
  BY DEF RowsOK
<1>2. /\ Len(rows) \in Nat /\ Amount \in Nat /\ Offset \in Nat
      /\ Offset < Len(rows) => Offset + Amount <= Len(rows)
      /\ Offset >= Len(rows) => Amount = 0
  BY <1>1, AmountFacts, SizesAssumption
<1>3. \A i \in (Offset + 1)..(Offset + Amount) : rows[i] \in Domains
  <2>1. \A i \in (Offset + 1)..(Offset + Amount) : i \in 1..Len(rows)
    BY <1>2
  <2>. QED BY <1>1, <2>1
<1>. DEFINE part == SubSeq(rows, Offset + 1, Offset + Amount)
<1>4. /\ part \in Seq(Domains)
      /\ Len(part) = IF Offset + 1 <= Offset + Amount
                     THEN (Offset + Amount) - (Offset + 1) + 1 ELSE 0
      /\ \A i \in 1..((Offset + Amount) - (Offset + 1) + 1) : part[i] = rows[(Offset + 1) + i - 1]
  BY <1>2, <1>3, SubSeqProperties
<1>5. batch' = part /\ rows' = rows
  BY DEF SqlScan
<1>. HIDE DEF part
<1>6. Len(part) = Amount /\ (Offset + Amount) - (Offset + 1) + 1 = Amount
  BY <1>2, <1>4
<1>7. ASSUME NEW i \in 1..Amount PROVE part[i] = rows[Offset + i]
  <2>1. (Offset + 1) + i - 1 = Offset + i
    BY <1>2
  <2>. QED BY <1>4, <1>6, <2>1
<1>. QED BY <1>4, <1>5, <1>6, <1>7

LEMMA RedisScanFacts ==
  ASSUME RowsOK, TokenOK, backend = "redis", RedisScan
  PROVE  /\ batch' \in Seq(Domains) /\ rows' = rows
         /\ token' = None \/ token' \in SUBSET Domains
         /\ \A d \in Domains :
              (IF token = None THEN Cached(d) ELSE d \in token) =>
                \/ \E i \in DOMAIN batch' : batch'[i] = d
                \/ token' # None /\ d \in token'
<1>. DEFINE due == IF token = None THEN {d \in Domains : Cached(d)} ELSE token
<1>1. PICK found \in SUBSET Domains :
             /\ batch' \in Listings(found)
             /\ \/ found \cap due # {} /\ token' = due \ found
                \/ due \subseteq found /\ token' = None
  BY DEF RedisScan
<1>2. due \subseteq Domains
  BY DEF TokenOK
<1>3. IsFiniteSet(found) /\ Cardinality(found) \in Nat
  BY NamesAssumption, FS_Subset, FS_CardinalityType
<1>4. /\ batch' \in [1..Cardinality(found) -> found]
      /\ \A d \in found : \E i \in DOMAIN batch' : batch'[i] = d
  BY <1>1 DEF Listings
<1>5. batch' \in Seq(Domains)
  <2>1. batch' \in [1..Cardinality(found) -> Domains]
    BY <1>4
  <2>. QED BY <1>3, <2>1
<1>6. \A s \in SUBSET Domains : None # s
  BY NamesAssumption
<1>7. rows' = rows
  BY DEF RedisScan
<1>8. token' = None \/ token' \in SUBSET Domains
  BY <1>1, <1>2
<1>9. ASSUME NEW d \in due
      PROVE  \/ \E i \in DOMAIN batch' : batch'[i] = d
             \/ token' # None /\ d \in token'
  BY <1>1, <1>2, <1>4, <1>6
<1>. QED BY <1>5, <1>7, <1>8, <1>9

-----------------------------------------------------------------------------
(* Types *)

Work == work \in [Processors -> {"off", "idle"} \cup Domains]
Places == fpc \in {"sleep", "scan", "put", "blocked", "join", "save", "unwind", "over"}
BatchOK == batch \in Seq(Domains) /\ (backend # "redis" => Len(batch) <= DomainQueueLimit)
QueueOK == queue \in Seq(Domains) /\ Len(queue) <= DomainQueueLimit
OwedOK == owed \subseteq {d \in Domains : Cached(d)} /\ touched \subseteq owed

Types ==
  /\ backend \in Backends /\ stopping \in {"no", "yes", "lost"}
  /\ RowsOK /\ Places /\ TokenOK /\ BatchOK /\ QueueOK /\ Work /\ OwedOK

LEMMA TypesIsTypeOK == Types <=> TypeOK
BY DEF Types, TypeOK, RowsOK, Places, TokenOK, BatchOK, QueueOK, Work, OwedOK

\* What every step of the cache does to the entries, whoever takes it
LEMMA CacheStep ==
  ASSUME RowsOK, OwedOK, backend' = backend, NEW d \in Domains,
         \/ rows' = rows /\ owed' = owed
         \/ Cached(d) /\ rows' = Used(d) /\ owed' = owed
         \/ Store(d)
  PROVE  /\ RowsOK' /\ owed' \subseteq owed /\ owed' \subseteq {e \in Domains : Cached(e)'}
<1>1. rows \in Seq(Domains) /\ DOMAIN rows = 1..Len(rows)
  BY DEF RowsOK
<1>2. CASE rows' = rows /\ owed' = owed
  BY <1>2 DEF RowsOK, OwedOK, Cached
<1>3. CASE Cached(d) /\ rows' = Used(d) /\ owed' = owed
  <2>1. RowsOK'
    BY <1>3, UsedFacts DEF RowsOK
  <2>2. \A e \in Domains : Cached(e) => Cached(e)'
    BY <1>3, UsedFacts DEF Cached
  <2>. QED BY <1>3, <2>1, <2>2 DEF OwedOK
<1>4. CASE Store(d)
  <2>1. RowsOK'
    BY <1>4, StoredFacts DEF RowsOK, Store
  <2>. QED BY <1>4, <2>1 DEF Store, OwedOK, Cached
<1>. QED BY <1>2, <1>3, <1>4

LEMMA ScanTypes ==
  ASSUME Types, Scan
  PROVE  RowsOK' /\ TokenOK' /\ BatchOK' /\ OwedOK'
<1>0. RowsOK /\ TokenOK /\ OwedOK /\ backend' = backend /\ owed' = owed /\ touched' = touched
  BY DEF Types, Scan
<1>1. rows \in Seq(Domains) /\ DOMAIN rows = 1..Len(rows)
  BY <1>0 DEF RowsOK
<1>2. CASE backend = "redis"
  <2>1. RedisScan
    BY <1>2 DEF Scan
  <2>. QED BY <1>0, <1>2, <2>1, RedisScanFacts DEF RowsOK, TokenOK, BatchOK, OwedOK, Cached
<1>3. CASE backend # "redis"
  <2>1. Amount \in 0..DomainQueueLimit /\ Offset \in Nat /\ DomainQueueLimit \in Nat
    BY <1>0, <1>3, AmountFacts, SizesAssumption
  <2>2. CASE InternalScan
    <3>1. token' = None \/ token' = Offset + Amount
      BY <2>2 DEF InternalScan
    <3>2. TokenOK'
      <4>1. Offset + Amount \in Nat
        BY <2>1
      <4>. QED BY <1>0, <1>3, <3>1, <4>1 DEF TokenOK
    <3>3. BatchOK'
      BY <1>0, <1>3, <2>1, <2>2, InternalScanFacts DEF BatchOK
    <3>4. RowsOK'
      BY <1>0, <1>3, <2>2, InternalScanFacts DEF RowsOK
    <3>5. OwedOK'
      BY <1>0, <1>3, <2>2, InternalScanFacts DEF OwedOK, Cached
    <3>. QED BY <3>2, <3>3, <3>4, <3>5
  <2>3. CASE SqlScan
    <3>1. token' = None \/ token' = Offset + Amount
      BY <2>3 DEF SqlScan
    <3>2. TokenOK'
      <4>1. Offset + Amount \in Nat
        BY <2>1
      <4>. QED BY <1>0, <1>3, <3>1, <4>1 DEF TokenOK
    <3>3. BatchOK'
      BY <1>0, <1>3, <2>1, <2>3, SqlScanFacts DEF BatchOK
    <3>4. RowsOK' /\ OwedOK'
      BY <1>0, <1>3, <2>3, SqlScanFacts DEF RowsOK, OwedOK, Cached
    <3>. QED BY <3>2, <3>3, <3>4
  <2>. QED BY <1>3, <2>2, <2>3 DEF Scan
<1>. QED BY <1>2, <1>3

LEMMA UnwindTypes ==
  ASSUME Work, Unwind
  PROVE  Work' /\ fpc' \in {"unwind", "over"}
<1>1. ASSUME work' = work PROVE Work'
  BY <1>1 DEF Work
<1>2. ASSUME CancelProcessors PROVE Work'
  <2>1. PICK spared \in SUBSET Processors :
               work' = [p \in Processors |-> IF p \in spared THEN work[p] ELSE "off"]
    BY <1>2 DEF CancelProcessors
  <2>2. \A p \in Processors : work[p] \in {"off", "idle"} \cup Domains
    BY DEF Work
  <2>. QED BY <2>1, <2>2 DEF Work
<1>. QED BY <1>1, <1>2 DEF Unwind

LEMMA TypesStep == Types /\ [Next]_vars => Types'
<1> SUFFICES ASSUME Types, [Next]_vars PROVE Types'
  OBVIOUS
<1>0. /\ backend \in Backends /\ stopping \in {"no", "yes", "lost"}
      /\ RowsOK /\ Places /\ TokenOK /\ BatchOK /\ QueueOK /\ Work /\ OwedOK
  BY DEF Types
<1>. DEFINE Same == UNCHANGED <<backend, rows, owed, touched>>
<1>a. ASSUME Same PROVE RowsOK' /\ OwedOK'
  BY <1>0, <1>a DEF RowsOK, OwedOK, Cached
<1>b. ASSUME backend' = backend, token' = token PROVE TokenOK'
  BY <1>0, <1>b DEF TokenOK
<1>c. ASSUME backend' = backend, batch' = batch PROVE BatchOK'
  BY <1>0, <1>c DEF BatchOK
<1>d. ASSUME queue' = queue PROVE QueueOK'
  BY <1>0, <1>d DEF QueueOK
<1>e. ASSUME work' = work PROVE Work'
  BY <1>0, <1>e DEF Work
<1>f. queue \in Seq(Domains) /\ batch \in Seq(Domains)
  BY <1>0 DEF QueueOK, BatchOK
<1>g. ASSUME queue # <<>>, queue' = Tail(queue) PROVE QueueOK'
  <2>1. Tail(queue) \in Seq(Domains) /\ Len(Tail(queue)) = Len(queue) - 1 /\ Len(queue) \in Nat
    BY <1>f, <1>g, HeadTailProperties
  <2>2. Len(queue) <= DomainQueueLimit /\ DomainQueueLimit \in Nat
    BY <1>0, SizesAssumption DEF QueueOK
  <2>3. Len(queue) - 1 <= DomainQueueLimit
    BY <2>1, <2>2
  <2>. QED BY <1>g, <2>1, <2>3 DEF QueueOK
<1>. HIDE DEF Same
<1>1. CASE UNCHANGED vars
  <2>1. Same
    BY <1>1 DEF vars, Same
  <2>. QED BY <1>0, <1>1, <1>a, <1>b, <1>c, <1>d, <1>e, <2>1 DEF vars, Types, Places
<1>2. CASE StartRound
  <2>1. RowsOK'
    BY <1>0, <1>2 DEF StartRound, RowsOK
  <2>2. OwedOK' /\ TokenOK' /\ Work' /\ Places'
    BY <1>2 DEF StartRound, OwedOK, TokenOK, Work, Places, Cached
  <2>. QED BY <1>0, <1>2, <1>c, <1>d, <2>1, <2>2 DEF StartRound, Types
<1>3. CASE Scan
  BY <1>0, <1>3, <1>d, <1>e, ScanTypes DEF Scan, Types, Places
<1>4. CASE Put
  <2>1. Same /\ UNCHANGED <<backend, token, work, stopping>> /\ Places'
    BY <1>0, <1>4 DEF Put, Same, Places
  <2>2. BatchOK' /\ QueueOK'
    <3>1. CASE UNCHANGED <<batch, queue>>
      BY <1>c, <1>d, <2>1, <3>1
    <3>2. CASE /\ batch # <<>> /\ Len(queue) < DomainQueueLimit
               /\ queue' = Append(queue, Head(batch)) /\ batch' = Tail(batch)
      <4>1. /\ Head(batch) \in Domains /\ Tail(batch) \in Seq(Domains)
            /\ Len(Tail(batch)) = Len(batch) - 1 /\ Len(batch) \in Nat
        BY <1>f, <3>2, HeadTailProperties
      <4>2. /\ Append(queue, Head(batch)) \in Seq(Domains) /\ Len(queue) \in Nat
            /\ Len(Append(queue, Head(batch))) = Len(queue) + 1
        BY <1>f, <4>1
      <4>3. QueueOK'
        BY <3>2, <4>2, SizesAssumption DEF QueueOK
      <4>4. BatchOK'
        BY <1>0, <2>1, <3>2, <4>1, SizesAssumption DEF BatchOK
      <4>. QED BY <4>3, <4>4
    <3>. QED BY <1>4, <3>1, <3>2 DEF Put
  <2>. QED BY <1>0, <1>a, <1>b, <1>e, <2>1, <2>2 DEF Types
<1>5. CASE PutResumes
  <2>1. Same /\ UNCHANGED <<backend, token, batch, queue, work, stopping>> /\ Places'
    BY <1>5 DEF PutResumes, Same, Places
  <2>. QED BY <1>0, <1>a, <1>b, <1>c, <1>d, <1>e, <2>1 DEF Types
<1>6. CASE Join
  <2>1. Same /\ UNCHANGED <<backend, token, batch, queue, stopping>> /\ Places' /\ Work'
    BY <1>6 DEF Join, Same, Places, Work
  <2>. QED BY <1>0, <1>a, <1>b, <1>c, <1>d, <2>1 DEF Types
<1>7. CASE Save
  <2>1. /\ UNCHANGED <<backend, token, batch, queue, work, stopping>>
        /\ Places' /\ RowsOK' /\ OwedOK'
    BY <1>0, <1>7 DEF Save, Places, RowsOK, OwedOK
  <2>. QED BY <1>0, <1>b, <1>c, <1>d, <1>e, <2>1 DEF Types
<1>8. CASE Unwound
  <2>1. UNCHANGED <<backend, work, stopping>> /\ Places' /\ RowsOK' /\ OwedOK' /\ TokenOK'
    BY <1>0, <1>8 DEF Unwound, Places, RowsOK, OwedOK, TokenOK
  <2>2. BatchOK' /\ QueueOK'
    BY <1>8, EmptySeq, SizesAssumption DEF Unwound, BatchOK, QueueOK
  <2>. QED BY <1>0, <1>e, <2>1, <2>2 DEF Types
<1>9. CASE CacheRaises
  <2>1. Same /\ UNCHANGED <<backend, token, batch, queue, stopping>> /\ Unwind
    BY <1>9 DEF CacheRaises, Same
  <2>2. Work' /\ Places'
    BY <1>0, <2>1, UnwindTypes DEF Places
  <2>. QED BY <1>0, <1>a, <1>b, <1>c, <1>d, <2>1, <2>2 DEF Types
<1>10. CASE Stop
  <2>1. /\ Same /\ UNCHANGED <<backend, token, batch, queue>> /\ stopping' \in {"yes", "lost"}
        /\ Unwind \/ UNCHANGED <<fpc, work>>
    BY <1>10 DEF Stop, Same
  <2>2. Work' /\ Places'
    BY <1>0, <1>e, <2>1, UnwindTypes DEF Places
  <2>. QED BY <1>0, <1>a, <1>b, <1>c, <1>d, <2>1, <2>2 DEF Types
<1>11. ASSUME NEW p \in Processors, Take(p) PROVE Types'
  <2>1. Head(queue) \in Domains
    BY <1>f, <1>11, HeadTailProperties DEF Take
  <2>2. Work'
    BY <1>0, <1>11, <2>1 DEF Take, Work
  <2>3. RowsOK' /\ OwedOK'
    BY <1>0, <1>11 DEF Take, RowsOK, OwedOK, Cached
  <2>4. Places' /\ UNCHANGED <<backend, token, batch, stopping>>
    BY <1>0, <1>11 DEF Take, Places
  <2>5. QueueOK'
    BY <1>g, <1>11 DEF Take
  <2>. QED BY <1>0, <1>b, <1>c, <2>2, <2>3, <2>4, <2>5 DEF Types
<1>12. ASSUME NEW p \in Processors, Update(p) PROVE Types'
  <2>1. /\ work[p] \in Domains /\ UNCHANGED <<backend, fpc, token, batch, queue, stopping>>
        /\ (rows' = rows /\ owed' = owed) \/ Store(work[p])
        /\ touched' = touched \cap owed'
    BY <1>12 DEF Update
  <2>2. RowsOK' /\ OwedOK'
    BY <1>0, <2>1, CacheStep DEF OwedOK
  <2>3. Work' /\ Places'
    BY <1>0, <1>12 DEF Update, Work, Places
  <2>. QED BY <1>0, <1>b, <1>c, <1>d, <2>1, <2>2, <2>3 DEF Types
<1>13. ASSUME NEW d \in Domains, Request(d) PROVE Types'
  <2>1. /\ UNCHANGED <<backend, fpc, token, batch, queue, work, stopping>>
        /\ (Cached(d) /\ rows' = Used(d) /\ owed' = owed) \/ Store(d)
        /\ touched' = (touched \cup {d}) \cap owed'
    BY <1>13 DEF Request, roundVars
  <2>2. RowsOK' /\ OwedOK'
    BY <1>0, <2>1, CacheStep DEF OwedOK
  <2>3. Places'
    BY <1>0, <2>1 DEF Places
  <2>. QED BY <1>0, <1>b, <1>c, <1>d, <1>e, <2>1, <2>2, <2>3 DEF Types
<1>. QED BY <1>1, <1>2, <1>3, <1>4, <1>5, <1>6, <1>7, <1>8, <1>9, <1>10, <1>11, <1>12, <1>13
         DEF Next, Fetcher, Others

LEMMA TypesInit == Init => Types
<1> SUFFICES ASSUME Init PROVE Types
  OBVIOUS
<1>1. <<>> \in Seq(Domains) /\ Len(<<>>) = 0 /\ DOMAIN <<>> = {}
  BY EmptySeq
<1>2. RowsOK /\ BatchOK /\ QueueOK
  BY <1>1, SizesAssumption DEF Init, RowsOK, BatchOK, QueueOK
<1>. QED BY <1>2 DEF Init, Types, Places, TokenOK, Work, OwedOK

\* The variables of the fetcher keep their types; neither the internal cache nor the
\* domain queue outgrows its limit.
THEOREM TypeCorrect == Spec => []TypeOK
<1>1. Types => TypeOK
  BY TypesIsTypeOK
<1>. QED BY TypesInit, TypesStep, <1>1, PTL DEF Spec

-----------------------------------------------------------------------------
(* RoundCovers *)

In(s, d) == \E i \in DOMAIN s : s[i] = d
Waiting(d) == In(queue, d) \/ In(batch, d)

\* What the round still owes and has not scanned; with the internal cache, unless a
\* request used it
Fresh == {d \in owed : ~Waiting(d) /\ (backend = "internal" => d \notin touched)}

InRound == fpc \in {"scan", "put", "blocked", "join", "save"}
Scanning == fpc = "scan" \/ token # None

\* A later scan reaches the entry at i.  In the internal cache whatever is scanned, used
\* or stored goes to the end: fresh entries are the first ones, and not more than the
\* round still counts.
Ahead(i) ==
  /\ Scanning
  /\ backend = "internal" => i <= Len(rows) - Offset /\ \A j \in 1..(i - 1) : rows[j] \in Fresh
  /\ backend = "sql" => i > Offset
  /\ backend = "redis" /\ token # None => rows[i] \in token

Coverage == InRound => \A i \in DOMAIN rows : rows[i] \in Fresh => Ahead(i)

Tidy ==
  /\ fpc \in {"join", "save"} => token = None
  /\ fpc \in {"sleep", "scan", "join", "save"} => batch = <<>>
  /\ fpc \in {"sleep", "save"} => queue = <<>>

NotOwed == \A p \in Processors : work[p] \notin owed

Inv == Types /\ Tidy /\ NotOwed /\ Coverage

LEMMA TidyStep == Tidy /\ [Next]_vars => Tidy'
<1> SUFFICES ASSUME Tidy, [Next]_vars PROVE Tidy'
  OBVIOUS
<1>. USE DEF Tidy
<1>1. CASE UNCHANGED vars
  BY <1>1 DEF vars
<1>2. CASE StartRound \/ Scan \/ Put \/ PutResumes
  BY <1>2 DEF StartRound, Scan, Put, PutResumes
<1>3. CASE Join \/ Save \/ Unwound
  BY <1>3 DEF Join, Save, Unwound
<1>4. CASE CacheRaises \/ Stop
  BY <1>4 DEF CacheRaises, Stop, Unwind
<1>5. ASSUME NEW p \in Processors, Take(p) PROVE Tidy'
  BY <1>5 DEF Take
<1>6. ASSUME NEW p \in Processors, Update(p) PROVE Tidy'
  BY <1>6 DEF Update
<1>7. ASSUME NEW d \in Domains, Request(d) PROVE Tidy'
  BY <1>7 DEF Request, roundVars
<1>. QED BY <1>1, <1>2, <1>3, <1>4, <1>5, <1>6, <1>7 DEF Next, Fetcher, Others

LEMMA NotOwedStep == ASSUME Types, NotOwed, [Next]_vars PROVE NotOwed'
<1>0. /\ owed \subseteq Domains /\ "off" \notin Domains /\ "idle" \notin Domains
      /\ work \in [Processors -> {"off", "idle"} \cup Domains] /\ RowsOK /\ OwedOK
  BY NamesAssumption DEF Types, OwedOK, Work
<1>. USE DEF NotOwed
<1>1. ASSUME owed' \subseteq owed,
             work' = work \/ \A p \in Processors : work'[p] \in {work[p], "off", "idle"}
      PROVE  NotOwed'
  BY <1>0, <1>1
<1>2. CASE UNCHANGED vars \/ Scan \/ Put \/ PutResumes
  BY <1>1, <1>2 DEF vars, Scan, Put, PutResumes
<1>3. CASE StartRound
  BY <1>0, <1>3 DEF StartRound
<1>4. CASE Join \/ Save \/ Unwound
  BY <1>1, <1>4 DEF Join, Save, Unwound
<1>5. CASE CacheRaises \/ Stop
  <2>1. owed' = owed /\ (work' = work \/ CancelProcessors)
    BY <1>5 DEF CacheRaises, Stop, Unwind
  <2>2. CancelProcessors => \A p \in Processors : work'[p] \in {work[p], "off"}
    BY DEF CancelProcessors
  <2>. QED BY <1>1, <2>1, <2>2
<1>6. ASSUME NEW p \in Processors, Take(p) PROVE NotOwed'
  BY <1>0, <1>6 DEF Take
<1>7. ASSUME NEW p \in Processors, Update(p) PROVE NotOwed'
  <2>1. owed' \subseteq owed
    BY <1>7 DEF Update, Store
  <2>2. \A q \in Processors : work'[q] \in {work[q], "idle"}
    BY <1>0, <1>7 DEF Update
  <2>. QED BY <1>1, <2>1, <2>2
<1>8. ASSUME NEW d \in Domains, Request(d) PROVE NotOwed'
  <2>1. owed' \subseteq owed /\ work' = work
    BY <1>8 DEF Request, Store, roundVars
  <2>. QED BY <1>1, <2>1
<1>. QED BY <1>2, <1>3, <1>4, <1>5, <1>6, <1>7, <1>8 DEF Next, Fetcher, Others

\* Nothing that coverage depends on has changed
LEMMA CoverageKept ==
  ASSUME Coverage, UNCHANGED <<backend, rows, token>>, InRound' => InRound,
         Fresh' = Fresh, InRound' /\ Scanning => Scanning'
  PROVE  Coverage'
BY DEF Coverage, Ahead, Offset

LEMMA PutCoverage == ASSUME Types, Coverage, Put PROVE Coverage'
<1>1. queue \in Seq(Domains) /\ batch \in Seq(Domains)
  BY DEF Types, QueueOK, BatchOK
<1>2. ASSUME NEW d PROVE Waiting(d)' <=> Waiting(d)
  <2>1. CASE UNCHANGED <<queue, batch>>
    BY <2>1 DEF Waiting, In
  <2>2. CASE batch # <<>> /\ queue' = Append(queue, Head(batch)) /\ batch' = Tail(batch)
    <3>0. /\ Head(batch) \in Domains /\ Head(batch) = batch[1] /\ Len(queue) \in Nat
          /\ DOMAIN queue = 1..Len(queue) /\ DOMAIN batch = 1..Len(batch)
          /\ Len(batch) \in Nat /\ Len(batch) >= 1
      BY <1>1, <2>2
    <3>1. /\ DOMAIN queue' = 1..(Len(queue) + 1) /\ queue'[Len(queue) + 1] = batch[1]
          /\ \A i \in 1..Len(queue) : queue'[i] = queue[i]
      BY <1>1, <2>2, <3>0
    <3>2. /\ DOMAIN batch' = 1..(Len(batch) - 1)
          /\ \A i \in 1..(Len(batch) - 1) : batch'[i] = batch[i + 1]
      BY <1>1, <2>2, HeadTailProperties
    <3>3. In(queue', d) <=> In(queue, d) \/ batch[1] = d
      <4>1. In(queue', d) => In(queue, d) \/ batch[1] = d
        <5>1. \A i \in 1..(Len(queue) + 1) : i \in 1..Len(queue) \/ i = Len(queue) + 1
          BY <3>0
        <5>. QED BY <3>0, <3>1, <5>1 DEF In
      <4>2. 1..Len(queue) \subseteq 1..(Len(queue) + 1) /\ Len(queue) + 1 \in 1..(Len(queue) + 1)
        BY <3>0
      <4>3. In(queue, d) => In(queue', d)
        BY <3>0, <3>1, <4>2 DEF In
      <4>4. batch[1] = d => In(queue', d)
        BY <3>1, <4>2 DEF In
      <4>. QED BY <4>1, <4>3, <4>4
    <3>4. In(batch, d) <=> In(batch', d) \/ batch[1] = d
      <4>1. In(batch', d) => In(batch, d)
        <5>1. \A i \in 1..(Len(batch) - 1) : i + 1 \in 1..Len(batch)
          BY <3>0
        <5>. QED BY <3>0, <3>2, <5>1 DEF In
      <4>2. 1 \in 1..Len(batch)
        BY <3>0
      <4>3. ASSUME NEW i \in 1..Len(batch), i # 1, batch[i] = d PROVE In(batch', d)
        <5>1. i - 1 \in 1..(Len(batch) - 1) /\ (i - 1) + 1 = i
          BY <3>0, <4>3
        <5>. QED BY <3>2, <4>3, <5>1 DEF In
      <4>. QED BY <3>0, <4>1, <4>2, <4>3 DEF In
    <3>5. Waiting(d)' <=> In(queue', d) \/ In(batch', d)
      BY DEF Waiting, In
    <3>. QED BY <3>3, <3>4, <3>5 DEF Waiting
  <2>. QED BY <2>1, <2>2 DEF Put
<1>3. Fresh' = Fresh
  BY <1>2 DEF Put, Fresh
<1>4. UNCHANGED <<backend, rows, token>> /\ InRound /\ (Scanning => Scanning')
  BY DEF Put, InRound, Scanning
<1>. QED BY <1>3, <1>4, CoverageKept

LEMMA TakeCoverage ==
  ASSUME Types, Coverage, NEW p \in Processors, Take(p) PROVE Coverage'
<1>1. queue \in Seq(Domains) /\ queue # <<>> /\ queue' = Tail(queue) /\ batch' = batch
  BY DEF Types, QueueOK, Take
<1>2. /\ Len(queue) \in Nat /\ Len(queue) >= 1 /\ Head(queue) = queue[1]
      /\ DOMAIN queue = 1..Len(queue) /\ DOMAIN queue' = 1..(Len(queue) - 1)
      /\ \A i \in 1..(Len(queue) - 1) : queue'[i] = queue[i + 1]
  BY <1>1, HeadTailProperties
<1>3. In(queue, Head(queue))
  <2>1. 1 \in 1..Len(queue)
    BY <1>2
  <2>. QED BY <1>2, <2>1 DEF In
<1>4. ASSUME NEW d, d # Head(queue) PROVE In(queue', d) <=> In(queue, d)
  <2>1. ASSUME NEW i \in 1..(Len(queue) - 1), queue'[i] = d PROVE In(queue, d)
    <3>1. i + 1 \in 1..Len(queue)
      BY <1>2
    <3>. QED BY <1>2, <2>1, <3>1 DEF In
  <2>2. ASSUME NEW i \in 1..Len(queue), queue[i] = d PROVE In(queue', d)
    <3>1. i # 1
      BY <1>2, <1>4, <2>2
    <3>2. i - 1 \in 1..(Len(queue) - 1) /\ (i - 1) + 1 = i
      BY <1>2, <3>1
    <3>. QED BY <1>2, <2>2, <3>2 DEF In
  <2>. QED BY <1>2, <2>1, <2>2 DEF In
<1>5. ASSUME NEW d, d # Head(queue) PROVE Waiting(d)' <=> Waiting(d)
  <2>1. Waiting(d)' <=> In(queue', d) \/ In(batch', d)
    BY DEF Waiting, In
  <2>. QED BY <1>1, <1>4, <1>5, <2>1 DEF Waiting
<1>6. Fresh' = Fresh
  BY <1>3, <1>5 DEF Take, Fresh, Waiting
<1>7. UNCHANGED <<backend, rows, token, fpc>>
  BY DEF Take
<1>. QED BY <1>6, <1>7, CoverageKept DEF InRound, Scanning

LEMMA StartCoverage == ASSUME Types, Tidy, StartRound PROVE Coverage'
<1>1. /\ fpc' = "scan" /\ token' = None /\ backend' = backend /\ rows' = rows
      /\ queue' = <<>> /\ batch' = <<>> /\ touched' = {} /\ owed' = {d \in Domains : Cached(d)}
  BY DEF StartRound, Tidy
<1>2. rows \in Seq(Domains) /\ DOMAIN rows = 1..Len(rows) /\ Len(rows) \in Nat
  BY DEF Types, RowsOK
<1>3. \A i \in DOMAIN rows : rows[i] \in Domains /\ Cached(rows[i])
  BY <1>2 DEF Cached
<1>4. \A d : ~Waiting(d)'
  <2>1. DOMAIN <<>> = {}
    OBVIOUS
  <2>. QED BY <1>1, <2>1 DEF Waiting, In
<1>5. \A i \in DOMAIN rows : rows[i] \in Fresh'
  BY <1>1, <1>3, <1>4 DEF Fresh
<1>6. Offset' = 0
  BY <1>1 DEF Offset
<1>7. ASSUME NEW i \in DOMAIN rows PROVE Ahead(i)'
  <2>1. i \in 1..Len(rows) /\ i <= Len(rows) - 0 /\ i > 0
    BY <1>2
  <2>2. \A j \in 1..(i - 1) : j \in DOMAIN rows
    BY <1>2, <2>1
  <2>. QED BY <1>1, <1>5, <1>6, <2>1, <2>2 DEF Ahead, Scanning
<1>. QED BY <1>1, <1>7 DEF Coverage

LEMMA ScanCoverage == ASSUME Types, Tidy, Coverage, Scan PROVE Coverage'
<1>1. /\ fpc = "scan" /\ fpc' = "put" /\ batch = <<>>
      /\ UNCHANGED <<backend, queue, owed, touched>> /\ RowsOK /\ TokenOK
  BY DEF Scan, Tidy, Types
<1>2. rows \in Seq(Domains) /\ DOMAIN rows = 1..Len(rows)
  BY <1>1 DEF RowsOK
<1>2a. Len(rows) \in Nat
  BY <1>2
<1>3. \A d : Waiting(d)' <=> In(queue, d) \/ In(batch', d)
  BY <1>1 DEF Waiting, In
<1>4. \A d : Waiting(d) <=> In(queue, d)
  <2>1. DOMAIN <<>> = {}
    OBVIOUS
  <2>. QED BY <1>1, <2>1 DEF Waiting, In
<1>5. Fresh' = {d \in Fresh : ~In(batch', d)}
  BY <1>1, <1>3, <1>4 DEF Fresh
<1>6. \A i \in DOMAIN rows : rows[i] \in Fresh => Ahead(i)
  BY <1>1 DEF Coverage, InRound
<1>7. \A s \in SUBSET Domains : None # s
  BY NamesAssumption
<1>8. CASE backend = "redis"
  <2>1. RedisScan
    BY <1>8 DEF Scan
  <2>2. /\ rows' = rows
        /\ \A d \in Domains :
             (IF token = None THEN Cached(d) ELSE d \in token) =>
               In(batch', d) \/ (token' # None /\ d \in token')
    BY <1>1, <1>8, <2>1, RedisScanFacts DEF In
  <2>3. ASSUME NEW i \in DOMAIN rows, rows[i] \in Fresh'
        PROVE  token' # None /\ rows[i] \in token'
    <3>1. rows[i] \in Domains /\ Cached(rows[i]) /\ rows[i] \in Fresh /\ ~In(batch', rows[i])
      BY <1>2, <1>5, <2>3 DEF Cached
    <3>2. token # None => rows[i] \in token
      BY <1>6, <1>8, <3>1 DEF Ahead
    <3>. QED BY <2>2, <3>1, <3>2
  <2>4. \A i \in DOMAIN rows' : rows'[i] \in Fresh' => Ahead(i)'
    BY <1>1, <1>8, <2>2, <2>3 DEF Ahead, Scanning
  <2>. QED BY <2>4 DEF Coverage
<1>9. CASE backend # "redis"
  <2>0. /\ Offset \in Nat /\ Amount \in Nat /\ Amount <= Len(rows)
        /\ Offset < Len(rows) => Offset + Amount <= Len(rows) /\ Amount > 0
        /\ Offset + Amount \in Nat /\ Offset + Amount # None
    <3>1. Offset \in Nat /\ Amount \in 0..DomainQueueLimit /\ DomainQueueLimit \in Nat
      BY <1>1, <1>9, AmountFacts, SizesAssumption
    <3>2. Amount \in Nat /\ Offset + Amount \in Nat
      BY <3>1
    <3>. QED BY <1>1, <1>9, <3>1, <3>2, AmountFacts, NamesAssumption
  <2>1. CASE backend = "internal"
    <3>0. InternalScan
      BY <2>1 DEF Scan
    <3>1. /\ Len(batch') = Amount /\ batch' \in Seq(Domains)
          /\ \A i \in 1..Amount : batch'[i] = rows[i]
          /\ rows' \in Seq(Domains) /\ Len(rows') = Len(rows)
          /\ \A j \in 1..(Len(rows) - Amount) : rows'[j] = rows[j + Amount]
          /\ \A j \in (Len(rows) - Amount + 1)..Len(rows) :
               rows'[j] = rows[j - (Len(rows) - Amount)]
      BY <1>1, <1>9, <3>0, InternalScanFacts
    <3>2. DOMAIN rows' = 1..Len(rows) /\ DOMAIN batch' = 1..Amount
      BY <3>1
    <3>3. token' = IF Offset + Amount < Len(rows) THEN Offset + Amount ELSE None
      BY <3>0 DEF InternalScan
    <3>4. ASSUME NEW j \in 1..Len(rows), rows'[j] \in Fresh'
          PROVE  Ahead(j)'
      <4>1. rows'[j] \in Fresh /\ ~In(batch', rows'[j])
        BY <1>5, <3>4
      <4>2. j \in 1..(Len(rows) - Amount)
        <5>1. CASE j > Len(rows) - Amount
          <6>1. /\ j \in (Len(rows) - Amount + 1)..Len(rows)
                /\ j - (Len(rows) - Amount) \in 1..Amount
            BY <1>2a, <2>0, <5>1
          <6>2. rows'[j] = batch'[j - (Len(rows) - Amount)]
            BY <3>1, <6>1
          <6>. QED BY <3>2, <4>1, <6>1, <6>2 DEF In
        <5>. QED BY <1>2a, <2>0, <5>1
      <4>3. rows'[j] = rows[j + Amount] /\ j + Amount \in 1..Len(rows)
        <5>1. j + Amount \in 1..Len(rows)
          BY <1>2a, <2>0, <4>2
        <5>. QED BY <3>1, <4>2, <5>1
      <4>4. /\ j + Amount <= Len(rows) - Offset
            /\ \A m \in 1..((j + Amount) - 1) : rows[m] \in Fresh
        BY <1>2, <1>6, <2>1, <4>1, <4>3 DEF Ahead
      <4>5. Offset + Amount < Len(rows) /\ j <= Len(rows) - (Offset + Amount)
        BY <1>2a, <2>0, <4>2, <4>4
      <4>6. token' = Offset + Amount /\ Offset' = Offset + Amount
        BY <2>0, <3>3, <4>5 DEF Offset
      <4>7. ASSUME NEW m \in 1..(j - 1) PROVE rows'[m] \in Fresh'
        <5>1. /\ m \in 1..(Len(rows) - Amount) /\ m + Amount \in 1..((j + Amount) - 1)
              /\ m + Amount \in 1..Len(rows) /\ m + Amount > Amount
          BY <1>2a, <2>0, <4>2
        <5>2. rows'[m] = rows[m + Amount] /\ rows[m + Amount] \in Fresh
          BY <3>1, <4>4, <5>1
        <5>3. ASSUME NEW i \in 1..Amount PROVE rows[i] # rows[m + Amount]
          <6>1. i \in 1..Len(rows) /\ i # m + Amount
            BY <1>2a, <2>0, <5>1
          <6>. QED BY <1>1, <1>2, <5>1, <6>1 DEF RowsOK
        <5>4. ~In(batch', rows'[m])
          BY <3>1, <3>2, <5>2, <5>3 DEF In
        <5>. QED BY <1>5, <5>2, <5>4
      <4>. QED BY <1>1, <2>0, <2>1, <3>1, <4>5, <4>6, <4>7 DEF Ahead, Scanning
    <3>. QED BY <3>2, <3>4 DEF Coverage
  <2>2. CASE backend = "sql"
    <3>0. SqlScan
      BY <2>2 DEF Scan
    <3>1. /\ Len(batch') = Amount /\ batch' \in Seq(Domains) /\ rows' = rows
          /\ \A i \in 1..Amount : batch'[i] = rows[Offset + i]
      BY <1>1, <1>9, <3>0, SqlScanFacts
    <3>2. DOMAIN batch' = 1..Amount
      BY <2>0, <3>1
    <3>3. token' = IF Amount > 0 THEN Offset + Amount ELSE None
      BY <3>0 DEF SqlScan
    <3>4. ASSUME NEW i \in 1..Len(rows), rows[i] \in Fresh' PROVE Ahead(i)'
      <4>1. rows[i] \in Fresh /\ ~In(batch', rows[i])
        BY <1>5, <3>4
      <4>2. i > Offset
        BY <1>2, <1>6, <2>2, <4>1 DEF Ahead
      <4>3. i > Offset + Amount
        <5>1. CASE i <= Offset + Amount
          <6>1. i - Offset \in 1..Amount /\ Offset + (i - Offset) = i
            BY <2>0, <4>2, <5>1
          <6>2. batch'[i - Offset] = rows[i]
            BY <3>1, <6>1
          <6>. QED BY <3>2, <4>1, <6>1, <6>2 DEF In
        <5>. QED BY <2>0, <5>1
      <4>4. Amount > 0
        BY <1>2a, <2>0, <4>2
      <4>5. token' = Offset + Amount /\ Offset' = Offset + Amount
        BY <2>0, <3>3, <4>4 DEF Offset
      <4>. QED BY <1>1, <2>0, <2>2, <4>3, <4>5 DEF Ahead, Scanning
    <3>. QED BY <1>2, <3>1, <3>4 DEF Coverage
  <2>. QED BY <1>9, <2>1, <2>2 DEF Scan
<1>. QED BY <1>8, <1>9

\* A request or a processor uses or stores d, which then is not fresh
LEMMA CacheCoverage ==
  ASSUME Types, Coverage, NEW d \in Domains,
         UNCHANGED <<backend, fpc, token, batch, queue>>,
         (Cached(d) /\ rows' = Used(d) /\ owed' = owed) \/ Store(d),
         d \in owed' => d \in touched',
         \A e \in owed' : e # d => (e \in touched' <=> e \in touched)
  PROVE  Coverage'
<1>1. RowsOK /\ OwedOK /\ TokenOK /\ backend \in {"internal", "sql", "redis"}
  BY CacheAssumption DEF Types
<1>2. RowsOK' /\ owed' \subseteq owed
  BY <1>1, CacheStep
<1>3. \A n \in DOMAIN rows' : rows'[n] \in owed => rows'[n] \in owed'
  BY DEF Store
<1>4. \A e : Waiting(e)' <=> Waiting(e)
  BY DEF Waiting, In
<1>5. SUFFICES ASSUME InRound', NEW i \in DOMAIN rows', rows'[i] \in Fresh'
               PROVE  Ahead(i)'
  BY DEF Coverage
<1>6. /\ Scanning' = Scanning /\ Offset' = Offset
      /\ \A k \in DOMAIN rows : rows[k] \in Fresh => Ahead(k)
  BY <1>5 DEF Coverage, InRound, Scanning, Offset
<1>7. CASE backend = "internal"
  <2>1. /\ rows \in Seq(Domains) /\ DOMAIN rows = 1..Len(rows)
        /\ rows' \in Seq(Domains) /\ DOMAIN rows' = 1..Len(rows')
    BY <1>1, <1>2 DEF RowsOK
  <2>2. Len(rows) \in Nat /\ Len(rows') \in Nat
    BY <2>1
  <2>3. Len(rows') >= Len(rows) /\ Moved(rows', rows, d)
    <3>1. CASE Cached(d) /\ rows' = Used(d)
      BY <1>1, <1>7, <2>2, <3>1, UsedFacts
    <3>2. CASE Store(d)
      BY <1>1, <1>7, <3>2, StoredFacts DEF Store
    <3>. QED BY <3>1, <3>2
  <2>4. \A e \in Domains : e \in Fresh' <=> e \in owed' /\ e # d /\ e \in Fresh
    BY <1>2, <1>4, <1>7 DEF Fresh
  <2>5. rows'[i] \in Domains /\ rows'[i] # d /\ rows'[i] \in Fresh
    BY <1>5, <2>1, <2>4
  <2>6. PICK k \in DOMAIN rows :
               /\ k >= i /\ rows'[i] = rows[k]
               /\ \A m \in 1..(i - 1) : \E n \in 1..(k - 1) : rows'[m] = rows[n] /\ rows[n] # d
    BY <1>5, <2>3, <2>5 DEF Moved
  <2>7. /\ Scanning /\ k <= Len(rows) - Offset
        /\ \A n \in 1..(k - 1) : rows[n] \in Fresh
    BY <1>6, <1>7, <2>5, <2>6 DEF Ahead
  <2>8. i <= Len(rows') - Offset
    <3>1. Offset \in Nat
      BY <1>1, <1>7, AmountFacts
    <3>2. i \in Nat /\ k \in Nat
      BY <1>5, <2>1
    <3>. QED BY <2>2, <2>3, <2>6, <2>7, <3>1, <3>2
  <2>9. ASSUME NEW m \in 1..(i - 1) PROVE rows'[m] \in Fresh'
    <3>1. rows'[m] \in Fresh /\ rows'[m] # d
      BY <2>6, <2>7
    <3>2. m \in DOMAIN rows'
      BY <1>5, <2>1, <2>2
    <3>3. rows'[m] \in Domains
      BY <2>1, <3>2
    <3>4. rows'[m] \in owed
      BY <3>1 DEF Fresh
    <3>. QED BY <1>3, <2>4, <3>1, <3>2, <3>3, <3>4
  <2>. QED BY <1>6, <1>7, <2>7, <2>8, <2>9 DEF Ahead
<1>8. CASE backend # "internal"
  <2>1. rows'[i] \in Fresh
    BY <1>2, <1>4, <1>5, <1>8 DEF Fresh
  <2>2. rows'[i] \in owed /\ Cached(rows'[i])
    BY <1>1, <2>1 DEF Fresh, OwedOK
  <2>3. i \in DOMAIN rows /\ rows'[i] = rows[i]
    <3>1. CASE Cached(d)
      BY <1>5, <1>8, <3>1 DEF Store, Stored, Used
    <3>2. CASE ~Cached(d)
      <4>1. rows' = Stored(d) /\ rows'[i] # d
        BY <2>2, <3>2 DEF Store
      <4>. QED BY <1>1, <1>5, <1>8, <4>1, StoredFacts
    <3>. QED BY <3>1, <3>2
  <2>4. Ahead(i)
    BY <1>6, <2>1, <2>3
  <2>. QED BY <1>6, <1>8, <2>3, <2>4 DEF Ahead
<1>. QED BY <1>7, <1>8

LEMMA CoverageStep == ASSUME Inv, [Next]_vars PROVE Coverage'
<1>0. Types /\ Tidy /\ NotOwed /\ Coverage /\ OwedOK
  BY DEF Inv, Types
<1>1. CASE UNCHANGED vars
  BY <1>0, <1>1, CoverageKept DEF vars, InRound, Scanning, Fresh, Waiting, In
<1>2. CASE StartRound
  BY <1>0, <1>2, StartCoverage
<1>3. CASE Scan
  BY <1>0, <1>3, ScanCoverage
<1>4. CASE Put
  BY <1>0, <1>4, PutCoverage
<1>5. CASE PutResumes \/ Join
  <2>1. UNCHANGED <<backend, rows, token, batch, queue, owed, touched>> /\ InRound
    BY <1>5 DEF PutResumes, Join, InRound
  <2>2. Fresh' = Fresh
    BY <2>1 DEF Fresh, Waiting, In
  <2>3. Scanning => Scanning'
    BY <1>5, <2>1 DEF Scanning, PutResumes, Join
  <2>. QED BY <1>0, <2>1, <2>2, <2>3, CoverageKept
<1>6. CASE Save \/ Unwound
  BY <1>6 DEF Save, Unwound, Coverage, InRound
<1>7. CASE CacheRaises \/ Stop
  <2>1. UNCHANGED <<backend, rows, token, batch, queue, owed, touched>>
    BY <1>7 DEF CacheRaises, Stop
  <2>2. fpc' = fpc \/ fpc' \in {"unwind", "over"}
    BY <1>7 DEF CacheRaises, Stop, Unwind
  <2>3. Fresh' = Fresh
    BY <2>1 DEF Fresh, Waiting, In
  <2>. QED BY <1>0, <2>1, <2>2, <2>3, CoverageKept DEF InRound, Scanning
<1>8. ASSUME NEW p \in Processors, Take(p) PROVE Coverage'
  BY <1>0, <1>8, TakeCoverage
<1>9. ASSUME NEW p \in Processors, Update(p) PROVE Coverage'
  <2>0. /\ work[p] \in Domains /\ work[p] \notin owed /\ touched \subseteq owed
        /\ UNCHANGED <<backend, fpc, token, batch, queue>> /\ touched' = touched \cap owed'
    BY <1>0, <1>9 DEF Update, NotOwed, OwedOK
  <2>1. CASE UNCHANGED <<rows, owed>>
    <3>1. touched' = touched
      BY <2>0, <2>1
    <3>2. Fresh' = Fresh
      BY <2>0, <2>1, <3>1 DEF Fresh, Waiting, In
    <3>. QED BY <1>0, <2>0, <2>1, <3>2, CoverageKept DEF InRound, Scanning
  <2>2. CASE Store(work[p])
    <3>1. owed' \subseteq owed
      BY <2>2 DEF Store
    <3>. QED BY <1>0, <2>0, <2>2, <3>1, CacheCoverage
  <2>. QED BY <1>9, <2>1, <2>2 DEF Update
<1>10. ASSUME NEW d \in Domains, Request(d) PROVE Coverage'
  <2>1. /\ UNCHANGED <<backend, fpc, token, batch, queue>>
        /\ (Cached(d) /\ rows' = Used(d) /\ owed' = owed) \/ Store(d)
        /\ touched' = (touched \cup {d}) \cap owed'
    BY <1>10 DEF Request, roundVars
  <2>. QED BY <1>0, <2>1, CacheCoverage
<1>. QED BY <1>1, <1>2, <1>3, <1>4, <1>5, <1>6, <1>7, <1>8, <1>9, <1>10
         DEF Next, Fetcher, Others

\* A round reaches every domain that was cached when it began and stayed so - with the
\* internal cache, unless a request used it meanwhile - for every size of the cache and
\* of the batches, whatever is inserted, evicted, used or updated between two scans.
THEOREM RoundCoversHolds == Spec => []RoundCovers
<1>1. Init => Inv
  <2> SUFFICES ASSUME Init PROVE Inv
    OBVIOUS
  <2>1. Tidy /\ NotOwed /\ Coverage
    BY DEF Init, Tidy, NotOwed, Coverage, InRound
  <2>. QED BY <2>1, TypesInit DEF Inv
<1>2. Inv /\ [Next]_vars => Inv'
  <2> SUFFICES ASSUME Inv, [Next]_vars PROVE Inv'
    OBVIOUS
  <2>1. Types' /\ Tidy' /\ NotOwed' /\ Coverage'
    BY TypesStep, TidyStep, NotOwedStep, CoverageStep DEF Inv
  <2>. QED BY <2>1 DEF Inv
<1>3. Inv => RoundCovers
  <2> SUFFICES ASSUME Inv, fpc = "save", NEW d \in owed
               PROVE  backend = "internal" /\ d \in touched
    BY DEF RoundCovers
  <2>1. ~Scanning /\ InRound /\ queue = <<>> /\ batch = <<>>
    BY DEF Inv, Tidy, Scanning, InRound
  <2>2. ~Waiting(d)
    <3>1. DOMAIN <<>> = {}
      OBVIOUS
    <3>. QED BY <2>1, <3>1 DEF Waiting, In
  <2>3. PICK i \in DOMAIN rows : rows[i] = d
    BY DEF Inv, Types, OwedOK, Cached
  <2>4. d \notin Fresh
    BY <2>1, <2>3 DEF Inv, Coverage, Ahead
  <2>. QED BY <2>2, <2>4 DEF Fresh
<1>. QED BY <1>1, <1>2, <1>3, PTL DEF Spec
=============================================================================
