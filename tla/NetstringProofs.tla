--------------------------- MODULE NetstringProofs ---------------------------
(***************************************************************************)
(* Proofs about Netstring for any symbols, limit, streams and chunks: the  *)
(* parser agrees with the reference decoder, which is made of recursive    *)
(* functions; what they compute is proved by induction over the naturals.  *)
(***************************************************************************)
EXTENDS Netstring, WellFoundedInduction, SequenceTheorems, TLAPS

\* The order of the naturals as a relation, as the library wants it
LEMMA LessInRelation == \A y, x \in Nat : y < x => <<y, x>> \in OpToRel(<, Nat)
BY DEF OpToRel

\* Induction over the naturals, for the sets that the lemmas below define
LEMMA Induction ==
  ASSUME NEW S, 0 \in S, \A n \in Nat : n \in S => n + 1 \in S
  PROVE  Nat \subseteq S
<1>1. SUFFICES ASSUME Nat \ S # {} PROVE FALSE
      OBVIOUS
<1>. DEFINE R == OpToRel(<, Nat)
<1>2. IsWellFoundedOn(R, Nat)
      BY NatLessThanWellFounded
<1>3. \A y, x \in Nat : y < x => <<y, x>> \in R
      BY LessInRelation
<1>. HIDE DEF R
<1>4. PICK x \in Nat \ S : \A y \in Nat \ S : ~ (<<y, x>> \in R)
      BY <1>1, <1>2, WFMin
<1>5. x # 0
      OBVIOUS
<1>6. x - 1 \in Nat \ S
      BY <1>5
<1>7. x - 1 < x
      OBVIOUS
<1>. QED BY <1>3, <1>4, <1>6, <1>7

-----------------------------------------------------------------------------
(* Number *)

LEMMA DigitValues == \A s \in Digits : Value[s] \in Nat
<1>1. \A s \in Digits : Value[s] \in 0..9
  BY SymbolsAssumption
<1>. QED BY <1>1

\* f is the recursive function of Number
IsNumbers(f, w, p, n) ==
  f = [i \in 0..n |-> IF i = 0 THEN 0 ELSE 10 * f[i - 1] + Value[w[p + i]]]

LEMMA NumbersExist == \A w, p : \A n \in Nat : \E f : IsNumbers(f, w, p, n)
<1>. SUFFICES ASSUME NEW w, NEW p PROVE \A n \in Nat : \E f : IsNumbers(f, w, p, n)
  OBVIOUS
<1>. DEFINE S == {n \in Nat : \E f : IsNumbers(f, w, p, n)}
<1>1. 0 \in S
  <2>1. IsNumbers([i \in 0..0 |-> 0], w, p, 0)
    BY DEF IsNumbers
  <2>. QED BY <2>1
<1>2. ASSUME NEW n \in Nat, n \in S
      PROVE  n + 1 \in S
  <2>1. PICK f : IsNumbers(f, w, p, n)
    BY <1>2
  <2>. DEFINE g == [i \in 0..(n + 1) |-> IF i = n + 1 THEN 10 * f[n] + Value[w[p + i]] ELSE f[i]]
  <2>2. \A i \in 0..n : f[i] = IF i = 0 THEN 0 ELSE 10 * f[i - 1] + Value[w[p + i]]
    BY <2>1 DEF IsNumbers
  <2>3. ASSUME NEW i \in 0..(n + 1)
        PROVE  g[i] = IF i = 0 THEN 0 ELSE 10 * g[i - 1] + Value[w[p + i]]
    <3>1. CASE i = n + 1
      <4>1. g[i - 1] = f[n]  BY <3>1
      <4>2. i # 0  BY <3>1
      <4>. QED BY <3>1, <4>1, <4>2
    <3>2. CASE i \in 0..n
      <4>1. g[i] = f[i]  BY <3>2
      <4>2. i # 0 => g[i - 1] = f[i - 1]  BY <3>2
      <4>. QED BY <2>2, <3>2, <4>1, <4>2
    <3>. QED BY <3>1, <3>2
  <2>4. IsNumbers(g, w, p, n + 1)
    <3>. DEFINE h == [i \in 0..(n + 1) |-> IF i = 0 THEN 0 ELSE 10 * g[i - 1] + Value[w[p + i]]]
    <3>1. \A i \in 0..(n + 1) : g[i] = h[i]  BY <2>3
    <3>2. g = h  BY <3>1
    <3>. QED BY <3>2 DEF IsNumbers
  <2>. QED BY <2>4
<1>. HIDE DEF S
<1>3. Nat \subseteq S
  BY <1>1, <1>2, Induction
<1>. QED BY <1>3 DEF S

LEMMA NumbersStep ==
  \A w, p, f : \A n \in Nat :
    IsNumbers(f, w, p, n) =>
      f[0] = 0 /\ \A i \in 1..n : f[i] = 10 * f[i - 1] + Value[w[p + i]]
<1>. SUFFICES ASSUME NEW w, NEW p, NEW f, NEW n \in Nat, IsNumbers(f, w, p, n)
              PROVE  f[0] = 0 /\ \A i \in 1..n : f[i] = 10 * f[i - 1] + Value[w[p + i]]
  OBVIOUS
<1>1. \A j \in 0..n : f[j] = IF j = 0 THEN 0 ELSE 10 * f[j - 1] + Value[w[p + j]]
  BY DEF IsNumbers
<1>. QED BY <1>1

\* The n symbols of w after position p are those of v after position q
SameSymbols(w, p, v, q, n) == \A i \in 1..n : w[p + i] = v[q + i]

LEMMA NumbersAgree ==
  \A w, v, p, q, f, g : \A n, m, k \in Nat :
    /\ k <= n /\ k <= m /\ IsNumbers(f, w, p, n) /\ IsNumbers(g, v, q, m)
    /\ SameSymbols(w, p, v, q, k)
    => f[k] = g[k]
<1>. SUFFICES ASSUME NEW w, NEW v, NEW p, NEW q, NEW f, NEW g,
                     NEW n \in Nat, NEW m \in Nat, NEW k \in Nat, k <= n, k <= m,
                     IsNumbers(f, w, p, n), IsNumbers(g, v, q, m),
                     SameSymbols(w, p, v, q, k)
              PROVE  f[k] = g[k]
  OBVIOUS
<1>. DEFINE S == {i \in Nat : i <= k => f[i] = g[i]}
<1>1. 0 \in S
  BY NumbersStep
<1>2. ASSUME NEW i \in Nat, i \in S
      PROVE  i + 1 \in S
  <2>. SUFFICES ASSUME i + 1 <= k PROVE f[i + 1] = g[i + 1]
    OBVIOUS
  <2>1. f[i] = g[i]  BY <1>2
  <2>. HIDE DEF S
  <2>2. PICK j \in Nat : j = i + 1  OBVIOUS
  <2>3. f[j] = 10 * f[j - 1] + Value[w[p + j]]  BY <2>2, NumbersStep
  <2>4. g[j] = 10 * g[j - 1] + Value[v[q + j]]  BY <2>2, NumbersStep
  <2>5. w[p + j] = v[q + j] /\ j - 1 = i  BY <2>2 DEF SameSymbols
  <2>. QED BY <2>1, <2>2, <2>3, <2>4, <2>5
<1>. HIDE DEF S
<1>3. k \in S
  BY <1>1, <1>2, Induction
<1>. QED BY <1>3 DEF S

\* Number is the last value of such a function
LEMMA NumberIs ==
  \A w, p : \A n \in Nat : \E f : IsNumbers(f, w, p, n) /\ Number(w, p, n) = f[n]
<1>. SUFFICES ASSUME NEW w, NEW p, NEW n \in Nat
              PROVE  \E f : IsNumbers(f, w, p, n) /\ Number(w, p, n) = f[n]
  OBVIOUS
<1>. DEFINE f == CHOOSE g : g = [i \in 0..n |-> IF i = 0 THEN 0 ELSE 10 * g[i - 1] + Value[w[p + i]]]
<1>1. \E g : g = [i \in 0..n |-> IF i = 0 THEN 0 ELSE 10 * g[i - 1] + Value[w[p + i]]]
  <2>1. PICK g : IsNumbers(g, w, p, n)  BY NumbersExist
  <2>. QED BY Zenon, <2>1 DEF IsNumbers
<1>2. IsNumbers(f, w, p, n)
  BY Zenon, <1>1 DEF IsNumbers
<1>3. Number(w, p, n) = f[n]
  BY DEF Number
<1>. QED BY <1>2, <1>3

LEMMA NumberZero == \A w, p : Number(w, p, 0) = 0
<1>. SUFFICES ASSUME NEW w, NEW p PROVE Number(w, p, 0) = 0
  OBVIOUS
<1>1. PICK f : IsNumbers(f, w, p, 0) /\ Number(w, p, 0) = f[0]
  BY NumberIs
<1>. QED BY <1>1, NumbersStep

LEMMA NumberRecursion ==
  \A w, p : \A n \in Nat \ {0} : Number(w, p, n) = 10 * Number(w, p, n - 1) + Value[w[p + n]]
<1>. SUFFICES ASSUME NEW w, NEW p, NEW n \in Nat \ {0}
              PROVE  Number(w, p, n) = 10 * Number(w, p, n - 1) + Value[w[p + n]]
  OBVIOUS
<1>. DEFINE m == n - 1
<1>1. m \in Nat /\ m <= n /\ m <= m
  OBVIOUS
<1>. HIDE DEF m
<1>2. PICK f : IsNumbers(f, w, p, m) /\ Number(w, p, m) = f[m]
  BY <1>1, NumberIs
<1>3. PICK g : IsNumbers(g, w, p, n) /\ Number(w, p, n) = g[n]
  BY NumberIs
<1>4. SameSymbols(w, p, w, p, m)
  BY DEF SameSymbols
<1>5. f[m] = g[m]
  BY <1>1, <1>2, <1>3, <1>4, NumbersAgree
<1>6. g[n] = 10 * g[n - 1] + Value[w[p + n]]
  BY <1>3, NumbersStep
<1>. QED BY <1>2, <1>3, <1>5, <1>6 DEF m

\* Number looks at nothing but the digits
LEMMA NumberAgrees ==
  \A w, v, p, q : \A n \in Nat : SameSymbols(w, p, v, q, n) => Number(w, p, n) = Number(v, q, n)
<1>. SUFFICES ASSUME NEW w, NEW v, NEW p, NEW q, NEW n \in Nat, SameSymbols(w, p, v, q, n)
              PROVE  Number(w, p, n) = Number(v, q, n)
  OBVIOUS
<1>1. PICK f : IsNumbers(f, w, p, n) /\ Number(w, p, n) = f[n]
  BY NumberIs
<1>2. PICK g : IsNumbers(g, v, q, n) /\ Number(v, q, n) = g[n]
  BY NumberIs
<1>. QED BY <1>1, <1>2, NumbersAgree

\* Digits denote a natural number, and more digits no smaller one
LEMMA NumberType ==
  \A w, p : \A k \in Nat : AreDigits(w, p, k) =>
    \A n \in 0..k : Number(w, p, n) \in Nat /\ Number(w, p, n) <= Number(w, p, k)
<1>. SUFFICES ASSUME NEW w, NEW p, NEW k \in Nat, AreDigits(w, p, k)
              PROVE  \A n \in 0..k : Number(w, p, n) \in Nat /\ Number(w, p, n) <= Number(w, p, k)
  OBVIOUS
<1>1. \A n \in 1..k : Value[w[p + n]] \in Nat
  BY DigitValues DEF AreDigits
<1>. DEFINE S == {n \in Nat : n <= k => Number(w, p, n) \in Nat}
<1>2. 0 \in S
  BY NumberZero
<1>3. ASSUME NEW n \in Nat, n \in S
      PROVE  n + 1 \in S
  <2>1. n + 1 <= k => Number(w, p, n) \in Nat  BY <1>3
  <2>2. PICK m \in Nat \ {0} : m = n + 1 /\ m - 1 = n  OBVIOUS
  <2>3. Number(w, p, m) = 10 * Number(w, p, n) + Value[w[p + m]]  BY <2>2, NumberRecursion
  <2>4. m <= k => Value[w[p + m]] \in Nat  BY <1>1
  <2>5. m <= k => Number(w, p, m) \in Nat  BY <2>1, <2>2, <2>3, <2>4
  <2>. QED BY <2>2, <2>5
<1>. HIDE DEF S
<1>4. Nat \subseteq S
  BY <1>2, <1>3, Induction
<1>5. \A n \in Nat : n <= k => Number(w, p, n) \in Nat
  BY <1>4 DEF S
<1>. DEFINE T == {m \in Nat : m <= k => \A n \in 0..m : Number(w, p, n) <= Number(w, p, m)}
<1>6. 0 \in T
  BY <1>5
<1>7. ASSUME NEW m \in Nat, m \in T
      PROVE  m + 1 \in T
  <2>1. PICK l \in Nat \ {0} : l = m + 1 /\ l - 1 = m  OBVIOUS
  <2>. SUFFICES ASSUME l <= k PROVE \A n \in 0..l : Number(w, p, n) <= Number(w, p, l)
    BY <2>1
  <2>2. \A n \in 0..m : Number(w, p, n) <= Number(w, p, m)  BY <1>7, <2>1
  <2>. HIDE DEF T
  <2>3. Number(w, p, l) = 10 * Number(w, p, m) + Value[w[p + l]]  BY <2>1, NumberRecursion
  <2>4. Value[w[p + l]] \in Nat  BY <1>1
  <2>5. Number(w, p, m) \in Nat /\ Number(w, p, l) \in Nat  BY <1>5, <2>1
  <2>6. Number(w, p, m) <= Number(w, p, l)  BY <2>3, <2>4, <2>5
  <2>7. \A n \in 0..m : Number(w, p, n) \in Nat  BY <1>5, <2>1
  <2>8. \A n \in 0..m : Number(w, p, n) <= Number(w, p, l)  BY <2>2, <2>5, <2>6, <2>7
  <2>9. \A n \in 0..l : n \in 0..m \/ n = l  BY <2>1
  <2>. QED BY <2>5, <2>8, <2>9
<1>. HIDE DEF T
<1>8. k \in T
  BY <1>6, <1>7, Induction
<1>. QED BY <1>5, <1>8 DEF T

-----------------------------------------------------------------------------
(* Decoded *)

\* A colon ends the digits
LEMMA NotDigits == ":" \notin Digits
BY SymbolsAssumption

\* No position has two lengths, since the digits of the longer have no colon among them
LEMMA OneHeader ==
  \A w : \A p, m, n \in Nat : HasHeader(w, p, m) /\ HasHeader(w, p, n) => m = n
<1>1. \A w : \A p, m, n \in Nat : HasHeader(w, p, m) /\ HasHeader(w, p, n) => ~ (m < n)
  <2>. SUFFICES ASSUME NEW w, NEW p \in Nat, NEW m \in Nat, NEW n \in Nat,
                       HasHeader(w, p, m), HasHeader(w, p, n), m < n
                PROVE  FALSE
    OBVIOUS
  <2>1. w[p + (m + 1)] \in Digits
    <3>1. m + 1 \in 1..n  OBVIOUS
    <3>2. \A i \in 1..n : w[p + i] \in Digits  BY DEF HasHeader, HasLength, AreDigits
    <3>. QED BY <3>1, <3>2
  <2>2. p + (m + 1) = p + m + 1  OBVIOUS
  <2>3. w[p + m + 1] = ":"  BY DEF HasHeader
  <2>. QED BY <2>1, <2>2, <2>3, NotDigits
<1>. QED BY <1>1

\* In w, the string s takes the positions after p up to q
Follows(w, p, q, s) ==
  \E n \in DOMAIN w :
    /\ HasNetstring(w, p, n)
    /\ q = DataEnd(w, p, n) + 1 /\ s = SubSeq(w, p + n + 2, DataEnd(w, p, n))

\* One round of the reference decoder, when a string follows
LEMMA FollowsOneMore ==
  \A w \in Seq(Symbols) : \A p \in Nat : \A q, s :
    Follows(w, p, q, s) =>
      \A t : OneMore(w, [at |-> p, strings |-> t]) = [at |-> q, strings |-> Append(t, s)]
<1>. SUFFICES ASSUME NEW w \in Seq(Symbols), NEW p \in Nat, NEW q, NEW s, NEW t, Follows(w, p, q, s)
              PROVE  OneMore(w, [at |-> p, strings |-> t]) = [at |-> q, strings |-> Append(t, s)]
  OBVIOUS
<1>1. PICK n \in DOMAIN w :
        /\ HasNetstring(w, p, n)
        /\ q = DataEnd(w, p, n) + 1 /\ s = SubSeq(w, p + n + 2, DataEnd(w, p, n))
  BY DEF Follows
<1>. DEFINE d == [at |-> p, strings |-> t]
            m == CHOOSE m \in DOMAIN w : HasNetstring(w, d.at, m)
<1>2. d.at = p /\ d.strings = t
  OBVIOUS
<1>3. m \in DOMAIN w /\ HasNetstring(w, p, m)
  BY <1>1, <1>2
<1>. HIDE DEF m
<1>4. m = n
  <2>1. m \in Nat /\ n \in Nat  BY <1>3
  <2>. QED BY <1>1, <1>3, <2>1, OneHeader DEF HasNetstring
<1>5. OneMore(w, d) = [at |-> DataEnd(w, d.at, m) + 1,
                       strings |-> Append(d.strings, SubSeq(w, d.at + m + 2, DataEnd(w, d.at, m)))]
  <2>1. \E i \in DOMAIN w : HasNetstring(w, d.at, i)  BY <1>1, <1>2
  <2>. HIDE DEF d
  <2>. QED BY <2>1 DEF OneMore, m
<1>. QED BY <1>1, <1>2, <1>4, <1>5

\* ... and when none does
LEMMA NoneFollows ==
  \A w, d : (\A n \in DOMAIN w : ~ HasNetstring(w, d.at, n)) => OneMore(w, d) = d
BY DEF OneMore

\* f is the recursive function of Decoded
IsDecoding(f, w, n) ==
  f = [i \in 0..n |-> IF i = 0 THEN [at |-> 0, strings |-> <<>>] ELSE OneMore(w, f[i - 1])]

LEMMA DecodingExists == \A w : \A n \in Nat : \E f : IsDecoding(f, w, n)
<1>. SUFFICES ASSUME NEW w PROVE \A n \in Nat : \E f : IsDecoding(f, w, n)
  OBVIOUS
<1>. DEFINE S == {n \in Nat : \E f : IsDecoding(f, w, n)}
            start == [at |-> 0, strings |-> <<>>]
<1>1. 0 \in S
  <2>1. IsDecoding([i \in 0..0 |-> start], w, 0)
    BY DEF IsDecoding
  <2>. QED BY <2>1
<1>2. ASSUME NEW n \in Nat, n \in S
      PROVE  n + 1 \in S
  <2>1. PICK f : IsDecoding(f, w, n)
    BY <1>2
  <2>. DEFINE g == [i \in 0..(n + 1) |-> IF i = n + 1 THEN OneMore(w, f[n]) ELSE f[i]]
  <2>2. \A i \in 0..n : f[i] = IF i = 0 THEN start ELSE OneMore(w, f[i - 1])
    BY <2>1 DEF IsDecoding
  <2>. HIDE DEF start
  <2>3. ASSUME NEW i \in 0..(n + 1)
        PROVE  g[i] = IF i = 0 THEN start ELSE OneMore(w, g[i - 1])
    <3>1. CASE i = n + 1
      <4>1. g[i - 1] = f[n]  BY <3>1
      <4>2. i # 0  BY <3>1
      <4>. QED BY <3>1, <4>1, <4>2
    <3>2. CASE i \in 0..n
      <4>1. g[i] = f[i]  BY <3>2
      <4>2. i # 0 => g[i - 1] = f[i - 1]  BY <3>2
      <4>. QED BY <2>2, <3>2, <4>1, <4>2
    <3>. QED BY <3>1, <3>2
  <2>4. IsDecoding(g, w, n + 1)
    <3>. DEFINE h == [i \in 0..(n + 1) |-> IF i = 0 THEN start ELSE OneMore(w, g[i - 1])]
    <3>1. \A i \in 0..(n + 1) : g[i] = h[i]  BY <2>3
    <3>2. g = h  BY <3>1
    <3>. QED BY <3>2 DEF IsDecoding, start
  <2>. QED BY <2>4
<1>. HIDE DEF S
<1>3. Nat \subseteq S
  BY <1>1, <1>2, Induction
<1>. QED BY <1>3 DEF S

\* Decoded is the last value of such a function
LEMMA DecodedIs ==
  \A w \in Seq(Symbols) : \E f :
    /\ Decoded(w) = f[Len(w)] /\ f[0] = [at |-> 0, strings |-> <<>>]
    /\ \A i \in 1..Len(w) : f[i] = OneMore(w, f[i - 1])
<1>. SUFFICES ASSUME NEW w \in Seq(Symbols)
              PROVE  \E f : /\ Decoded(w) = f[Len(w)] /\ f[0] = [at |-> 0, strings |-> <<>>]
                            /\ \A i \in 1..Len(w) : f[i] = OneMore(w, f[i - 1])
  OBVIOUS
<1>. DEFINE f == CHOOSE g : g = [i \in 0..Len(w) |-> IF i = 0 THEN [at |-> 0, strings |-> <<>>]
                                                      ELSE OneMore(w, g[i - 1])]
<1>1. \E g : g = [i \in 0..Len(w) |-> IF i = 0 THEN [at |-> 0, strings |-> <<>>]
                                                ELSE OneMore(w, g[i - 1])]
  <2>1. PICK g : IsDecoding(g, w, Len(w))  BY DecodingExists
  <2>. QED BY Zenon, <2>1 DEF IsDecoding
<1>2. IsDecoding(f, w, Len(w))
  BY Zenon, <1>1 DEF IsDecoding
<1>3. Decoded(w) = f[Len(w)]
  BY DEF Decoded
<1>. HIDE DEF f
<1>4. \A i \in 0..Len(w) : f[i] = IF i = 0 THEN [at |-> 0, strings |-> <<>>] ELSE OneMore(w, f[i - 1])
  BY <1>2 DEF IsDecoding
<1>. QED BY <1>3, <1>4

\* w begins with strings; the i-th of them ends at cut[i]
Parsed(w, strings, cut) ==
  /\ cut \in [0..Len(strings) -> 0..Len(w)] /\ cut[0] = 0
  /\ \A i \in 1..Len(strings) : Follows(w, cut[i - 1], cut[i], strings[i])

LEMMA FollowsAdvances ==
  \A w \in Seq(Symbols) : \A p \in Nat : \A q, s :
    Follows(w, p, q, s) => q \in Nat /\ p < q /\ q <= Len(w)
<1>. SUFFICES ASSUME NEW w \in Seq(Symbols), NEW p \in Nat, NEW q, NEW s, Follows(w, p, q, s)
              PROVE  q \in Nat /\ p < q /\ q <= Len(w)
  OBVIOUS
<1>1. PICK n \in DOMAIN w : HasNetstring(w, p, n) /\ q = DataEnd(w, p, n) + 1
  BY DEF Follows
<1>2. n \in Nat
  OBVIOUS
<1>3. AreDigits(w, p, n) /\ DataEnd(w, p, n) < Len(w)
  BY <1>1 DEF HasNetstring, HasHeader, HasLength
<1>4. Number(w, p, n) \in Nat
  BY <1>2, <1>3, NumberType
<1>. QED BY <1>1, <1>2, <1>3, <1>4 DEF DataEnd

LEMMA ParsedType ==
  ASSUME NEW w \in Seq(Symbols), NEW strings \in Seq(Seq(Symbols)), NEW cut, Parsed(w, strings, cut)
  PROVE  /\ Len(strings) \in Nat /\ Len(w) \in Nat
         /\ \A i \in 0..Len(strings) : cut[i] \in Nat /\ cut[i] <= Len(w)
<1>1. Len(strings) \in Nat /\ Len(w) \in Nat
  BY LenProperties
<1>2. \A i \in 0..Len(strings) : cut[i] \in 0..Len(w)
  BY DEF Parsed
<1>. QED BY <1>1, <1>2

\* There are no more strings than symbols
LEMMA CutsGrow ==
  ASSUME NEW w \in Seq(Symbols), NEW strings \in Seq(Seq(Symbols)), NEW cut, Parsed(w, strings, cut)
  PROVE  Len(strings) <= cut[Len(strings)]
<1>. DEFINE S == {i \in Nat : i <= Len(strings) => i <= cut[i]}
<1>1. 0 \in S
  BY DEF Parsed
<1>2. ASSUME NEW i \in Nat, i \in S
      PROVE  i + 1 \in S
  <2>1. PICK j \in Nat \ {0} : j = i + 1 /\ j - 1 = i  OBVIOUS
  <2>. SUFFICES ASSUME j <= Len(strings) PROVE j <= cut[j]
    BY <2>1
  <2>2. i <= cut[i]  BY <1>2, <2>1
  <2>. HIDE DEF S
  <2>3. i \in 0..Len(strings) /\ j \in 1..Len(strings) /\ j \in 0..Len(strings)
    BY <2>1, ParsedType
  <2>4. cut[i] \in Nat /\ cut[j] \in Nat  BY <2>3, ParsedType
  <2>5. Follows(w, cut[i], cut[j], strings[j])  BY <2>1, <2>3 DEF Parsed
  <2>6. cut[i] < cut[j]  BY <2>4, <2>5, FollowsAdvances
  <2>. QED BY <2>1, <2>2, <2>4, <2>6
<1>. HIDE DEF S
<1>3. Len(strings) \in S
  BY <1>1, <1>2, Induction, ParsedType
<1>. QED BY <1>3 DEF S

\* Decoding comes to each cut after one round for each string
LEMMA DecodingParsed ==
  ASSUME NEW w \in Seq(Symbols), NEW strings \in Seq(Seq(Symbols)), NEW cut, Parsed(w, strings, cut)
  PROVE  /\ Len(strings) \in Nat /\ Len(strings) <= Len(w)
         /\ \E f : /\ Decoded(w) = f[Len(w)]
                   /\ \A i \in 1..Len(w) : f[i] = OneMore(w, f[i - 1])
                   /\ f[Len(strings)] = [at |-> cut[Len(strings)], strings |-> strings]
<1>. DEFINE k == Len(strings)
            d(i) == [at |-> cut[i], strings |-> SubSeq(strings, 1, i)]
<1>1. PICK f : /\ Decoded(w) = f[Len(w)] /\ f[0] = [at |-> 0, strings |-> <<>>]
               /\ \A i \in 1..Len(w) : f[i] = OneMore(w, f[i - 1])
  BY DecodedIs
<1>2. k \in Nat /\ k <= Len(w)
  <2>1. k \in 0..k /\ k \in Nat  BY ParsedType
  <2>2. k <= cut[k]  BY CutsGrow
  <2>3. cut[k] \in Nat /\ cut[k] <= Len(w) /\ Len(w) \in Nat  BY <2>1, ParsedType
  <2>. HIDE DEF k
  <2>. QED BY <2>1, <2>2, <2>3
<1>. DEFINE S == {i \in Nat : i <= k => f[i] = d(i)}
<1>3. 0 \in S
  <2>1. cut[0] = 0  BY DEF Parsed
  <2>2. SubSeq(strings, 1, 0) = <<>>  BY SubSeqEmpty
  <2>. QED BY <1>1, <2>1, <2>2
<1>4. ASSUME NEW i \in Nat, i \in S
      PROVE  i + 1 \in S
  <2>1. PICK j \in Nat \ {0} : j = i + 1 /\ j - 1 = i  OBVIOUS
  <2>. SUFFICES ASSUME j <= k PROVE f[j] = d(j)
    BY <2>1
  <2>2. f[i] = d(i)  BY <1>2, <1>4, <2>1
  <2>3. f[j] = OneMore(w, f[i])  BY <1>1, <1>2, <2>1
  <2>4. i \in 0..k /\ j \in 1..k  BY <1>2, <2>1
  <2>5. Follows(w, cut[i], cut[j], strings[j]) /\ cut[i] \in Nat
    BY <2>1, <2>4, ParsedType DEF Parsed
  <2>6. OneMore(w, d(i)) = [at |-> cut[j], strings |-> Append(SubSeq(strings, 1, i), strings[j])]
    <3>1. \A t : OneMore(w, [at |-> cut[i], strings |-> t])
                    = [at |-> cut[j], strings |-> Append(t, strings[j])]
      <4>1. \A p \in Nat : \A q, s : Follows(w, p, q, s) =>
              \A t : OneMore(w, [at |-> p, strings |-> t]) = [at |-> q, strings |-> Append(t, s)]
        BY Zenon, FollowsOneMore
      <4>. QED BY Zenon, <2>5, <4>1
    <3>. QED BY Zenon, <3>1
  <2>7. Append(SubSeq(strings, 1, i), strings[j]) = SubSeq(strings, 1, j)
    BY <2>1
  <2>. QED BY <2>2, <2>3, <2>6, <2>7
<1>. HIDE DEF S
<1>5. k \in S
  BY <1>2, <1>3, <1>4, Induction
<1>6. f[k] = [at |-> cut[k], strings |-> strings]
  <2>1. SubSeq(strings, 1, k) = strings  BY SubSeqFull
  <2>. QED BY <1>2, <1>5, <2>1 DEF S
<1>. QED BY <1>1, <1>2, <1>6

\* Decoding stops where no more string follows
LEMMA DecodedParsed ==
  ASSUME NEW w \in Seq(Symbols), NEW strings \in Seq(Seq(Symbols)), NEW cut, Parsed(w, strings, cut),
         \A n \in DOMAIN w : ~ HasNetstring(w, cut[Len(strings)], n)
  PROVE  Decoded(w) = [at |-> cut[Len(strings)], strings |-> strings]
<1>. DEFINE k == Len(strings)
<1>1. PICK f : /\ Decoded(w) = f[Len(w)]
               /\ \A i \in 1..Len(w) : f[i] = OneMore(w, f[i - 1])
               /\ f[k] = [at |-> cut[k], strings |-> strings]
  BY DecodingParsed
<1>2. k \in Nat /\ k <= Len(w) /\ Len(w) \in Nat
  BY DecodingParsed, LenProperties
<1>. HIDE DEF k
<1>. DEFINE T == {i \in Nat : k + i <= Len(w) => f[k + i] = f[k]}
<1>3. 0 \in T
  BY <1>2
<1>4. ASSUME NEW i \in Nat, i \in T
      PROVE  i + 1 \in T
  <2>1. PICK j \in Nat \ {0} : j = k + (i + 1) /\ j - 1 = k + i  BY <1>2
  <2>. SUFFICES ASSUME j <= Len(w) PROVE f[j] = f[k]
    BY <2>1
  <2>2. f[k + i] = f[k]  BY <1>2, <1>4, <2>1
  <2>3. f[j] = OneMore(w, f[k])  BY <1>1, <2>1, <2>2
  <2>4. f[k].at = cut[k]  BY <1>1
  <2>. QED BY <2>3, <2>4, NoneFollows DEF k
<1>. HIDE DEF T
<1>5. Len(w) - k \in T /\ k + (Len(w) - k) = Len(w)
  <2>1. Len(w) - k \in Nat /\ k + (Len(w) - k) = Len(w)  BY <1>2
  <2>. QED BY <1>3, <1>4, <2>1, Induction
<1>. QED BY <1>1, <1>5 DEF T, k

-----------------------------------------------------------------------------
(* A stream that grows *)

\* v begins with w
Extends(v, w) == Len(w) <= Len(v) /\ \A i \in 1..Len(w) : v[i] = w[i]

\* A piece of a stream, its length and its symbols
LEMMA SubSeqIs ==
  ASSUME NEW w \in Seq(Symbols), NEW a \in Nat \ {0}, NEW b \in Nat, b <= Len(w)
  PROVE  /\ SubSeq(w, a, b) \in Seq(Symbols)
         /\ Len(SubSeq(w, a, b)) = IF a <= b THEN b - a + 1 ELSE 0
         /\ \A i \in 1..(b - a + 1) : SubSeq(w, a, b)[i] = w[a + i - 1]
<1>1. \A i \in a..b : w[i] \in Symbols
  <2>1. \A i \in a..b : i \in 1..Len(w)  BY LenProperties
  <2>. QED BY <2>1, ElementOfSeq
<1>. QED BY <1>1, SubSeqProperties

LEMMA SubSeqGrows ==
  ASSUME NEW w \in Seq(Symbols), NEW v \in Seq(Symbols), Extends(v, w),
         NEW a \in Nat \ {0}, NEW b \in Nat, b <= Len(w)
  PROVE  SubSeq(v, a, b) = SubSeq(w, a, b)
<1>1. Len(w) \in Nat /\ Len(v) \in Nat /\ b <= Len(v)
  BY LenProperties DEF Extends
<1>2. SubSeq(v, a, b) \in Seq(Symbols) /\ SubSeq(w, a, b) \in Seq(Symbols)
  BY <1>1, SubSeqIs
<1>3. /\ Len(SubSeq(w, a, b)) = IF a <= b THEN b - a + 1 ELSE 0
      /\ Len(SubSeq(v, a, b)) = IF a <= b THEN b - a + 1 ELSE 0
  BY <1>1, SubSeqIs
<1>4. \A i \in 1..Len(SubSeq(v, a, b)) : SubSeq(v, a, b)[i] = SubSeq(w, a, b)[i]
  <2>. SUFFICES ASSUME NEW i \in 1..Len(SubSeq(v, a, b))
                PROVE  SubSeq(v, a, b)[i] = SubSeq(w, a, b)[i]
    OBVIOUS
  <2>1. i \in 1..(b - a + 1) /\ a + i - 1 \in 1..Len(w)  BY <1>1, <1>3
  <2>2. SubSeq(v, a, b)[i] = v[a + i - 1]  BY <1>1, <2>1, SubSeqIs
  <2>3. SubSeq(w, a, b)[i] = w[a + i - 1]  BY <2>1, SubSeqIs
  <2>. QED BY <2>1, <2>2, <2>3 DEF Extends
<1>. QED BY <1>2, <1>3, <1>4, SeqEqual

\* A piece of what is left of a stream is a piece of the stream
LEMMA SubSeqTwice ==
  ASSUME NEW w \in Seq(Symbols), NEW c \in Nat, NEW a \in Nat \ {0}, NEW b \in Nat,
         c + b <= Len(w)
  PROVE  SubSeq(SubSeq(w, c + 1, Len(w)), a, b) = SubSeq(w, c + a, c + b)
<1>. DEFINE v == SubSeq(w, c + 1, Len(w))
<1>1. Len(w) \in Nat /\ c + 1 \in Nat \ {0} /\ c + a \in Nat \ {0} /\ c + b \in Nat
  BY LenProperties
<1>2. /\ v \in Seq(Symbols) /\ Len(v) = IF c + 1 <= Len(w) THEN Len(w) - (c + 1) + 1 ELSE 0
      /\ \A i \in 1..(Len(w) - (c + 1) + 1) : v[i] = w[(c + 1) + i - 1]
  BY <1>1, SubSeqIs
<1>. HIDE DEF v
<1>3. b <= Len(v)
  BY <1>1, <1>2
<1>4. /\ SubSeq(v, a, b) \in Seq(Symbols) /\ Len(SubSeq(v, a, b)) = IF a <= b THEN b - a + 1 ELSE 0
      /\ \A i \in 1..(b - a + 1) : SubSeq(v, a, b)[i] = v[a + i - 1]
  BY <1>2, <1>3, SubSeqIs
<1>5. /\ SubSeq(w, c + a, c + b) \in Seq(Symbols)
      /\ Len(SubSeq(w, c + a, c + b)) = IF c + a <= c + b THEN (c + b) - (c + a) + 1 ELSE 0
      /\ \A i \in 1..((c + b) - (c + a) + 1) : SubSeq(w, c + a, c + b)[i] = w[(c + a) + i - 1]
  BY <1>1, SubSeqIs
<1>6. Len(SubSeq(v, a, b)) = Len(SubSeq(w, c + a, c + b))
  BY <1>4, <1>5
<1>7. \A i \in 1..Len(SubSeq(v, a, b)) : SubSeq(v, a, b)[i] = SubSeq(w, c + a, c + b)[i]
  <2>. SUFFICES ASSUME NEW i \in 1..Len(SubSeq(v, a, b))
                PROVE  SubSeq(v, a, b)[i] = SubSeq(w, c + a, c + b)[i]
    OBVIOUS
  <2>1. /\ i \in 1..(b - a + 1) /\ i \in 1..((c + b) - (c + a) + 1)
        /\ a + i - 1 \in 1..(Len(w) - (c + 1) + 1)
        /\ (c + 1) + (a + i - 1) - 1 = (c + a) + i - 1
    BY <1>1, <1>4
  <2>2. SubSeq(v, a, b)[i] = v[a + i - 1]  BY <1>4, <2>1
  <2>3. v[a + i - 1] = w[(c + 1) + (a + i - 1) - 1]  BY <1>2, <2>1
  <2>4. SubSeq(w, c + a, c + b)[i] = w[(c + a) + i - 1]  BY <1>5, <2>1
  <2>. QED BY <2>1, <2>2, <2>3, <2>4
<1>. QED BY <1>4, <1>5, <1>6, <1>7, SeqEqual DEF v

\* What has been received keeps its meaning: the digits,
LEMMA DigitsGrow ==
  \A w, v \in Seq(Symbols) : \A p, n \in Nat :
    Extends(v, w) /\ p + n <= Len(w) =>
      /\ Number(v, p, n) = Number(w, p, n)
      /\ AreDigits(v, p, n) <=> AreDigits(w, p, n)
      /\ HasLength(v, p, n) <=> HasLength(w, p, n)
<1>. SUFFICES ASSUME NEW w \in Seq(Symbols), NEW v \in Seq(Symbols), NEW p \in Nat, NEW n \in Nat,
                     Extends(v, w), p + n <= Len(w)
              PROVE  /\ Number(v, p, n) = Number(w, p, n)
                     /\ AreDigits(v, p, n) <=> AreDigits(w, p, n)
                     /\ HasLength(v, p, n) <=> HasLength(w, p, n)
  OBVIOUS
<1>1. \A i \in 1..n : v[p + i] = w[p + i]
  <2>1. \A i \in 1..n : p + i \in 1..Len(w)  BY LenProperties
  <2>. QED BY <2>1 DEF Extends
<1>2. Number(v, p, n) = Number(w, p, n)
  <2>1. SameSymbols(v, p, w, p, n)  BY <1>1 DEF SameSymbols
  <2>. QED BY <2>1, NumberAgrees
<1>3. AreDigits(v, p, n) <=> AreDigits(w, p, n)
  BY <1>1 DEF AreDigits
<1>. QED BY <1>2, <1>3 DEF HasLength

\* the lengths,
LEMMA HeaderGrows ==
  \A w, v \in Seq(Symbols) : \A p, n \in Nat :
    Extends(v, w) /\ HasHeader(w, p, n) =>
      HasHeader(v, p, n) /\ DataEnd(v, p, n) = DataEnd(w, p, n)
<1>. SUFFICES ASSUME NEW w \in Seq(Symbols), NEW v \in Seq(Symbols), NEW p \in Nat, NEW n \in Nat,
                     Extends(v, w), HasHeader(w, p, n)
              PROVE  HasHeader(v, p, n) /\ DataEnd(v, p, n) = DataEnd(w, p, n)
  OBVIOUS
<1>1. n > 0 /\ p + n < Len(w) /\ w[p + n + 1] = ":" /\ HasLength(w, p, n)
  BY DEF HasHeader
<1>2. Len(w) \in Nat /\ Len(v) \in Nat /\ Len(w) <= Len(v) /\ p + n + 1 \in 1..Len(w)
  BY <1>1, LenProperties DEF Extends
<1>3. v[p + n + 1] = ":"
  BY <1>1, <1>2 DEF Extends
<1>4. Number(v, p, n) = Number(w, p, n) /\ HasLength(v, p, n)
  BY <1>1, <1>2, DigitsGrow
<1>. QED BY <1>1, <1>2, <1>3, <1>4 DEF HasHeader, DataEnd

LEMMA HeaderType ==
  \A w \in Seq(Symbols) : \A p, n \in Nat :
    HasHeader(w, p, n) =>
      /\ Number(w, p, n) \in Nat /\ DataEnd(w, p, n) \in Nat /\ n \in DOMAIN w
      /\ p + n + 1 <= DataEnd(w, p, n)
<1>. SUFFICES ASSUME NEW w \in Seq(Symbols), NEW p \in Nat, NEW n \in Nat, HasHeader(w, p, n)
              PROVE  /\ Number(w, p, n) \in Nat /\ DataEnd(w, p, n) \in Nat /\ n \in DOMAIN w
                     /\ p + n + 1 <= DataEnd(w, p, n)
  OBVIOUS
<1>1. n > 0 /\ p + n < Len(w) /\ AreDigits(w, p, n)
  BY DEF HasHeader, HasLength
<1>2. Number(w, p, n) \in Nat
  BY <1>1, NumberType
<1>3. Len(w) \in Nat /\ DOMAIN w = 1..Len(w)
  BY LenProperties
<1>. QED BY <1>1, <1>2, <1>3 DEF DataEnd

\* the strings,
LEMMA FollowsGrows ==
  \A w, v \in Seq(Symbols) : \A p \in Nat : \A q, s :
    Extends(v, w) /\ Follows(w, p, q, s) => Follows(v, p, q, s)
<1>. SUFFICES ASSUME NEW w \in Seq(Symbols), NEW v \in Seq(Symbols), NEW p \in Nat, NEW q, NEW s,
                     Extends(v, w), Follows(w, p, q, s)
              PROVE  Follows(v, p, q, s)
  OBVIOUS
<1>1. PICK n \in DOMAIN w :
        /\ HasNetstring(w, p, n)
        /\ q = DataEnd(w, p, n) + 1 /\ s = SubSeq(w, p + n + 2, DataEnd(w, p, n))
  BY DEF Follows
<1>. DEFINE e == DataEnd(w, p, n)
<1>2. n \in Nat
  BY LenProperties
<1>3. HasHeader(w, p, n) /\ e < Len(w) /\ w[e + 1] = ","
  BY <1>1 DEF HasNetstring
<1>4. HasHeader(v, p, n) /\ DataEnd(v, p, n) = e /\ e \in Nat /\ n \in DOMAIN v
  BY <1>2, <1>3, HeaderGrows, HeaderType
<1>5. e < Len(v) /\ v[e + 1] = ","
  <2>1. Len(w) \in Nat /\ Len(v) \in Nat /\ Len(w) <= Len(v)  BY LenProperties DEF Extends
  <2>2. e \in Nat /\ e < Len(w)  BY <1>3, <1>4
  <2>. HIDE DEF e
  <2>3. e + 1 \in 1..Len(w) /\ e < Len(v)  BY <2>1, <2>2
  <2>4. v[e + 1] = w[e + 1]  BY <2>3 DEF Extends
  <2>. QED BY <1>3, <2>3, <2>4
<1>6. SubSeq(v, p + n + 2, e) = SubSeq(w, p + n + 2, e)
  <2>1. p + n + 2 \in Nat \ {0}  BY <1>2
  <2>2. e \in Nat /\ e < Len(w) /\ Len(w) \in Nat  BY <1>3, <1>4, LenProperties
  <2>. HIDE DEF e
  <2>3. p + n + 2 \in Nat \ {0} /\ e <= Len(w)  BY <2>1, <2>2
  <2>. QED BY <1>4, <2>3, SubSeqGrows
<1>7. HasNetstring(v, p, n)
  BY <1>4, <1>5 DEF HasNetstring
<1>. QED BY <1>1, <1>4, <1>6, <1>7 DEF Follows

\* and what they are cut into
LEMMA ParsedGrows ==
  ASSUME NEW w \in Seq(Symbols), NEW v \in Seq(Symbols), Extends(v, w),
         NEW strings \in Seq(Seq(Symbols)), NEW cut, Parsed(w, strings, cut)
  PROVE  Parsed(v, strings, cut)
<1>1. /\ cut \in [0..Len(strings) -> 0..Len(w)] /\ cut[0] = 0
      /\ \A i \in 1..Len(strings) : Follows(w, cut[i - 1], cut[i], strings[i])
  BY DEF Parsed
<1>2. cut \in [0..Len(strings) -> 0..Len(v)]
  <2>1. 0..Len(w) \subseteq 0..Len(v)  BY LenProperties DEF Extends
  <2>. QED BY <1>1, <2>1
<1>3. ASSUME NEW i \in 1..Len(strings)
      PROVE  Follows(v, cut[i - 1], cut[i], strings[i])
  <2>1. i - 1 \in 0..Len(strings)  BY LenProperties
  <2>2. cut[i - 1] \in Nat  BY <2>1, ParsedType
  <2>. QED BY <1>1, <2>2, FollowsGrows
<1>. QED BY <1>1, <1>2, <1>3 DEF Parsed

-----------------------------------------------------------------------------
(* A stream that is refused *)

\* Nothing that follows position p is a netstring or can be continued to one
Refused(w, p) == ~ MayContinue(w, p) /\ \A n \in DOMAIN w : ~ HasNetstring(w, p, n)

\* The length is over the limit before its colon has come
LEMMA RefusedTooLong ==
  ASSUME NEW w \in Seq(Symbols), NEW p \in Nat, NEW k \in Nat, p + k <= Len(w),
         AreDigits(w, p, k), Number(w, p, k) > MaxLen
  PROVE  Refused(w, p)
<1>1. Len(w) \in Nat /\ MaxLen \in Nat
  BY LenProperties, BoundsAssumption
<1>2. ASSUME NEW n \in Nat, k <= n, HasLength(w, p, n)
      PROVE  FALSE
  <2>1. Number(w, p, k) \in Nat /\ Number(w, p, n) \in Nat /\ Number(w, p, k) <= Number(w, p, n)
    BY <1>2, NumberType DEF HasLength
  <2>. QED BY <1>1, <1>2, <2>1 DEF HasLength
<1>3. ASSUME NEW n \in Nat, HasHeader(w, p, n)
      PROVE  FALSE
  <2>1. CASE n < k
    <3>1. n + 1 \in 1..k /\ p + (n + 1) = p + n + 1  BY <2>1
    <3>2. w[p + n + 1] \in Digits  BY <3>1 DEF AreDigits
    <3>. QED BY <1>3, <3>2, NotDigits DEF HasHeader
  <2>2. CASE k <= n
    BY <1>2, <1>3, <2>2 DEF HasHeader
  <2>. QED BY <2>1, <2>2
<1>4. \A n \in DOMAIN w : ~ HasHeader(w, p, n)
  <2>1. \A n \in DOMAIN w : n \in Nat  BY LenProperties
  <2>. QED BY <1>3, <2>1
<1>5. ~ HasLength(w, p, Len(w) - p)
  BY <1>1, <1>2
<1>. QED BY <1>4, <1>5 DEF Refused, MayContinue, HasNetstring

\* The digits end with something other than a colon, or there are none
LEMMA RefusedBadLength ==
  ASSUME NEW w \in Seq(Symbols), NEW p \in Nat, NEW k \in Nat, p + k < Len(w),
         AreDigits(w, p, k), w[p + k + 1] \notin Digits, w[p + k + 1] # ":" \/ k = 0
  PROVE  Refused(w, p)
<1>1. Len(w) \in Nat
  BY LenProperties
<1>2. ASSUME NEW n \in Nat, k < n, AreDigits(w, p, n)
      PROVE  FALSE
  <2>1. k + 1 \in 1..n /\ p + (k + 1) = p + k + 1  BY <1>2
  <2>. QED BY <1>2, <2>1 DEF AreDigits
<1>3. ASSUME NEW n \in Nat, HasHeader(w, p, n)
      PROVE  FALSE
  <2>1. n > 0 /\ w[p + n + 1] = ":" /\ AreDigits(w, p, n)  BY <1>3 DEF HasHeader, HasLength
  <2>2. CASE n < k
    <3>1. n + 1 \in 1..k /\ p + (n + 1) = p + n + 1  BY <2>2
    <3>2. w[p + n + 1] \in Digits  BY <3>1 DEF AreDigits
    <3>. QED BY <2>1, <3>2, NotDigits
  <2>3. CASE n = k
    BY <2>1, <2>3
  <2>4. CASE k < n
    BY <1>2, <2>1, <2>4
  <2>. QED BY <2>2, <2>3, <2>4
<1>4. \A n \in DOMAIN w : ~ HasHeader(w, p, n)
  <2>1. \A n \in DOMAIN w : n \in Nat  BY LenProperties
  <2>. QED BY <1>3, <2>1
<1>5. ~ HasLength(w, p, Len(w) - p)
  <2>1. Len(w) - p \in Nat /\ k < Len(w) - p  BY <1>1
  <2>. QED BY <1>2, <2>1 DEF HasLength
<1>. QED BY <1>4, <1>5 DEF Refused, MayContinue, HasNetstring

\* The data is not followed by a comma
LEMMA RefusedBadTerminator ==
  ASSUME NEW w \in Seq(Symbols), NEW p \in Nat, NEW k \in Nat, HasHeader(w, p, k),
         DataEnd(w, p, k) < Len(w), ~ HasNetstring(w, p, k)
  PROVE  Refused(w, p)
<1>1. Len(w) \in Nat
  BY LenProperties
<1>2. \A n \in DOMAIN w : n \in Nat
  BY LenProperties
<1>3. \A n \in DOMAIN w : HasHeader(w, p, n) => n = k
  BY <1>2, OneHeader
<1>4. \A n \in DOMAIN w : ~ HasNetstring(w, p, n)
  <2>1. \A n \in DOMAIN w : HasNetstring(w, p, n) => HasHeader(w, p, n)  BY DEF HasNetstring
  <2>. QED BY <1>3, <2>1
<1>5. ~ HasLength(w, p, Len(w) - p)
  <2>. SUFFICES ASSUME AreDigits(w, p, Len(w) - p) PROVE FALSE
    BY DEF HasLength
  <2>1. p + k < Len(w) /\ w[p + k + 1] = ":"  BY DEF HasHeader
  <2>2. k + 1 \in 1..(Len(w) - p) /\ p + (k + 1) = p + k + 1  BY <1>1, <2>1
  <2>3. w[p + k + 1] \in Digits  BY <2>2 DEF AreDigits
  <2>. QED BY <2>1, <2>3, NotDigits
<1>6. \A n \in DOMAIN w : ~ (HasHeader(w, p, n) /\ Len(w) <= DataEnd(w, p, n))
  <2>1. DataEnd(w, p, k) \in Nat  BY HeaderType
  <2>2. ~ (Len(w) <= DataEnd(w, p, k))  BY <1>1, <2>1
  <2>. QED BY <1>3, <2>2
<1>. QED BY <1>4, <1>5, <1>6 DEF Refused, MayContinue

-----------------------------------------------------------------------------
(* The type invariant *)

LEMMA LongerType ==
  ASSUME NEW s \in Digits, TypeOK
  PROVE  Longer(s) \in Nat
<1>1. Value[s] \in Nat  BY DigitValues
<1>2. len # None => len \in Nat  BY BoundsAssumption DEF TypeOK
<1>. QED BY <1>1, <1>2 DEF Longer

LEMMA ChunkType ==
  ASSUME NEW n \in 1..MaxChunk, NEW chunk \in [1..n -> Symbols]
  PROVE  chunk \in Seq(Symbols) /\ Len(chunk) = n
<1>1. n \in Nat  BY BoundsAssumption
<1>2. chunk \in Seq(Symbols)  BY <1>1, SeqDef
<1>. QED BY <1>1, <1>2, LenProperties

LEMMA TypeInit == Init => TypeOK
<1>. SUFFICES ASSUME Init PROVE TypeOK
  OBVIOUS
<1>1. <<>> \in Seq(Symbols) /\ <<>> \in Seq(Seq(Symbols))  BY EmptySeq
<1>. QED BY <1>1 DEF Init, TypeOK

LEMMA TypeStep == TypeOK /\ [Next]_vars => TypeOK'
<1>. SUFFICES ASSUME TypeOK, [Next]_vars PROVE TypeOK'
  OBVIOUS
<1>. USE DEF TypeOK
<1>1. ASSUME NEW n \in 1..MaxChunk, NEW chunk \in [1..n -> Symbols], Feed(chunk)
      PROVE  TypeOK'
  <2>1. chunk \in Seq(Symbols)  BY ChunkType
  <2>2. fed \o chunk \in Seq(Symbols)  BY <2>1, ConcatProperties
  <2>. QED BY <1>1, <2>1, <2>2 DEF Feed
<1>2. ASSUME Read
      PROVE  TypeOK'
  <2>1. Head(incoming) \in Symbols /\ Tail(incoming) \in Seq(Symbols)
    BY <1>2, HeadTailProperties DEF Read
  <2>2. CASE ReadDigit
    <3>1. Longer(Head(incoming)) \in Nat  BY <2>2, LongerType DEF ReadDigit
    <3>2. MaxLen \in Nat /\ None \notin Nat  BY BoundsAssumption, NoneAssumption
    <3>3. len' \in 0..MaxLen \cup {None}  BY <2>2, <3>1, <3>2 DEF ReadDigit
    <3>. QED BY <1>2, <2>1, <2>2, <3>3 DEF Read, ReadDigit
  <2>3. CASE ReadColon
    BY <1>2, <2>1, <2>3 DEF Read, ReadColon
  <2>4. CASE ReadData
    <3>. DEFINE n == IF len <= Len(incoming) THEN len ELSE Len(incoming)
    <3>1. len \in 0..MaxLen /\ Len(incoming) \in Nat /\ MaxLen \in Nat
      BY <2>4, BoundsAssumption, LenProperties DEF ReadData
    <3>2. n \in Nat /\ n <= Len(incoming) /\ len - n \in 0..MaxLen
      BY <3>1
    <3>. HIDE DEF n
    <3>3. SubSeq(incoming, 1, n) \in Seq(Symbols)  BY <3>2, SubSeqIs
    <3>4. SubSeq(incoming, n + 1, Len(incoming)) \in Seq(Symbols)  BY <3>1, <3>2, SubSeqIs
    <3>5. parts \o SubSeq(incoming, 1, n) \in Seq(Symbols)  BY <3>3, ConcatProperties
    <3>6. /\ parts' = parts \o SubSeq(incoming, 1, n)
          /\ incoming' = SubSeq(incoming, n + 1, Len(incoming))
          /\ len' = len - n
      BY <2>4 DEF ReadData, n
    <3>7. len' # None  BY <3>2, <3>6, NoneAssumption
    <3>. QED BY <1>2, <2>4, <3>2, <3>4, <3>5, <3>6, <3>7 DEF Read, ReadData
  <2>5. CASE ReadTerminator
    <3>1. Append(requests, parts) \in Seq(Seq(Symbols))  BY AppendProperties
    <3>2. <<>> \in Seq(Symbols)  BY EmptySeq
    <3>3. CASE Head(incoming) = ","
      BY <1>2, <2>1, <2>5, <3>1, <3>2, <3>3 DEF Read, ReadTerminator
    <3>4. CASE Head(incoming) # ","
      BY <1>2, <2>1, <2>5, <3>4 DEF Read, ReadTerminator
    <3>. QED BY <3>3, <3>4
  <2>. QED BY <1>2, <2>2, <2>3, <2>4, <2>5 DEF Read
<1>3. CASE UNCHANGED vars
  BY <1>3 DEF vars
<1>. QED BY <1>1, <1>2, <1>3 DEF Next

\* The parser's buffers hold bytes, a length it goes on with is within the limit
\* of the StreamReader, and once the colon has been read there is a length.
THEOREM TypeCorrect == Spec => []TypeOK
BY TypeInit, TypeStep, PTL DEF Spec

-----------------------------------------------------------------------------
(* The inductive invariant *)

\* The position in the stream that the fetcher has come to
Consumed == Len(fed) - Len(incoming)

\* Since position p, digits of a length have been read
InLength(p) ==
  /\ p < Consumed /\ HasLength(fed, p, Consumed - p)
  /\ len = Number(fed, p, Consumed - p)

\* The string that begins after position p is being read: its data up to here
InData(p) ==
  \E n \in DOMAIN fed :
    /\ HasHeader(fed, p, n) /\ p + n + 1 <= Consumed
    /\ Consumed + len = DataEnd(fed, p, n) /\ parts = SubSeq(fed, p + n + 2, Consumed)

\* The state of the fetcher is what the stream holds between position p and here
Current(p) ==
  IF lenKnown THEN InData(p)
  ELSE parts = <<>> /\ IF len = None THEN p = Consumed ELSE InLength(p)

Buffered == Len(incoming) <= Len(fed) /\ incoming = SubSeq(fed, Consumed + 1, Len(fed))

\* The requests are the strings at the beginning of the stream, and the fetcher
\* is inside what follows them, or that can be continued to no netstring
Tracks(cut) ==
  /\ Parsed(fed, requests, cut)
  /\ IF error = "none" THEN Current(cut[Len(requests)]) ELSE Refused(fed, cut[Len(requests)])

Inv == TypeOK /\ Buffered /\ \E cut : Tracks(cut)

LEMMA InvInit == Init => Inv
<1>. SUFFICES ASSUME Init PROVE Inv
  OBVIOUS
<1>. USE DEF Init
<1>1. TypeOK
  BY TypeInit
<1>2. Consumed = 0
  BY EmptySeq DEF Consumed
<1>3. Buffered
  <2>1. SubSeq(fed, 1, 0) = <<>>  BY SubSeqEmpty
  <2>. QED BY <1>2, <2>1, EmptySeq DEF Buffered
<1>. DEFINE cut == [i \in 0..0 |-> 0]
<1>4. Len(requests) = 0 /\ Len(fed) = 0
  BY EmptySeq
<1>5. Parsed(fed, requests, cut)
  BY <1>4 DEF Parsed
<1>6. Current(cut[Len(requests)])
  BY <1>2, <1>4 DEF Current
<1>7. Tracks(cut)
  BY <1>5, <1>6 DEF Tracks
<1>. QED BY <1>1, <1>3, <1>7 DEF Inv

\* Where the fetcher is, by the type invariant and Buffered
LEMMA Position ==
  ASSUME TypeOK, Buffered
  PROVE  /\ fed \in Seq(Symbols) /\ Len(fed) \in Nat /\ Len(incoming) \in Nat
         /\ Consumed \in Nat /\ Consumed <= Len(fed) /\ Len(incoming) = Len(fed) - Consumed
         /\ incoming = <<>> <=> Consumed = Len(fed)
<1>1. fed \in Seq(Symbols) /\ incoming \in Seq(Symbols)
  BY DEF TypeOK
<1>2. Len(fed) \in Nat /\ Len(incoming) \in Nat
  BY <1>1, LenProperties
<1>3. incoming = <<>> <=> Len(incoming) = 0
  BY <1>1, EmptySeq
<1>. QED BY <1>1, <1>2, <1>3 DEF Buffered, Consumed

\* The next symbol, and what is left when it has been read
LEMMA NextSymbol ==
  ASSUME TypeOK, Buffered, incoming # <<>>
  PROVE  /\ Consumed < Len(fed) /\ Head(incoming) = fed[Consumed + 1]
         /\ Tail(incoming) = SubSeq(fed, Consumed + 2, Len(fed))
         /\ Len(Tail(incoming)) = Len(incoming) - 1
<1>1. Consumed < Len(fed)
  BY Position
<1>2. Consumed + 1 \in 1..Len(fed) /\ Len(fed) \in (Consumed + 1)..Len(fed)
  BY <1>1, Position
<1>3. incoming = SubSeq(fed, Consumed + 1, Len(fed)) /\ fed \in Seq(Symbols)
  BY Position DEF Buffered
<1>4. /\ Head(incoming) = fed[Consumed + 1]
      /\ Tail(incoming) = SubSeq(fed, (Consumed + 1) + 1, Len(fed))
  BY <1>2, <1>3, HeadTailOfSubSeq
<1>5. (Consumed + 1) + 1 = Consumed + 2
  BY Position
<1>6. Len(Tail(incoming)) = Len(incoming) - 1
  BY HeadTailProperties DEF TypeOK
<1>. QED BY <1>1, <1>4, <1>5, <1>6

\* One symbol has been read
LEMMA OneRead ==
  ASSUME TypeOK, Buffered, incoming # <<>>, incoming' = Tail(incoming), fed' = fed
  PROVE  Consumed' = Consumed + 1 /\ Buffered'
<1>1. Consumed' = Consumed + 1
  BY NextSymbol, Position DEF Consumed
<1>2. Len(incoming') <= Len(fed')
  BY NextSymbol, Position
<1>3. incoming' = SubSeq(fed', Consumed' + 1, Len(fed'))
  <2>1. Consumed' + 1 = Consumed + 2  BY <1>1, Position
  <2>. QED BY <2>1, NextSymbol
<1>. QED BY <1>1, <1>2, <1>3 DEF Buffered

LEMMA CutType ==
  ASSUME TypeOK, NEW cut, Parsed(fed, requests, cut)
  PROVE  cut[Len(requests)] \in Nat /\ cut[Len(requests)] <= Len(fed)
<1>1. fed \in Seq(Symbols) /\ requests \in Seq(Seq(Symbols))
  BY DEF TypeOK
<1>2. Len(requests) \in 0..Len(requests)
  BY <1>1, ParsedType
<1>. QED BY <1>1, <1>2, ParsedType

\* While a length is read, its digits are those since position p
LEMMA LengthSoFar ==
  ASSUME TypeOK, Buffered, NEW p \in Nat, Current(p), ~ lenKnown
  PROVE  /\ p <= Consumed /\ AreDigits(fed, p, Consumed - p) /\ parts = <<>>
         /\ Number(fed, p, Consumed - p) = IF len = None THEN 0 ELSE len
         /\ len = None <=> p = Consumed
<1>1. parts = <<>> /\ IF len = None THEN p = Consumed ELSE InLength(p)
  BY DEF Current
<1>2. CASE len = None
  <2>1. p = Consumed /\ Consumed - p = 0  BY <1>1, <1>2, Position
  <2>2. AreDigits(fed, p, 0)  BY DEF AreDigits
  <2>. QED BY <1>1, <1>2, <2>1, <2>2, NumberZero, Position
<1>3. CASE len # None
  <2>1. InLength(p)  BY <1>1, <1>3
  <2>. QED BY <1>1, <1>3, <2>1, Position DEF InLength, HasLength
<1>. QED BY <1>2, <1>3

-----------------------------------------------------------------------------
(* Every step preserves it *)

\* The stream grows behind what is read
LEMMA FeedTracks ==
  ASSUME Inv, NEW n \in 1..MaxChunk, NEW chunk \in [1..n -> Symbols], Feed(chunk)
  PROVE  Buffered' /\ \E cut : Tracks(cut)'
<1>1. TypeOK /\ Buffered
  BY DEF Inv
<1>2. PICK cut : Tracks(cut)
  BY DEF Inv
<1>3. chunk \in Seq(Symbols) /\ Len(chunk) = n /\ n \in Nat
  BY ChunkType
<1>4. /\ incoming = <<>> /\ incoming' = chunk /\ fed' = fed \o chunk /\ error = "none"
      /\ UNCHANGED <<len, lenKnown, parts, requests, error>>
  BY DEF Feed
<1>5. fed \in Seq(Symbols) /\ Len(fed) \in Nat /\ Consumed = Len(fed)
  BY <1>1, <1>4, Position
<1>6. /\ fed' \in Seq(Symbols) /\ Len(fed') = Len(fed) + n
      /\ \A i \in 1..Len(fed) + n : fed'[i] = IF i <= Len(fed) THEN fed[i] ELSE chunk[i - Len(fed)]
  BY <1>3, <1>4, <1>5, ConcatProperties
<1>7. Extends(fed', fed)
  BY <1>3, <1>5, <1>6 DEF Extends
<1>8. Consumed' = Consumed
  BY <1>3, <1>4, <1>5, <1>6 DEF Consumed
<1>9. Buffered'
  <2>1. Len(incoming') <= Len(fed')  BY <1>3, <1>4, <1>5, <1>6
  <2>2. SubSeq(fed', Len(fed) + 1, Len(fed) + n) \in Seq(Symbols)
        /\ Len(SubSeq(fed', Len(fed) + 1, Len(fed) + n)) = n
        /\ \A i \in 1..n : SubSeq(fed', Len(fed) + 1, Len(fed) + n)[i] = fed'[Len(fed) + i]
    <3>1. /\ Len(fed) + 1 \in Nat \ {0} /\ Len(fed) + n \in Nat /\ Len(fed) + n <= Len(fed')
          /\ (Len(fed) + n) - (Len(fed) + 1) + 1 = n /\ Len(fed) + 1 <= Len(fed) + n
      BY <1>3, <1>5, <1>6
    <3>2. /\ SubSeq(fed', Len(fed) + 1, Len(fed) + n) \in Seq(Symbols)
          /\ Len(SubSeq(fed', Len(fed) + 1, Len(fed) + n)) = n
          /\ \A i \in 1..n : SubSeq(fed', Len(fed) + 1, Len(fed) + n)[i] = fed'[(Len(fed) + 1) + i - 1]
      BY <1>6, <3>1, SubSeqIs
    <3>3. \A i \in 1..n : (Len(fed) + 1) + i - 1 = Len(fed) + i  BY <1>5
    <3>. QED BY <3>2, <3>3
  <2>3. \A i \in 1..n : fed'[Len(fed) + i] = chunk[i]
    <3>. SUFFICES ASSUME NEW i \in 1..n PROVE fed'[Len(fed) + i] = chunk[i]
      OBVIOUS
    <3>1. PICK j \in 1..Len(fed) + n : j = Len(fed) + i /\ ~ (j <= Len(fed)) /\ j - Len(fed) = i
      BY <1>3, <1>5
    <3>. QED BY <1>6, <3>1
  <2>4. SubSeq(fed', Len(fed) + 1, Len(fed) + n) = chunk
    BY <1>3, <2>2, <2>3, SeqEqual
  <2>. QED BY <1>4, <1>5, <1>6, <1>8, <2>1, <2>4 DEF Buffered
<1>. DEFINE p == cut[Len(requests)]
<1>10. Parsed(fed, requests, cut) /\ Current(p)
  BY <1>2, <1>4 DEF Tracks
<1>11. p \in Nat
  BY <1>1, <1>10, CutType
<1>12. Parsed(fed', requests, cut)
  BY <1>1, <1>5, <1>6, <1>7, <1>10, ParsedGrows DEF TypeOK
<1>13. Current(p)'
  <2>1. CASE lenKnown
    <3>1. PICK k \in DOMAIN fed :
            /\ HasHeader(fed, p, k) /\ p + k + 1 <= Consumed
            /\ Consumed + len = DataEnd(fed, p, k) /\ parts = SubSeq(fed, p + k + 2, Consumed)
      BY <1>10, <2>1 DEF Current, InData
    <3>2. k \in Nat  BY <1>5, LenProperties
    <3>3. HasHeader(fed', p, k) /\ DataEnd(fed', p, k) = DataEnd(fed, p, k) /\ k \in DOMAIN fed'
      BY <1>5, <1>6, <1>7, <1>11, <3>1, <3>2, HeaderGrows, HeaderType
    <3>4. SubSeq(fed', p + k + 2, Consumed) = SubSeq(fed, p + k + 2, Consumed)
      <4>1. p + k + 2 \in Nat \ {0}  BY <1>11, <3>2
      <4>2. Consumed \in Nat /\ Consumed <= Len(fed)  BY <1>5
      <4>. QED BY <1>5, <1>6, <1>7, <4>1, <4>2, SubSeqGrows
    <3>. QED BY <1>4, <1>8, <2>1, <3>1, <3>3, <3>4 DEF Current, InData
  <2>2. CASE ~ lenKnown /\ len = None
    BY <1>4, <1>8, <1>10, <2>2 DEF Current
  <2>3. CASE ~ lenKnown /\ len # None
    <3>1. InLength(p) /\ parts = <<>>  BY <1>10, <2>3 DEF Current
    <3>2. Consumed - p \in Nat /\ p + (Consumed - p) <= Len(fed)
      BY <1>5, <1>11, <3>1 DEF InLength
    <3>3. /\ Number(fed', p, Consumed - p) = Number(fed, p, Consumed - p)
          /\ HasLength(fed', p, Consumed - p) <=> HasLength(fed, p, Consumed - p)
      BY <1>5, <1>6, <1>7, <1>11, <3>2, DigitsGrow
    <3>. QED BY <1>4, <1>8, <2>3, <3>1, <3>3 DEF Current, InLength
  <2>. QED BY <2>1, <2>2, <2>3
<1>14. Tracks(cut)'
  BY <1>4, <1>12, <1>13 DEF Tracks
<1>. QED BY <1>9, <1>14

\* A digit prolongs the length, or takes it over the limit
LEMMA ReadDigitTracks ==
  ASSUME TypeOK, Buffered, NEW cut, Tracks(cut), Read, ReadDigit
  PROVE  Buffered' /\ Tracks(cut)'
<1>. DEFINE p == cut[Len(requests)]
            k == Consumed - p
<1>1. /\ incoming # <<>> /\ error = "none" /\ ~ lenKnown /\ Head(incoming) \in Digits
      /\ incoming' = Tail(incoming) /\ fed' = fed /\ UNCHANGED <<lenKnown, parts, requests>>
  BY DEF Read, ReadDigit
<1>2. Parsed(fed, requests, cut) /\ Current(p)
  BY <1>1 DEF Tracks
<1>3. p \in Nat /\ fed \in Seq(Symbols)
  BY <1>2, CutType DEF TypeOK
<1>4. /\ p <= Consumed /\ AreDigits(fed, p, k) /\ parts = <<>>
      /\ Number(fed, p, k) = IF len = None THEN 0 ELSE len
  BY <1>1, <1>2, <1>3, LengthSoFar
<1>5. /\ Consumed \in Nat /\ Consumed < Len(fed) /\ Len(fed) \in Nat
      /\ Head(incoming) = fed[Consumed + 1]
  BY <1>1, NextSymbol, Position
<1>6. Consumed' = Consumed + 1 /\ Buffered'
  BY <1>1, OneRead
<1>7. k \in Nat /\ k + 1 \in Nat \ {0} /\ (k + 1) - 1 = k /\ p + (k + 1) = Consumed + 1
  BY <1>3, <1>4, <1>5
<1>8. AreDigits(fed, p, k + 1)
  <2>1. \A i \in 1..(k + 1) : i \in 1..k \/ i = k + 1  BY <1>7
  <2>. QED BY <1>1, <1>4, <1>5, <1>7, <2>1 DEF AreDigits
<1>9. Number(fed, p, k + 1) = Longer(Head(incoming)) /\ Longer(Head(incoming)) \in Nat
  <2>1. Number(fed, p, k + 1) = 10 * Number(fed, p, k) + Value[fed[p + (k + 1)]]
    BY <1>7, NumberRecursion
  <2>2. Value[Head(incoming)] \in Nat /\ (len # None => len \in Nat)
    BY <1>1, DigitValues, BoundsAssumption DEF TypeOK
  <2>3. Value[fed[p + (k + 1)]] = Value[Head(incoming)]
    BY <1>5, <1>7
  <2>. HIDE DEF k
  <2>4. CASE len = None
    BY <1>4, <2>1, <2>2, <2>3, <2>4 DEF Longer
  <2>5. CASE len # None
    BY <1>4, <2>1, <2>2, <2>3, <2>5 DEF Longer
  <2>. QED BY <2>4, <2>5
<1>10. CASE Longer(Head(incoming)) > MaxLen
  <2>1. error' = "TooLong"  BY <1>10 DEF ReadDigit
  <2>2. p + (k + 1) <= Len(fed)  BY <1>5, <1>7
  <2>3. Refused(fed, p)
    BY <1>3, <1>7, <1>8, <1>9, <1>10, <2>2, RefusedTooLong
  <2>. QED BY <1>1, <1>2, <1>6, <2>1, <2>3 DEF Tracks
<1>11. CASE ~ (Longer(Head(incoming)) > MaxLen)
  <2>1. len' = Longer(Head(incoming)) /\ error' = error  BY <1>11 DEF ReadDigit
  <2>2. Longer(Head(incoming)) <= MaxLen  BY <1>9, <1>11, BoundsAssumption
  <2>3. HasLength(fed, p, k + 1)  BY <1>8, <1>9, <2>2 DEF HasLength
  <2>4. Consumed' - p = k + 1 /\ p < Consumed'  BY <1>3, <1>4, <1>5, <1>6
  <2>5. len' # None  BY <1>9, <2>1, NoneAssumption
  <2>6. InLength(p)'
    BY <1>1, <1>9, <2>1, <2>3, <2>4 DEF InLength
  <2>7. Current(p)'
    BY <1>1, <1>4, <2>5, <2>6 DEF Current
  <2>. QED BY <1>1, <1>2, <1>6, <2>1, <2>7 DEF Tracks
<1>. QED BY <1>10, <1>11

\* The length ends, or there is none
LEMMA ReadColonTracks ==
  ASSUME TypeOK, Buffered, NEW cut, Tracks(cut), Read, ReadColon
  PROVE  Buffered' /\ Tracks(cut)'
<1>. DEFINE p == cut[Len(requests)]
            k == Consumed - p
<1>1. /\ incoming # <<>> /\ error = "none" /\ ~ lenKnown /\ Head(incoming) \notin Digits
      /\ incoming' = Tail(incoming) /\ fed' = fed /\ UNCHANGED <<len, parts, requests>>
  BY DEF Read, ReadColon
<1>2. Parsed(fed, requests, cut) /\ Current(p)
  BY <1>1 DEF Tracks
<1>3. p \in Nat /\ fed \in Seq(Symbols)
  BY <1>2, CutType DEF TypeOK
<1>4. /\ p <= Consumed /\ AreDigits(fed, p, k) /\ parts = <<>>
      /\ Number(fed, p, k) = IF len = None THEN 0 ELSE len
      /\ len = None <=> p = Consumed
  BY <1>1, <1>2, <1>3, LengthSoFar
<1>5. /\ Consumed \in Nat /\ Consumed < Len(fed) /\ Len(fed) \in Nat
      /\ Head(incoming) = fed[Consumed + 1]
  BY <1>1, NextSymbol, Position
<1>6. Consumed' = Consumed + 1 /\ Buffered'
  BY <1>1, OneRead
<1>7. k \in Nat /\ p + k = Consumed /\ p + k + 1 = Consumed + 1 /\ p + k < Len(fed)
  BY <1>3, <1>4, <1>5
<1>8. CASE Head(incoming) = ":" /\ len # None
  <2>1. lenKnown' = TRUE /\ error' = error  BY <1>8 DEF ReadColon
  <2>2. Number(fed, p, k) = len /\ len \in 0..MaxLen /\ len \in Nat /\ k > 0
    <3>1. Number(fed, p, k) = len  BY <1>4, <1>8
    <3>2. len \in 0..MaxLen /\ len \in Nat  BY <1>8, BoundsAssumption DEF TypeOK
    <3>3. k > 0  BY <1>3, <1>4, <1>5, <1>8
    <3>. QED BY <3>1, <3>2, <3>3
  <2>3. HasLength(fed, p, k)
    <3>1. len <= MaxLen  BY <2>2, BoundsAssumption
    <3>. QED BY <1>4, <2>2, <3>1 DEF HasLength
  <2>4. fed[p + k + 1] = ":"  BY <1>5, <1>7, <1>8
  <2>5. HasHeader(fed, p, k)  BY <1>7, <2>2, <2>3, <2>4 DEF HasHeader
  <2>6. Consumed' + len = DataEnd(fed, p, k) /\ p + k + 1 <= Consumed'
    BY <1>3, <1>6, <1>7, <2>2 DEF DataEnd
  <2>7. SubSeq(fed, p + k + 2, Consumed') = <<>>
    <3>1. p + k + 2 \in Int /\ Consumed' \in Int /\ Consumed' < p + k + 2
      BY <1>3, <1>5, <1>6, <1>7
    <3>. QED BY <3>1, SubSeqEmpty
  <2>8. k \in DOMAIN fed  BY <1>3, <1>7, <2>5, HeaderType
  <2>9. InData(p)'
    BY <1>1, <1>4, <2>5, <2>6, <2>7, <2>8 DEF InData
  <2>10. Current(p)'
    BY <2>1, <2>9 DEF Current
  <2>. QED BY <1>1, <1>2, <1>6, <2>1, <2>10 DEF Tracks
<1>9. CASE ~ (Head(incoming) = ":" /\ len # None)
  <2>1. error' = "BadLength" /\ lenKnown' = lenKnown  BY <1>9 DEF ReadColon
  <2>2. fed[p + k + 1] \notin Digits /\ (fed[p + k + 1] # ":" \/ k = 0)
    <3>1. fed[p + k + 1] = Head(incoming)  BY <1>5, <1>7
    <3>2. len = None => k = 0  BY <1>3, <1>4
    <3>. HIDE DEF k
    <3>. QED BY <1>1, <1>9, <3>1, <3>2
  <2>3. Refused(fed, p)
    BY <1>3, <1>4, <1>7, <2>2, RefusedBadLength
  <2>. QED BY <1>1, <1>2, <1>6, <2>1, <2>3 DEF Tracks
<1>. QED BY <1>8, <1>9

\* Some of the data has been read
LEMMA ReadDataTracks ==
  ASSUME TypeOK, Buffered, NEW cut, Tracks(cut), Read, ReadData
  PROVE  Buffered' /\ Tracks(cut)'
<1>. DEFINE p == cut[Len(requests)]
            n == IF len <= Len(incoming) THEN len ELSE Len(incoming)
<1>1. /\ incoming # <<>> /\ error = "none" /\ lenKnown /\ len > 0
      /\ fed' = fed /\ UNCHANGED <<lenKnown, requests, error>>
  BY DEF Read, ReadData
<1>2. /\ parts' = parts \o SubSeq(incoming, 1, n)
      /\ incoming' = SubSeq(incoming, n + 1, Len(incoming))
      /\ len' = len - n
  BY DEF ReadData
<1>3. Parsed(fed, requests, cut) /\ InData(p)
  BY <1>1 DEF Tracks, Current
<1>4. p \in Nat /\ fed \in Seq(Symbols) /\ incoming \in Seq(Symbols)
  BY <1>3, CutType DEF TypeOK
<1>5. PICK k \in DOMAIN fed :
        /\ HasHeader(fed, p, k) /\ p + k + 1 <= Consumed
        /\ Consumed + len = DataEnd(fed, p, k) /\ parts = SubSeq(fed, p + k + 2, Consumed)
  BY <1>3 DEF InData
<1>6. k \in Nat
  BY <1>4, LenProperties
<1>7. /\ Consumed \in Nat /\ Consumed < Len(fed) /\ Len(fed) \in Nat /\ Len(incoming) \in Nat
      /\ Len(incoming) = Len(fed) - Consumed /\ Len(incoming) > 0
      /\ incoming = SubSeq(fed, Consumed + 1, Len(fed))
  <2>1. /\ Consumed \in Nat /\ Consumed < Len(fed) /\ Len(fed) \in Nat /\ Len(incoming) \in Nat
        /\ Len(incoming) = Len(fed) - Consumed
    BY <1>1, NextSymbol, Position
  <2>2. incoming = SubSeq(fed, Consumed + 1, Len(fed))  BY DEF Buffered
  <2>. QED BY <2>1, <2>2
<1>8. len \in Nat /\ MaxLen \in Nat
  BY <1>1, BoundsAssumption DEF TypeOK
<1>9. n \in Nat /\ 0 < n /\ n <= Len(incoming) /\ n <= len
  BY <1>1, <1>7, <1>8
<1>. HIDE DEF n
<1>10. SubSeq(incoming, 1, n) = SubSeq(fed, Consumed + 1, Consumed + n)
  <2>1. 1 \in Nat \ {0} /\ Consumed + n <= Len(fed)  BY <1>7, <1>9
  <2>. QED BY <1>4, <1>7, <1>9, <2>1, SubSeqTwice
<1>11. incoming' = SubSeq(fed, Consumed + n + 1, Len(fed))
  <2>. DEFINE a == n + 1
              b == Len(incoming)
  <2>1. /\ a \in Nat \ {0} /\ b \in Nat /\ Consumed + b <= Len(fed)
        /\ Consumed + a = Consumed + n + 1 /\ Consumed + b = Len(fed)
    BY <1>7, <1>9
  <2>2. incoming' = SubSeq(SubSeq(fed, Consumed + 1, Len(fed)), a, b)
    BY <1>2, <1>7
  <2>. HIDE DEF a, b
  <2>3. SubSeq(SubSeq(fed, Consumed + 1, Len(fed)), a, b) = SubSeq(fed, Consumed + a, Consumed + b)
    BY <1>4, <1>7, <2>1, SubSeqTwice
  <2>. QED BY <2>1, <2>2, <2>3
<1>12. Len(incoming') = Len(fed) - (Consumed + n)
  <2>1. Consumed + n + 1 \in Nat \ {0} /\ Len(fed) \in Nat /\ Len(fed) <= Len(fed)
    BY <1>7, <1>9
  <2>2. Len(SubSeq(fed, Consumed + n + 1, Len(fed)))
          = IF Consumed + n + 1 <= Len(fed) THEN Len(fed) - (Consumed + n + 1) + 1 ELSE 0
    BY <1>4, <2>1, SubSeqIs
  <2>. QED BY <1>7, <1>9, <1>11, <2>2
<1>13. Consumed' = Consumed + n
  BY <1>1, <1>7, <1>9, <1>12 DEF Consumed
<1>14. Buffered'
  <2>1. Len(incoming') <= Len(fed')  BY <1>1, <1>7, <1>9, <1>12
  <2>. QED BY <1>1, <1>11, <1>13, <2>1 DEF Buffered
<1>15. parts' = SubSeq(fed, p + k + 2, Consumed')
  <2>1. /\ p + k + 2 \in 1..Len(fed) + 1 /\ Consumed \in (p + k + 2) - 1..Len(fed)
        /\ Consumed + n \in Consumed..Len(fed)
    BY <1>4, <1>5, <1>6, <1>7, <1>9
  <2>2. SubSeq(fed, p + k + 2, Consumed) \o SubSeq(fed, Consumed + 1, Consumed + n)
          = SubSeq(fed, p + k + 2, Consumed + n)
    BY <1>4, <2>1, ConcatAdjacentSubSeq
  <2>. QED BY <1>2, <1>5, <1>10, <1>13, <2>2
<1>16. p + k + 1 <= Consumed' /\ Consumed' + len' = DataEnd(fed, p, k)
  <2>1. p + k + 1 <= Consumed'  BY <1>4, <1>5, <1>6, <1>7, <1>9, <1>13
  <2>2. Consumed' + len' = Consumed + len  BY <1>2, <1>7, <1>8, <1>9, <1>13
  <2>. QED BY <1>5, <2>1, <2>2
<1>17. Current(p)'
  BY <1>1, <1>5, <1>15, <1>16 DEF Current, InData
<1>. QED BY <1>1, <1>3, <1>14, <1>17 DEF Tracks

\* The string ends, or its terminator is refused
LEMMA ReadTerminatorTracks ==
  ASSUME TypeOK, Buffered, NEW cut, Tracks(cut), Read, ReadTerminator
  PROVE  Buffered' /\ \E later : Tracks(later)'
<1>. DEFINE p == cut[Len(requests)]
<1>1. /\ incoming # <<>> /\ error = "none" /\ lenKnown /\ len = 0
      /\ incoming' = Tail(incoming) /\ fed' = fed
  BY DEF Read, ReadTerminator
<1>2. Parsed(fed, requests, cut) /\ InData(p)
  BY <1>1 DEF Tracks, Current
<1>3. p \in Nat /\ fed \in Seq(Symbols) /\ requests \in Seq(Seq(Symbols)) /\ parts \in Seq(Symbols)
  BY <1>2, CutType DEF TypeOK
<1>4. PICK k \in DOMAIN fed :
        /\ HasHeader(fed, p, k) /\ p + k + 1 <= Consumed
        /\ Consumed + len = DataEnd(fed, p, k) /\ parts = SubSeq(fed, p + k + 2, Consumed)
  BY <1>2 DEF InData
<1>5. k \in Nat
  BY <1>3, LenProperties
<1>6. /\ Consumed \in Nat /\ Consumed < Len(fed) /\ Len(fed) \in Nat
      /\ Head(incoming) = fed[Consumed + 1]
  BY <1>1, NextSymbol, Position
<1>7. Consumed' = Consumed + 1 /\ Buffered'
  BY <1>1, OneRead
<1>8. DataEnd(fed, p, k) = Consumed
  BY <1>1, <1>4, <1>6
<1>9. CASE Head(incoming) = ","
  <2>1. /\ requests' = Append(requests, parts) /\ parts' = <<>> /\ len' = None
        /\ lenKnown' = FALSE /\ error' = error
    BY <1>9 DEF ReadTerminator
  <2>2. HasNetstring(fed, p, k)
    BY <1>4, <1>6, <1>8, <1>9 DEF HasNetstring
  <2>3. Follows(fed, p, Consumed + 1, parts)
    BY <1>4, <1>8, <2>2 DEF Follows
  <2>. DEFINE N == Len(requests)
  <2>4. PICK later : later = [i \in 0..(N + 1) |-> IF i = N + 1 THEN Consumed + 1 ELSE cut[i]]
    OBVIOUS
  <2>5. N \in Nat /\ Len(requests') = N + 1
    BY <1>3, <2>1, AppendProperties, LenProperties
  <2>6. /\ \A i \in 1..N : requests'[i] = requests[i]
        /\ requests'[N + 1] = parts
    BY <1>3, <2>1, AppendProperties
  <2>7. /\ cut \in [0..N -> 0..Len(fed)] /\ cut[0] = 0
        /\ \A i \in 1..N : Follows(fed, cut[i - 1], cut[i], requests[i])
    BY <1>2 DEF Parsed
  <2>8. later \in [0..(N + 1) -> 0..Len(fed)] /\ later[0] = 0 /\ later[N + 1] = Consumed + 1
    <3>1. Consumed + 1 \in 0..Len(fed)  BY <1>6
    <3>2. \A i \in 0..(N + 1) : i = N + 1 \/ i \in 0..N  BY <2>5
    <3>3. 0 \in 0..(N + 1) /\ 0 # N + 1 /\ N + 1 \in 0..(N + 1)  BY <2>5
    <3>. QED BY <2>4, <2>7, <3>1, <3>2, <3>3
  <2>9. ASSUME NEW i \in 1..(N + 1)
        PROVE  Follows(fed, later[i - 1], later[i], requests'[i])
    <3>1. CASE i = N + 1
      <4>1. later[i] = Consumed + 1 /\ requests'[i] = parts  BY <2>6, <2>8, <3>1
      <4>2. later[i - 1] = p
        <5>1. i - 1 = N /\ N \in 0..(N + 1) /\ N # N + 1  BY <2>5, <3>1
        <5>. QED BY <2>4, <5>1
      <4>. QED BY <2>3, <4>1, <4>2
    <3>2. CASE i \in 1..N
      <4>1. i \in 0..(N + 1) /\ i # N + 1 /\ i - 1 \in 0..(N + 1) /\ i - 1 # N + 1
        BY <2>5, <3>2
      <4>2. later[i] = cut[i] /\ later[i - 1] = cut[i - 1]  BY <2>4, <4>1
      <4>. QED BY <2>6, <2>7, <3>2, <4>2
    <3>. QED BY <2>5, <3>1, <3>2
  <2>10. Parsed(fed', requests', later)
    <3>. HIDE DEF N
    <3>. QED BY <1>1, <2>5, <2>8, <2>9 DEF Parsed
  <2>11. later[Len(requests')] = Consumed'
    BY <1>7, <2>5, <2>8
  <2>12. Current(later[Len(requests)])'
    BY <2>1, <2>11 DEF Current
  <2>13. Tracks(later)'
    BY <1>1, <2>1, <2>10, <2>12 DEF Tracks
  <2>. QED BY <1>7, <2>13
<1>10. CASE Head(incoming) # ","
  <2>1. error' = "BadTerminator" /\ UNCHANGED <<requests, parts, len, lenKnown>>
    BY <1>10 DEF ReadTerminator
  <2>2. ~ HasNetstring(fed, p, k)
    BY <1>6, <1>8, <1>10 DEF HasNetstring
  <2>3. Refused(fed, p)
    BY <1>3, <1>4, <1>5, <1>6, <1>8, <2>2, RefusedBadTerminator
  <2>4. Tracks(cut)'
    BY <1>1, <1>2, <2>1, <2>3 DEF Tracks
  <2>. QED BY <1>7, <2>4
<1>. QED BY <1>9, <1>10

\* Inv is inductive
LEMMA InvStep == Inv /\ [Next]_vars => Inv'
<1>. SUFFICES ASSUME Inv, [Next]_vars PROVE Inv'
  OBVIOUS
<1>1. TypeOK /\ Buffered /\ TypeOK'
  BY TypeStep DEF Inv
<1>2. PICK cut : Tracks(cut)
  BY DEF Inv
<1>3. ASSUME NEW n \in 1..MaxChunk, NEW chunk \in [1..n -> Symbols], Feed(chunk)
      PROVE  Inv'
  BY <1>1, <1>3, FeedTracks DEF Inv
<1>4. CASE Read /\ ReadDigit
  BY <1>1, <1>2, <1>4, ReadDigitTracks DEF Inv
<1>5. CASE Read /\ ReadColon
  BY <1>1, <1>2, <1>5, ReadColonTracks DEF Inv
<1>6. CASE Read /\ ReadData
  BY <1>1, <1>2, <1>6, ReadDataTracks DEF Inv
<1>7. CASE Read /\ ReadTerminator
  BY <1>1, <1>2, <1>7, ReadTerminatorTracks DEF Inv
<1>8. CASE UNCHANGED vars
  <2>1. UNCHANGED <<incoming, len, lenKnown, parts, requests, error, fed>>
    BY <1>8 DEF vars
  <2>2. Consumed' = Consumed
    BY <2>1 DEF Consumed
  <2>3. Buffered'
    BY <1>1, <2>1, <2>2 DEF Buffered
  <2>4. Tracks(cut)'
    BY <1>2, <2>1, <2>2 DEF Tracks, Current, InLength, InData
  <2>. QED BY <1>1, <2>3, <2>4 DEF Inv
<1>. QED BY <1>3, <1>4, <1>5, <1>6, <1>7, <1>8 DEF Next, Read

LEMMA Invariance == Spec => []Inv
BY InvInit, InvStep, PTL DEF Spec

\* When the fetcher wants more to read, what it has made of the stream is what
\* the reference decoder makes of it.
LEMMA AgreesWithDecoded ==
  ASSUME Inv, WantRead
  PROVE  /\ requests = Decoded(fed).strings
         /\ (error = "none") = MayContinue(fed, Decoded(fed).at)
         /\ error = "none" => (len # None) = (Decoded(fed).at < Len(fed))
<1>1. TypeOK /\ Buffered
  BY DEF Inv
<1>2. PICK cut : Tracks(cut)
  BY DEF Inv
<1>. DEFINE p == cut[Len(requests)]
<1>3. Parsed(fed, requests, cut)
  BY <1>2 DEF Tracks
<1>4. /\ p \in Nat /\ p <= Len(fed) /\ fed \in Seq(Symbols) /\ requests \in Seq(Seq(Symbols))
      /\ Len(fed) \in Nat /\ Consumed \in Nat
  BY <1>1, <1>3, CutType, Position DEF TypeOK
<1>5. ASSUME \A n \in DOMAIN fed : ~ HasNetstring(fed, p, n)
      PROVE  Decoded(fed).strings = requests /\ Decoded(fed).at = p
  <2>1. Decoded(fed) = [at |-> p, strings |-> requests]
    BY <1>3, <1>4, <1>5, DecodedParsed
  <2>. QED BY <2>1
<1>6. CASE error # "none"
  <2>1. Refused(fed, p)
    BY <1>2, <1>6 DEF Tracks
  <2>2. MayContinue(fed, p) = FALSE
    BY <2>1 DEF Refused, MayContinue
  <2>3. Decoded(fed).strings = requests /\ Decoded(fed).at = p
    BY <1>5, <2>1 DEF Refused
  <2>. QED BY <1>6, <2>2, <2>3
<1>7. CASE error = "none"
  <2>1. Current(p)
    BY <1>2, <1>7 DEF Tracks
  <2>2. Consumed = Len(fed)
    BY <1>1, <1>7, Position DEF WantRead
  <2>3. \A n \in DOMAIN fed : n \in Nat
    BY <1>4, LenProperties
  <2>4. CASE lenKnown
    <3>1. PICK k \in DOMAIN fed :
            HasHeader(fed, p, k) /\ p + k + 1 <= Consumed /\ Consumed + len = DataEnd(fed, p, k)
      BY <2>1, <2>4 DEF Current, InData
    <3>2. len \in Nat /\ len # None
      BY <1>1, <2>4, BoundsAssumption DEF TypeOK
    <3>3. k \in Nat
      BY <2>3
    <3>4. Len(fed) <= DataEnd(fed, p, k) /\ p < Len(fed)
      BY <1>4, <2>2, <3>1, <3>2, <3>3
    <3>5. \A n \in DOMAIN fed : ~ HasNetstring(fed, p, n)
      <4>1. \A n \in DOMAIN fed : HasHeader(fed, p, n) => n = k
        BY <1>4, <2>3, <3>1, <3>3, OneHeader
      <4>2. DataEnd(fed, p, k) \in Nat
        BY <1>4, <3>1, <3>3, HeaderType
      <4>3. ~ (DataEnd(fed, p, k) < Len(fed))
        BY <1>4, <3>4, <4>2
      <4>. QED BY <4>1, <4>3 DEF HasNetstring
    <3>6. MayContinue(fed, p)
      BY <3>1, <3>4 DEF MayContinue
    <3>. QED BY <1>5, <1>7, <3>2, <3>4, <3>5, <3>6
  <2>5. CASE ~ lenKnown
    <3>1. /\ p <= Consumed /\ AreDigits(fed, p, Consumed - p)
          /\ Number(fed, p, Consumed - p) = IF len = None THEN 0 ELSE len
          /\ len = None <=> p = Consumed
      BY <1>1, <1>4, <2>1, <2>5, LengthSoFar
    <3>2. HasLength(fed, p, Len(fed) - p)
      <4>1. (IF len = None THEN 0 ELSE len) <= MaxLen
        <5>1. len # None => len \in 0..MaxLen  BY <1>1 DEF TypeOK
        <5>. QED BY <5>1, BoundsAssumption
      <4>. QED BY <2>2, <3>1, <4>1 DEF HasLength
    <3>3. \A n \in DOMAIN fed : ~ HasNetstring(fed, p, n)
      <4>. SUFFICES ASSUME NEW n \in DOMAIN fed, HasHeader(fed, p, n) PROVE FALSE
        BY DEF HasNetstring
      <4>1. p + n < Len(fed)  BY DEF HasHeader
      <4>2. n \in Nat /\ p \in Nat /\ Len(fed) \in Nat  BY <1>4, <2>3
      <4>. HIDE DEF p
      <4>3. n + 1 \in 1..(Len(fed) - p) /\ p + (n + 1) = p + n + 1  BY <4>1, <4>2
      <4>4. fed[p + n + 1] \in Digits  BY <2>2, <3>1, <4>3 DEF AreDigits
      <4>. QED BY <4>4, NotDigits DEF HasHeader
    <3>4. MayContinue(fed, p)
      BY <3>2 DEF MayContinue
    <3>5. (len # None) = (p < Len(fed))
      BY <1>4, <2>2, <3>1
    <3>. QED BY <1>5, <1>7, <3>3, <3>4, <3>5
  <2>. QED BY <2>4, <2>5
<1>. QED BY <1>6, <1>7

\* Whatever the stream and however it is cut: when read() wants more, the strings
\* completed are those of the reference decoder, and a ParseError has been raised
\* exactly if what follows them cannot be continued to a netstring.
THEOREM ChunksDoNotMatterHolds == Spec => []ChunksDoNotMatter
<1>1. Inv => ChunksDoNotMatter
  BY AgreesWithDecoded DEF ChunksDoNotMatter
<1>. QED BY <1>1, Invariance, PTL

\* Wherever a stream ends inside a netstring, the reader is pending(), and nowhere
\* else: decode() raises IncompleteNetstring exactly for what is incomplete.
THEOREM TruncationNoticedHolds == Spec => []TruncationNoticed
<1>1. Inv => TruncationNoticed
  BY AgreesWithDecoded DEF TruncationNoticed
<1>. QED BY <1>1, Invariance, PTL

=============================================================================
