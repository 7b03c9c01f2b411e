---------------------------- MODULE EncodingProofs ----------------------------
(***************************************************************************)
(* Proofs that what encode() writes is read back by the parser of          *)
(* Netstring, for any strings in any chunks.                               *)
(***************************************************************************)
EXTENDS NetstringProofs

-----------------------------------------------------------------------------
(* The decimal digits of a number *)

\* Every decimal digit has a symbol, as in the bytes encode() and isdigit() know
TenDigits == \A v \in 0..9 : \E s \in Digits : Value[s] = v

LEMMA DigitIs == TenDigits => \A v \in 0..9 : Digit(v) \in Digits /\ Value[Digit(v)] = v
BY DEF TenDigits, Digit

LEMMA DivMod ==
  \A n \in Nat : /\ n \div 10 \in Nat /\ n % 10 \in 0..9 /\ n = 10 * (n \div 10) + (n % 10)
                 /\ n >= 10 => n \div 10 < n /\ n \div 10 > 0
<1>. SUFFICES ASSUME NEW n \in Nat
              PROVE  /\ n \div 10 \in Nat /\ n % 10 \in 0..9 /\ n = 10 * (n \div 10) + (n % 10)
                     /\ n >= 10 => n \div 10 < n /\ n \div 10 > 0
  OBVIOUS
<1>1. n \div 10 \in Int  OBVIOUS
<1>2. n % 10 \in 0..9  OBVIOUS
<1>3. n = 10 * (n \div 10) + (n % 10)  OBVIOUS
<1>. DEFINE d == n \div 10
            r == n % 10
<1>. HIDE DEF d, r
<1>4. d \in Int /\ r \in 0..9 /\ n = 10 * d + r  BY <1>1, <1>2, <1>3 DEF d, r
<1>5. d \in Nat /\ (n >= 10 => d < n /\ d > 0)  BY <1>4
<1>. QED BY <1>4, <1>5 DEF d, r

\* f is the recursive function of Decimal
DecimalStep(f, i) == IF i < 10 THEN <<Digit(i)>> ELSE Append(f[i \div 10], Digit(i % 10))

IsDecimals(f, n) == f = [i \in 0..n |-> DecimalStep(f, i)]

LEMMA DecimalsExist == \A n \in Nat : \E f : IsDecimals(f, n)
<1>. DEFINE S == {n \in Nat : \E f : IsDecimals(f, n)}
<1>1. 0 \in S
  <2>1. IsDecimals([i \in 0..0 |-> <<Digit(0)>>], 0)
    BY DEF IsDecimals, DecimalStep
  <2>. QED BY <2>1
<1>2. ASSUME NEW n \in Nat, n \in S
      PROVE  n + 1 \in S
  <2>1. PICK f : IsDecimals(f, n)
    BY <1>2
  <2>. DEFINE g == [i \in 0..(n + 1) |-> IF i = n + 1 THEN DecimalStep(f, i) ELSE f[i]]
  <2>2. \A i \in 0..n : f[i] = DecimalStep(f, i)
    BY <2>1 DEF IsDecimals
  <2>3. ASSUME NEW i \in 0..(n + 1)
        PROVE  g[i] = DecimalStep(g, i)
    <3>1. i >= 10 => i \div 10 \in 0..n
      BY DivMod
    <3>2. i >= 10 => g[i \div 10] = f[i \div 10]
      BY <3>1
    <3>3. g[i] = DecimalStep(f, i)
      BY <2>2
    <3>4. DecimalStep(f, i) = DecimalStep(g, i)
      BY <3>2 DEF DecimalStep
    <3>. QED BY <3>3, <3>4
  <2>4. IsDecimals(g, n + 1)
    <3>. DEFINE h == [i \in 0..(n + 1) |-> DecimalStep(g, i)]
    <3>1. \A i \in 0..(n + 1) : g[i] = h[i]  BY <2>3
    <3>2. g = h  BY <3>1
    <3>. QED BY <3>2 DEF IsDecimals
  <2>. QED BY <2>4
<1>. HIDE DEF S
<1>3. Nat \subseteq S
  BY <1>1, <1>2, Induction
<1>. QED BY <1>3 DEF S

LEMMA DecimalsAgree ==
  \A f, g : \A n, m, k \in Nat :
    k <= n /\ k <= m /\ IsDecimals(f, n) /\ IsDecimals(g, m) => f[k] = g[k]
<1>. SUFFICES ASSUME NEW f, NEW g, NEW n \in Nat, NEW m \in Nat, NEW k \in Nat, k <= n, k <= m,
                     IsDecimals(f, n), IsDecimals(g, m)
              PROVE  f[k] = g[k]
  OBVIOUS
<1>1. (\A i \in 0..n : f[i] = DecimalStep(f, i)) /\ (\A i \in 0..m : g[i] = DecimalStep(g, i))
  BY DEF IsDecimals
<1>. DEFINE S == {j \in Nat : \A i \in 0..j : i <= k => f[i] = g[i]}
<1>2. 0 \in S
  <2>1. f[0] = DecimalStep(f, 0) /\ g[0] = DecimalStep(g, 0)  BY <1>1
  <2>2. DecimalStep(f, 0) = <<Digit(0)>> /\ DecimalStep(g, 0) = <<Digit(0)>>  BY DEF DecimalStep
  <2>3. \A i \in 0..0 : i = 0  OBVIOUS
  <2>. QED BY <2>1, <2>2, <2>3
<1>3. ASSUME NEW j \in Nat, j \in S
      PROVE  j + 1 \in S
  <2>. SUFFICES ASSUME j + 1 <= k PROVE f[j + 1] = g[j + 1]
    BY <1>3
  <2>. DEFINE i == j + 1
  <2>1. i >= 10 => i \div 10 \in 0..j /\ i \div 10 <= k
    BY DivMod
  <2>2. i >= 10 => f[i \div 10] = g[i \div 10]
    BY <1>3, <2>1
  <2>3. f[i] = DecimalStep(f, i) /\ g[i] = DecimalStep(g, i)
    BY <1>1
  <2>4. DecimalStep(f, i) = DecimalStep(g, i)
    BY <2>2 DEF DecimalStep
  <2>. QED BY <2>3, <2>4
<1>. HIDE DEF S
<1>4. k \in S
  BY <1>2, <1>3, Induction
<1>. QED BY <1>4 DEF S

\* Decimal is the last value of such a function
LEMMA DecimalIs == \A n \in Nat : \E f : IsDecimals(f, n) /\ Decimal(n) = f[n]
<1>. SUFFICES ASSUME NEW n \in Nat
              PROVE  \E f : IsDecimals(f, n) /\ Decimal(n) = f[n]
  OBVIOUS
<1>. DEFINE f == CHOOSE g : g = [i \in 0..n |-> IF i < 10 THEN <<Digit(i)>>
                                                ELSE Append(g[i \div 10], Digit(i % 10))]
<1>1. \E g : g = [i \in 0..n |-> IF i < 10 THEN <<Digit(i)>> ELSE Append(g[i \div 10], Digit(i % 10))]
  <2>1. PICK g : IsDecimals(g, n)  BY DecimalsExist
  <2>. QED BY Zenon, <2>1 DEF IsDecimals, DecimalStep
<1>2. IsDecimals(f, n)
  BY Zenon, <1>1 DEF IsDecimals, DecimalStep
<1>3. Decimal(n) = f[n]
  BY DEF Decimal
<1>. QED BY <1>2, <1>3

LEMMA DecimalRecursion ==
  \A n \in Nat :
    Decimal(n) = IF n < 10 THEN <<Digit(n)>> ELSE Append(Decimal(n \div 10), Digit(n % 10))
<1>. SUFFICES ASSUME NEW n \in Nat
              PROVE  Decimal(n) = IF n < 10 THEN <<Digit(n)>>
                                  ELSE Append(Decimal(n \div 10), Digit(n % 10))
  OBVIOUS
<1>1. PICK m \in Nat : m = n \div 10  BY DivMod
<1>2. m <= n  BY <1>1, DivMod
<1>3. PICK f : IsDecimals(f, n) /\ Decimal(n) = f[n]  BY DecimalIs
<1>4. PICK g : IsDecimals(g, m) /\ Decimal(m) = g[m]  BY DecimalIs
<1>5. f[m] = g[m]  BY <1>2, <1>3, <1>4, DecimalsAgree
<1>6. f[n] = DecimalStep(f, n)  BY <1>3 DEF IsDecimals
<1>. QED BY <1>1, <1>3, <1>4, <1>5, <1>6 DEF DecimalStep

\* The decimal digits of a number denote it
LEMMA DecimalDenotes ==
  TenDigits => \A n \in Nat :
    /\ Decimal(n) \in Seq(Digits) /\ Len(Decimal(n)) > 0
    /\ Number(Decimal(n), 0, Len(Decimal(n))) = n
<1>. SUFFICES ASSUME TenDigits
              PROVE  \A n \in Nat : /\ Decimal(n) \in Seq(Digits) /\ Len(Decimal(n)) > 0
                                    /\ Number(Decimal(n), 0, Len(Decimal(n))) = n
  OBVIOUS
<1>. DEFINE Denotes(n) == /\ Decimal(n) \in Seq(Digits) /\ Len(Decimal(n)) > 0
                          /\ Number(Decimal(n), 0, Len(Decimal(n))) = n
            S == {j \in Nat : \A n \in 0..j : Denotes(n)}
<1>1. ASSUME NEW n \in 0..9
      PROVE  Denotes(n)
  <2>1. Decimal(n) = <<Digit(n)>> /\ Digit(n) \in Digits /\ Value[Digit(n)] = n
    BY DecimalRecursion, DigitIs
  <2>2. PICK w : w = <<Digit(n)>>
    OBVIOUS
  <2>3. w \in Seq(Digits) /\ Len(w) = 1 /\ w[1] = Digit(n)
    BY <2>1, <2>2
  <2>4. Number(w, 0, 1) = 10 * Number(w, 0, 0) + Value[w[0 + 1]]
    BY NumberRecursion
  <2>5. Number(w, 0, 1) = n
    BY <2>1, <2>3, <2>4, NumberZero
  <2>. QED BY <2>1, <2>2, <2>3, <2>5
<1>2. ASSUME NEW n \in Nat, n >= 10, Denotes(n \div 10)
      PROVE  Denotes(n)
  <2>1. PICK m \in Nat, d \in 0..9 : m = n \div 10 /\ d = n % 10 /\ n = 10 * m + d
    BY DivMod
  <2>2. PICK v : v = Decimal(m)
    OBVIOUS
  <2>3. PICK w : w = Append(v, Digit(d))
    OBVIOUS
  <2>4. Decimal(n) = w
    BY <1>2, <2>1, <2>2, <2>3, DecimalRecursion
  <2>5. v \in Seq(Digits) /\ Len(v) \in Nat /\ Number(v, 0, Len(v)) = m
    BY <1>2, <2>1, <2>2, LenProperties
  <2>6. Digit(d) \in Digits /\ Value[Digit(d)] = d
    BY DigitIs
  <2>7. /\ w \in Seq(Digits) /\ Len(w) = Len(v) + 1 /\ w[Len(v) + 1] = Digit(d)
        /\ \A i \in 1..Len(v) : w[i] = v[i]
    BY <2>3, <2>5, <2>6, AppendProperties
  <2>8. PICK k \in Nat : k = Len(v)
    BY <2>5
  <2>9. Number(w, 0, k) = Number(v, 0, k)
    <3>1. SameSymbols(w, 0, v, 0, k)  BY <2>7, <2>8 DEF SameSymbols
    <3>. QED BY <3>1, NumberAgrees
  <2>10. Number(w, 0, k + 1) = 10 * Number(w, 0, k) + Value[w[0 + (k + 1)]]
    <3>1. k + 1 \in Nat \ {0} /\ (k + 1) - 1 = k  OBVIOUS
    <3>. QED BY <3>1, NumberRecursion
  <2>11. Value[w[0 + (k + 1)]] = d
    <3>1. 0 + (k + 1) = k + 1  OBVIOUS
    <3>. QED BY <2>6, <2>7, <2>8, <3>1
  <2>12. Number(w, 0, k + 1) = n
    BY <2>1, <2>5, <2>8, <2>9, <2>10, <2>11
  <2>. QED BY <2>4, <2>7, <2>8, <2>12
<1>. HIDE DEF Denotes
<1>3. 0 \in S
  BY <1>1
<1>4. ASSUME NEW j \in Nat, j \in S
      PROVE  j + 1 \in S
  <2>1. CASE j + 1 < 10
    <3>1. \A n \in 0..(j + 1) : n \in 0..9  BY <2>1
    <3>. QED BY <1>1, <3>1
  <2>2. CASE j + 1 >= 10
    <3>1. (j + 1) \div 10 \in 0..j  BY <2>2, DivMod
    <3>2. Denotes(j + 1)  BY <1>2, <1>4, <2>2, <3>1
    <3>3. \A n \in 0..(j + 1) : n \in 0..j \/ n = j + 1  OBVIOUS
    <3>. QED BY <1>4, <3>2, <3>3
  <2>. QED BY <2>1, <2>2
<1>. HIDE DEF S
<1>5. Nat \subseteq S
  BY <1>3, <1>4, Induction
<1>6. ASSUME NEW n \in Nat PROVE Denotes(n)
  BY <1>5 DEF S
<1>. QED BY <1>6 DEF Denotes

-----------------------------------------------------------------------------
(* One string *)

\* The StreamReader accepts the lengths
Readable(strings) == \A i \in DOMAIN strings : Len(strings[i]) <= MaxLen

LEMMA EncodedType ==
  TenDigits => \A s \in Seq(Symbols) : Encoded(s) \in Seq(Symbols)
<1>. SUFFICES ASSUME TenDigits, NEW s \in Seq(Symbols) PROVE Encoded(s) \in Seq(Symbols)
  OBVIOUS
<1>1. Decimal(Len(s)) \in Seq(Symbols)
  <2>1. Decimal(Len(s)) \in Seq(Digits)  BY DecimalDenotes, LenProperties
  <2>2. Digits \subseteq Symbols  BY SymbolsAssumption
  <2>. HIDE DEF Digits
  <2>. QED BY <2>1, <2>2
<1>2. \A c \in Symbols : <<c>> \in Seq(Symbols)
  OBVIOUS
<1>3. <<":">> \in Seq(Symbols) /\ <<",">> \in Seq(Symbols)
  BY Zenon, <1>2, SymbolsAssumption
<1>. QED BY <1>1, <1>3, ConcatProperties DEF Encoded

\* Where the parts of two sequences come to lie
LEMMA Joined ==
  \A a, b \in Seq(Symbols) :
    /\ a \o b \in Seq(Symbols) /\ Len(a \o b) = Len(a) + Len(b)
    /\ \A i \in 1..Len(a) : (a \o b)[i] = a[i]
    /\ \A i \in 1..Len(b) : (a \o b)[Len(a) + i] = b[i]
<1>. SUFFICES ASSUME NEW a \in Seq(Symbols), NEW b \in Seq(Symbols)
              PROVE  /\ a \o b \in Seq(Symbols) /\ Len(a \o b) = Len(a) + Len(b)
                     /\ \A i \in 1..Len(a) : (a \o b)[i] = a[i]
                     /\ \A i \in 1..Len(b) : (a \o b)[Len(a) + i] = b[i]
  OBVIOUS
<1>1. PICK w, n, m : w = a \o b /\ n = Len(a) /\ m = Len(b)
  OBVIOUS
<1>2. n \in Nat /\ m \in Nat
  BY <1>1, LenProperties
<1>3. /\ w \in Seq(Symbols) /\ Len(w) = n + m
      /\ \A i \in 1..(n + m) : w[i] = IF i <= n THEN a[i] ELSE b[i - n]
  BY <1>1, ConcatProperties
<1>4. \A i \in 1..n : w[i] = a[i]
  BY <1>2, <1>3
<1>5. ASSUME NEW i \in 1..m PROVE w[n + i] = b[i]
  <2>1. PICK j \in 1..(n + m) : j = n + i /\ ~ (j <= n) /\ j - n = i
    BY <1>2
  <2>. QED BY <1>3, <2>1
<1>. QED BY <1>1, <1>3, <1>4, <1>5

\* Where the parts of an encoded string come to lie behind u
LaidOut(w, u, d, c, s, e) ==
  /\ w \in Seq(Symbols) /\ Len(w) = Len(u) + Len(d) + Len(s) + 2
  /\ \A i \in 1..Len(u) : w[i] = u[i]
  /\ \A i \in 1..Len(d) : w[Len(u) + i] = d[i]
  /\ w[Len(u) + Len(d) + 1] = c
  /\ \A i \in 1..Len(s) : w[Len(u) + Len(d) + 1 + i] = s[i]
  /\ w[Len(u) + Len(d) + Len(s) + 2] = e

LEMMA Layout ==
  \A u, d, s \in Seq(Symbols) : \A c, e \in Symbols :
    LaidOut(u \o (d \o <<c>> \o s \o <<e>>), u, d, c, s, e)
<1>. SUFFICES ASSUME NEW u \in Seq(Symbols), NEW d \in Seq(Symbols), NEW s \in Seq(Symbols),
                     NEW c \in Symbols, NEW e \in Symbols
              PROVE  LaidOut(u \o (d \o <<c>> \o s \o <<e>>), u, d, c, s, e)
  OBVIOUS
<1>1. PICK p, n, l \in Nat : p = Len(u) /\ n = Len(d) /\ l = Len(s)
  BY LenProperties
<1>2. PICK cc, ee : cc = <<c>> /\ ee = <<e>>
  OBVIOUS
<1>3. PICK x, y, z, w : x = d \o cc /\ y = x \o s /\ z = y \o ee /\ w = u \o z
  OBVIOUS
<1>4. cc \in Seq(Symbols) /\ Len(cc) = 1 /\ cc[1] = c /\ ee \in Seq(Symbols) /\ Len(ee) = 1 /\ ee[1] = e
  BY <1>2
<1>5. u \o (d \o <<c>> \o s \o <<e>>) = w
  BY <1>2, <1>3
<1>6. /\ x \in Seq(Symbols) /\ Len(x) = n + 1
      /\ \A i \in 1..n : x[i] = d[i]
      /\ \A i \in 1..1 : x[n + i] = cc[i]
  <2>1. d \in Seq(Symbols) /\ cc \in Seq(Symbols) /\ x = d \o cc
    BY <1>1, <1>3, <1>4
  <2>2. n = Len(d) /\ 1 = Len(cc)
    BY <1>1, <1>3, <1>4
  <2>3. /\ x \in Seq(Symbols) /\ Len(x) = Len(d) + Len(cc)
        /\ \A i \in 1..Len(d) : x[i] = d[i]
        /\ \A i \in 1..Len(cc) : x[Len(d) + i] = cc[i]
    BY <2>1, Joined
  <2>. QED BY Zenon, <2>2, <2>3
<1>7. /\ y \in Seq(Symbols) /\ Len(y) = (n + 1) + l
      /\ \A i \in 1..(n + 1) : y[i] = x[i]
      /\ \A i \in 1..l : y[(n + 1) + i] = s[i]
  <2>1. x \in Seq(Symbols) /\ s \in Seq(Symbols) /\ y = x \o s
    BY <1>1, <1>3, <1>6
  <2>2. (n + 1) = Len(x) /\ l = Len(s)
    BY <1>1, <1>3, <1>6
  <2>3. /\ y \in Seq(Symbols) /\ Len(y) = Len(x) + Len(s)
        /\ \A i \in 1..Len(x) : y[i] = x[i]
        /\ \A i \in 1..Len(s) : y[Len(x) + i] = s[i]
    BY <2>1, Joined
  <2>. QED BY Zenon, <2>2, <2>3
<1>8. /\ z \in Seq(Symbols) /\ Len(z) = (n + 1 + l) + 1
      /\ \A i \in 1..(n + 1 + l) : z[i] = y[i]
      /\ \A i \in 1..1 : z[(n + 1 + l) + i] = ee[i]
  <2>1. y \in Seq(Symbols) /\ ee \in Seq(Symbols) /\ z = y \o ee
    BY <1>1, <1>3, <1>4, <1>7
  <2>2. (n + 1 + l) = Len(y) /\ 1 = Len(ee)
    BY <1>1, <1>3, <1>4, <1>7
  <2>3. /\ z \in Seq(Symbols) /\ Len(z) = Len(y) + Len(ee)
        /\ \A i \in 1..Len(y) : z[i] = y[i]
        /\ \A i \in 1..Len(ee) : z[Len(y) + i] = ee[i]
    BY <2>1, Joined
  <2>. QED BY Zenon, <2>2, <2>3
<1>9. /\ w \in Seq(Symbols) /\ Len(w) = p + (n + 1 + l + 1)
      /\ \A i \in 1..p : w[i] = u[i]
      /\ \A i \in 1..(n + 1 + l + 1) : w[p + i] = z[i]
  <2>1. u \in Seq(Symbols) /\ z \in Seq(Symbols) /\ w = u \o z
    BY <1>1, <1>3, <1>8
  <2>2. p = Len(u) /\ (n + 1 + l + 1) = Len(z)
    BY <1>1, <1>3, <1>8
  <2>3. /\ w \in Seq(Symbols) /\ Len(w) = Len(u) + Len(z)
        /\ \A i \in 1..Len(u) : w[i] = u[i]
        /\ \A i \in 1..Len(z) : w[Len(u) + i] = z[i]
    BY <2>1, Joined
  <2>. QED BY Zenon, <2>2, <2>3
<1>10. \A i \in 1..n : w[p + i] = d[i]
  <2>1. ASSUME NEW i \in 1..n PROVE w[p + i] = d[i]
    <3>1. i \in 1..(n + 1) /\ i \in 1..(n + 1 + l) /\ i \in 1..(n + 1 + l + 1)  OBVIOUS
    <3>. QED BY <1>6, <1>7, <1>8, <1>9, <3>1
  <2>. QED BY <2>1
<1>11. w[p + n + 1] = c
  <2>1. PICK k \in Nat : k = n + 1  OBVIOUS
  <2>2. x[k] = c
    <3>1. 1 \in 1..1  OBVIOUS
    <3>. QED BY <1>4, <1>6, <2>1, <3>1
  <2>3. k \in 1..(n + 1) /\ k \in 1..(n + 1 + l) /\ k \in 1..(n + 1 + l + 1)  BY <2>1
  <2>4. p + k = p + n + 1  BY <2>1
  <2>5. y[k] = x[k] /\ z[k] = y[k] /\ w[p + k] = z[k]  BY <1>7, <1>8, <1>9, <2>3
  <2>. QED BY Zenon, <2>2, <2>4, <2>5
<1>12. \A i \in 1..l : w[p + n + 1 + i] = s[i]
  <2>1. ASSUME NEW i \in 1..l PROVE w[p + n + 1 + i] = s[i]
    <3>1. PICK k \in Nat : k = (n + 1) + i  OBVIOUS
    <3>2. k \in 1..(n + 1 + l) /\ k \in 1..(n + 1 + l + 1) /\ p + k = p + n + 1 + i  BY <3>1
    <3>3. y[k] = s[i]  BY <1>7, <3>1
    <3>. QED BY <1>8, <1>9, <3>2, <3>3
  <2>. QED BY <2>1
<1>13. w[p + n + l + 2] = e
  <2>1. PICK k \in Nat : k = (n + 1 + l) + 1  OBVIOUS
  <2>2. z[k] = e
    <3>1. 1 \in 1..1  OBVIOUS
    <3>. QED BY <1>4, <1>8, <2>1, <3>1
  <2>3. k \in 1..(n + 1 + l + 1) /\ p + k = p + n + l + 2  BY <2>1
  <2>. QED BY <1>9, <2>2, <2>3
<1>14. Len(w) = p + n + l + 2
  BY <1>9
<1>15. LaidOut(w, u, d, c, s, e)
  BY Zenon, <1>1, <1>9, <1>10, <1>11, <1>12, <1>13, <1>14 DEF LaidOut
<1>. QED BY Zenon, <1>5, <1>15

\* An encoded string behind u is read as that string
LEMMA EncodedFollows ==
  ASSUME TenDigits, NEW u \in Seq(Symbols), NEW s \in Seq(Symbols), Len(s) <= MaxLen,
         NEW w, w = u \o Encoded(s)
  PROVE  /\ w \in Seq(Symbols) /\ Extends(w, u) /\ Follows(w, Len(u), Len(w), s)
<1>1. PICK d : d = Decimal(Len(s))
  OBVIOUS
<1>2. PICK p, n, l \in Nat : p = Len(u) /\ n = Len(d) /\ l = Len(s) /\ n > 0
  <2>1. Len(s) \in Nat /\ Len(u) \in Nat  BY LenProperties
  <2>2. Len(d) \in Nat /\ Len(d) > 0  BY <1>1, <2>1, DecimalDenotes, LenProperties
  <2>. QED BY <2>1, <2>2
<1>3. d \in Seq(Digits) /\ Number(d, 0, n) = l
  BY <1>1, <1>2, DecimalDenotes
<1>4. d \in Seq(Symbols)
  <2>1. Digits \subseteq Symbols  BY SymbolsAssumption
  <2>. HIDE DEF Digits
  <2>. QED BY <1>3, <2>1
<1>. DEFINE Colon == w[p + n + 1] = ":"
            Comma(i) == w[i] = ","
<1>5. /\ w \in Seq(Symbols) /\ Len(w) = p + n + l + 2
      /\ \A i \in 1..p : w[i] = u[i]
      /\ \A i \in 1..n : w[p + i] = d[i]
      /\ Colon
      /\ \A i \in 1..l : w[p + n + 1 + i] = s[i]
      /\ Comma(p + n + l + 2)
  <2>1. ":" \in Symbols /\ "," \in Symbols  BY SymbolsAssumption
  <2>2. w = u \o (d \o <<":">> \o s \o <<",">>)  BY <1>1 DEF Encoded
  <2>3. LaidOut(w, u, d, ":", s, ",")
    BY Zenon, <1>4, <2>1, <2>2, Layout
  <2>4. /\ w \in Seq(Symbols) /\ Len(w) = p + n + l + 2
        /\ \A i \in 1..p : w[i] = u[i]
        /\ \A i \in 1..n : w[p + i] = d[i]
        /\ w[p + n + 1] = ":"
        /\ \A i \in 1..l : w[p + n + 1 + i] = s[i]
        /\ w[p + n + l + 2] = ","
    BY Zenon, <1>2, <2>3 DEF LaidOut
  <2>. QED BY Zenon, <2>4
<1>. HIDE DEF Colon, Comma
<1>6. Extends(w, u)
  <2>1. Len(u) <= Len(w)  BY <1>2, <1>5
  <2>. QED BY <1>2, <1>5, <2>1 DEF Extends
<1>7. AreDigits(w, p, n)
  <2>1. \A i \in 1..n : d[i] \in Digits  BY <1>2, <1>3, ElementOfSeq
  <2>. QED BY <1>5, <2>1 DEF AreDigits
<1>8. Number(w, p, n) = l
  <2>1. SameSymbols(w, p, d, 0, n)
    BY <1>5 DEF SameSymbols
  <2>. QED BY <1>3, <2>1, NumberAgrees
<1>9. HasHeader(w, p, n)
  <2>1. l <= MaxLen  BY <1>2
  <2>2. HasLength(w, p, n)  BY <1>7, <1>8, <2>1 DEF HasLength
  <2>3. p + n < Len(w)  BY <1>5
  <2>. QED BY <1>2, <1>5, <2>2, <2>3 DEF HasHeader, Colon
<1>10. DataEnd(w, p, n) = p + n + 1 + l
  BY <1>8 DEF DataEnd
<1>11. HasNetstring(w, p, n)
  <2>1. p + n + 1 + l < Len(w) /\ (p + n + 1 + l) + 1 = p + n + l + 2  BY <1>5
  <2>. QED BY <1>5, <1>9, <1>10, <2>1 DEF HasNetstring, Comma
<1>12. SubSeq(w, p + n + 2, p + n + 1 + l) = s
  <2>1. PICK a, b \in Nat \ {0} : a = p + n + 2 /\ b = p + n + 1 + l
    OBVIOUS
  <2>2. /\ b <= Len(w) /\ b - a + 1 = l /\ (a <= b <=> l > 0)
        /\ (IF a <= b THEN b - a + 1 ELSE 0) = l
    BY <1>5, <2>1
  <2>3. /\ SubSeq(w, a, b) \in Seq(Symbols) /\ Len(SubSeq(w, a, b)) = l
        /\ \A i \in 1..l : SubSeq(w, a, b)[i] = w[a + i - 1]
    BY <1>5, <2>2, SubSeqIs
  <2>4. ASSUME NEW i \in 1..l PROVE SubSeq(w, a, b)[i] = s[i]
    <3>1. a + i - 1 = p + n + 1 + i  BY <2>1
    <3>2. SubSeq(w, a, b)[i] = w[a + i - 1]  BY <2>3
    <3>3. w[p + n + 1 + i] = s[i]  BY <1>5
    <3>. QED BY Zenon, <3>1, <3>2, <3>3
  <2>. QED BY <1>2, <2>1, <2>3, <2>4, SeqEqual
<1>13. n \in DOMAIN w /\ Len(w) = DataEnd(w, p, n) + 1
  <2>1. n \in 1..Len(w)  BY <1>2, <1>5
  <2>2. n \in DOMAIN w  BY <1>5, <2>1, LenProperties
  <2>. QED BY <1>5, <1>10, <2>2
<1>14. Follows(w, p, Len(w), s)
  <2>1. s = SubSeq(w, p + n + 2, DataEnd(w, p, n))  BY <1>10, <1>12
  <2>. QED BY <1>11, <1>13, <2>1 DEF Follows
<1>. QED BY <1>2, <1>5, <1>6, <1>14

-----------------------------------------------------------------------------
(* Many strings *)

\* f is the recursive function of EncodedAll
IsEncoding(f, strings, n) ==
  f = [i \in 0..n |-> IF i = 0 THEN <<>> ELSE f[i - 1] \o Encoded(strings[i])]

LEMMA EncodingExists == \A strings : \A n \in Nat : \E f : IsEncoding(f, strings, n)
<1>. SUFFICES ASSUME NEW strings PROVE \A n \in Nat : \E f : IsEncoding(f, strings, n)
  OBVIOUS
<1>. DEFINE S == {n \in Nat : \E f : IsEncoding(f, strings, n)}
<1>1. 0 \in S
  <2>1. IsEncoding([i \in 0..0 |-> <<>>], strings, 0)
    BY DEF IsEncoding
  <2>. QED BY <2>1
<1>2. ASSUME NEW n \in Nat, n \in S
      PROVE  n + 1 \in S
  <2>1. PICK f : IsEncoding(f, strings, n)
    BY <1>2
  <2>. DEFINE g == [i \in 0..(n + 1) |-> IF i = n + 1 THEN f[n] \o Encoded(strings[i]) ELSE f[i]]
  <2>2. \A i \in 0..n : f[i] = IF i = 0 THEN <<>> ELSE f[i - 1] \o Encoded(strings[i])
    BY <2>1 DEF IsEncoding
  <2>3. ASSUME NEW i \in 0..(n + 1)
        PROVE  g[i] = IF i = 0 THEN <<>> ELSE g[i - 1] \o Encoded(strings[i])
    <3>1. CASE i = n + 1
      <4>1. g[i - 1] = f[n]  BY <3>1
      <4>2. i # 0  BY <3>1
      <4>. QED BY <3>1, <4>1, <4>2
    <3>2. CASE i \in 0..n
      <4>1. g[i] = f[i]  BY <3>2
      <4>2. i # 0 => g[i - 1] = f[i - 1]  BY <3>2
      <4>. QED BY <2>2, <3>2, <4>1, <4>2
    <3>. QED BY <3>1, <3>2
  <2>4. IsEncoding(g, strings, n + 1)
    <3>. DEFINE h == [i \in 0..(n + 1) |-> IF i = 0 THEN <<>> ELSE g[i - 1] \o Encoded(strings[i])]
    <3>1. \A i \in 0..(n + 1) : g[i] = h[i]  BY <2>3
    <3>2. g = h  BY <3>1
    <3>. QED BY <3>2 DEF IsEncoding
  <2>. QED BY <2>4
<1>. HIDE DEF S
<1>3. Nat \subseteq S
  BY <1>1, <1>2, Induction
<1>. QED BY <1>3 DEF S

\* EncodedAll is the last value of such a function
LEMMA EncodedAllIs ==
  \A strings \in Seq(Seq(Symbols)) : \E f :
    /\ EncodedAll(strings) = f[Len(strings)] /\ f[0] = <<>>
    /\ \A i \in 1..Len(strings) : f[i] = f[i - 1] \o Encoded(strings[i])
<1>. SUFFICES ASSUME NEW strings \in Seq(Seq(Symbols))
              PROVE  \E f : /\ EncodedAll(strings) = f[Len(strings)] /\ f[0] = <<>>
                            /\ \A i \in 1..Len(strings) : f[i] = f[i - 1] \o Encoded(strings[i])
  OBVIOUS
<1>. DEFINE f == CHOOSE g : g = [i \in 0..Len(strings) |-> IF i = 0 THEN <<>>
                                                           ELSE g[i - 1] \o Encoded(strings[i])]
<1>1. \E g : g = [i \in 0..Len(strings) |-> IF i = 0 THEN <<>> ELSE g[i - 1] \o Encoded(strings[i])]
  <2>1. PICK g : IsEncoding(g, strings, Len(strings))  BY EncodingExists, LenProperties
  <2>. QED BY Zenon, <2>1 DEF IsEncoding
<1>2. IsEncoding(f, strings, Len(strings))
  BY Zenon, <1>1 DEF IsEncoding
<1>3. EncodedAll(strings) = f[Len(strings)]
  BY DEF EncodedAll
<1>. HIDE DEF f
<1>4. \A i \in 0..Len(strings) : f[i] = IF i = 0 THEN <<>> ELSE f[i - 1] \o Encoded(strings[i])
  BY <1>2 DEF IsEncoding
<1>5. Len(strings) \in Nat
  BY LenProperties
<1>6. f[0] = <<>>
  <2>1. 0 \in 0..Len(strings)  BY <1>5
  <2>. QED BY <1>4, <2>1
<1>7. ASSUME NEW i \in 1..Len(strings) PROVE f[i] = f[i - 1] \o Encoded(strings[i])
  <2>1. i \in 0..Len(strings) /\ i # 0  BY <1>5
  <2>. QED BY <1>4, <2>1
<1>. QED BY Zenon, <1>3, <1>6, <1>7

\* The encoded strings lie one behind the other, up to the end
LEMMA EncodedParsed ==
  ASSUME TenDigits, NEW strings \in Seq(Seq(Symbols)), Readable(strings),
         NEW w, w = EncodedAll(strings)
  PROVE  w \in Seq(Symbols) /\ \E cut : Parsed(w, strings, cut) /\ cut[Len(strings)] = Len(w)
<1>1. PICK N \in Nat : N = Len(strings)
  BY LenProperties
<1>2. PICK f : w = f[N] /\ f[0] = <<>> /\ \A i \in 1..N : f[i] = f[i - 1] \o Encoded(strings[i])
  BY <1>1, EncodedAllIs
<1>3. \A i \in 1..N : strings[i] \in Seq(Symbols) /\ Len(strings[i]) <= MaxLen
  BY <1>1, ElementOfSeq, LenProperties DEF Readable
<1>. DEFINE Good(i) == /\ f[i] \in Seq(Symbols)
                       /\ \A j \in 0..i : Len(f[j]) \in Nat /\ Len(f[j]) <= Len(f[i])
                       /\ \A j \in 1..i : Follows(f[i], Len(f[j - 1]), Len(f[j]), strings[j])
            S == {i \in Nat : i <= N => Good(i)}
<1>4. 0 \in S
  <2>1. f[0] \in Seq(Symbols) /\ Len(f[0]) = 0  BY <1>2, EmptySeq
  <2>. QED BY <2>1
<1>5. ASSUME NEW i \in Nat, i \in S
      PROVE  i + 1 \in S
  <2>1. PICK k \in Nat \ {0} : k = i + 1 /\ k - 1 = i  OBVIOUS
  <2>. SUFFICES ASSUME k <= N PROVE Good(k)
    BY <2>1
  <2>2. Good(i)  BY <1>5, <2>1
  <2>. HIDE DEF S
  <2>3. k \in 1..N /\ i \in 0..i  BY <2>1
  <2>4. f[k] = f[i] \o Encoded(strings[k])  BY <1>2, <2>1, <2>3
  <2>5. strings[k] \in Seq(Symbols) /\ Len(strings[k]) <= MaxLen  BY <1>3, <2>3
  <2>6. f[i] \in Seq(Symbols) /\ Len(f[i]) \in Nat  BY <2>2, <2>3
  <2>7. /\ f[k] \in Seq(Symbols) /\ Extends(f[k], f[i])
        /\ Follows(f[k], Len(f[i]), Len(f[k]), strings[k])
    BY Zenon, <2>4, <2>5, <2>6, EncodedFollows
  <2>8. Len(f[k]) \in Nat /\ Len(f[i]) <= Len(f[k])  BY <2>7, LenProperties DEF Extends
  <2>9. ASSUME NEW j \in 0..k
        PROVE  Len(f[j]) \in Nat /\ Len(f[j]) <= Len(f[k])
    <3>1. CASE j = k
      BY <2>8, <3>1
    <3>2. CASE j # k
      <4>1. j \in 0..i  BY <2>1, <3>2
      <4>2. Len(f[j]) \in Nat /\ Len(f[j]) <= Len(f[i])  BY <2>2, <4>1
      <4>. QED BY <2>6, <2>8, <4>2
    <3>. QED BY <3>1, <3>2
  <2>10. ASSUME NEW j \in 1..k
         PROVE  Follows(f[k], Len(f[j - 1]), Len(f[j]), strings[j])
    <3>1. CASE j = k
      BY <2>1, <2>7, <3>1
    <3>2. CASE j # k
      <4>1. j \in 1..i /\ j - 1 \in 0..i  BY <2>1, <3>2
      <4>2. Follows(f[i], Len(f[j - 1]), Len(f[j]), strings[j]) /\ Len(f[j - 1]) \in Nat
        BY <2>2, <4>1
      <4>. QED BY <2>6, <2>7, <4>2, FollowsGrows
    <3>. QED BY <3>1, <3>2
  <2>. QED BY <2>7, <2>9, <2>10
<1>. HIDE DEF S
<1>6. N \in S
  BY <1>4, <1>5, Induction
<1>7. Good(N)
  BY <1>6 DEF S
<1>8. PICK cut : cut = [i \in 0..N |-> Len(f[i])]
  OBVIOUS
<1>9. w \in Seq(Symbols) /\ Len(w) \in Nat
  BY <1>2, <1>7, LenProperties
<1>10. Parsed(w, strings, cut)
  <2>1. \A i \in 0..N : cut[i] = Len(f[i]) /\ Len(f[i]) \in 0..Len(w)
    BY <1>2, <1>7, <1>8, <1>9
  <2>2. cut \in [0..N -> 0..Len(w)]  BY <1>8, <2>1
  <2>3. cut[0] = 0
    <3>1. 0 \in 0..N  OBVIOUS
    <3>. QED BY <1>2, <2>1, <3>1, EmptySeq
  <2>4. ASSUME NEW i \in 1..N
        PROVE  Follows(w, cut[i - 1], cut[i], strings[i])
    <3>1. i \in 0..N /\ i - 1 \in 0..N  OBVIOUS
    <3>2. cut[i] = Len(f[i]) /\ cut[i - 1] = Len(f[i - 1])  BY <2>1, <3>1
    <3>. QED BY <1>2, <1>7, <3>2
  <2>. QED BY <1>1, <2>2, <2>3, <2>4 DEF Parsed
<1>11. cut[Len(strings)] = Len(w)
  <2>1. N \in 0..N  OBVIOUS
  <2>. QED BY <1>1, <1>2, <1>8, <2>1
<1>. QED BY <1>9, <1>10, <1>11

\* Encoded strings are decoded to what they were, and nothing is left over
LEMMA DecodedEncoded ==
  ASSUME TenDigits, NEW strings \in Seq(Seq(Symbols)), Readable(strings),
         NEW w, w = EncodedAll(strings)
  PROVE  /\ w \in Seq(Symbols) /\ Decoded(w) = [at |-> Len(w), strings |-> strings]
         /\ MayContinue(w, Len(w))
<1>1. w \in Seq(Symbols)
  BY EncodedParsed
<1>2. PICK cut : Parsed(w, strings, cut) /\ cut[Len(strings)] = Len(w)
  BY EncodedParsed
<1>3. Len(w) \in Nat
  BY <1>1, LenProperties
<1>4. \A n \in DOMAIN w : ~ HasNetstring(w, cut[Len(strings)], n)
  <2>. SUFFICES ASSUME NEW n \in DOMAIN w, HasHeader(w, Len(w), n) PROVE FALSE
    BY <1>2 DEF HasNetstring
  <2>1. n \in Nat  BY <1>1, LenProperties
  <2>2. Len(w) + n < Len(w)  BY DEF HasHeader
  <2>. QED BY <1>3, <2>1, <2>2
<1>5. Decoded(w) = [at |-> Len(w), strings |-> strings]
  BY <1>1, <1>2, <1>4, DecodedParsed
<1>6. MayContinue(w, Len(w))
  <2>1. AreDigits(w, Len(w), 0)  BY DEF AreDigits
  <2>2. Number(w, Len(w), 0) <= MaxLen  BY NumberZero, BoundsAssumption
  <2>3. Len(w) - Len(w) = 0  BY <1>3
  <2>. QED BY <2>1, <2>2, <2>3 DEF MayContinue, HasLength
<1>. QED BY <1>1, <1>5, <1>6

\* What follows complete netstrings takes none of them back
LEMMA DecodedBegins ==
  ASSUME NEW w \in Seq(Symbols), NEW strings \in Seq(Seq(Symbols)), NEW cut, Parsed(w, strings, cut)
  PROVE  Extends(Decoded(w).strings, strings)
<1>. DEFINE k == Len(strings)
<1>1. PICK f : /\ Decoded(w) = f[Len(w)]
               /\ \A i \in 1..Len(w) : f[i] = OneMore(w, f[i - 1])
               /\ f[k] = [at |-> cut[k], strings |-> strings]
  BY DecodingParsed
<1>2. k \in Nat /\ k <= Len(w) /\ Len(w) \in Nat /\ cut[k] \in Nat
  <2>1. k \in Nat /\ k <= Len(w) /\ Len(w) \in Nat  BY DecodingParsed, LenProperties
  <2>2. k \in 0..k  BY <2>1
  <2>. QED BY <2>1, <2>2, ParsedType
<1>. DEFINE Good(d) == /\ d = [at |-> d.at, strings |-> d.strings]
                       /\ d.at \in Nat /\ d.strings \in Seq(Seq(Symbols))
                       /\ Extends(d.strings, strings)
            S == {i \in Nat : k + i <= Len(w) => Good(f[k + i])}
<1>3. 0 \in S
  <2>1. Extends(strings, strings)  BY <1>2 DEF Extends
  <2>2. Good([at |-> cut[k], strings |-> strings])  BY <1>2, <2>1
  <2>. HIDE DEF Good
  <2>. QED BY <1>1, <1>2, <2>2
<1>4. ASSUME NEW i \in Nat, i \in S
      PROVE  i + 1 \in S
  <2>1. PICK j \in Nat \ {0} : j = k + (i + 1) /\ j - 1 = k + i  BY <1>2
  <2>. SUFFICES ASSUME j <= Len(w) PROVE Good(f[j])
    BY <2>1
  <2>2. Good(f[k + i])  BY <1>2, <1>4, <2>1
  <2>. HIDE DEF S
  <2>3. PICK d : d = f[k + i]
    OBVIOUS
  <2>4. PICK p \in Nat, t \in Seq(Seq(Symbols)) : d = [at |-> p, strings |-> t] /\ Extends(t, strings)
    BY <2>2, <2>3
  <2>5. f[j] = OneMore(w, d)
    <3>1. j \in 1..Len(w)  BY <1>2
    <3>. QED BY <1>1, <2>1, <2>3, <3>1
  <2>6. CASE \A n \in DOMAIN w : ~ HasNetstring(w, p, n)
    <3>1. d.at = p  BY <2>4
    <3>2. OneMore(w, d) = d  BY <2>6, <3>1, NoneFollows
    <3>. QED BY <2>2, <2>3, <2>5, <3>2
  <2>7. ASSUME NEW n \in DOMAIN w, HasNetstring(w, p, n)
        PROVE  Good(f[j])
    <3>1. PICK q, s : q = DataEnd(w, p, n) + 1 /\ s = SubSeq(w, p + n + 2, DataEnd(w, p, n))
      OBVIOUS
    <3>2. Follows(w, p, q, s)
      BY <2>7, <3>1 DEF Follows
    <3>3. OneMore(w, [at |-> p, strings |-> t]) = [at |-> q, strings |-> Append(t, s)]
      <4>1. \A x \in Nat : \A y, z : Follows(w, x, y, z) =>
              \A r : OneMore(w, [at |-> x, strings |-> r]) = [at |-> y, strings |-> Append(r, z)]
        BY Zenon, FollowsOneMore
      <4>. QED BY Zenon, <3>2, <4>1
    <3>4. q \in Nat
      BY <3>2, FollowsAdvances
    <3>5. s \in Seq(Symbols)
      <4>1. n \in Nat  BY LenProperties
      <4>2. HasHeader(w, p, n) /\ DataEnd(w, p, n) < Len(w)  BY <2>7 DEF HasNetstring
      <4>3. PICK e : e = DataEnd(w, p, n)  OBVIOUS
      <4>4. e \in Nat /\ e < Len(w)  BY <4>1, <4>2, <4>3, HeaderType
      <4>5. p + n + 2 \in Nat \ {0} /\ e <= Len(w)  BY <1>2, <4>1, <4>4
      <4>. QED BY <3>1, <4>3, <4>4, <4>5, SubSeqIs
    <3>6. /\ Append(t, s) \in Seq(Seq(Symbols)) /\ Len(Append(t, s)) = Len(t) + 1
          /\ \A m \in 1..Len(t) : Append(t, s)[m] = t[m]
      BY <3>5, AppendProperties
    <3>7. Extends(Append(t, s), strings)
      <4>1. Len(t) \in Nat  BY LenProperties
      <4>. QED BY <1>2, <2>4, <3>6, <4>1 DEF Extends
    <3>8. f[j] = [at |-> q, strings |-> Append(t, s)]
      BY <2>4, <2>5, <3>3
    <3>. QED BY <3>4, <3>6, <3>7, <3>8
  <2>. HIDE DEF Good
  <2>. QED BY <2>6, <2>7
<1>. HIDE DEF S
<1>5. Len(w) - k \in S /\ k + (Len(w) - k) = Len(w)
  <2>1. Len(w) - k \in Nat /\ k + (Len(w) - k) = Len(w)  BY <1>2
  <2>. QED BY <1>3, <1>4, <2>1, Induction
<1>6. Good(f[Len(w)])
  <2>1. k + (Len(w) - k) <= Len(w)  BY <1>2
  <2>. HIDE DEF Good
  <2>. QED BY <1>5, <2>1 DEF S
<1>. QED BY <1>1, <1>6

\* Strings that were encoded are read as they were, in their order, whatever chunks
\* they come in and whatever follows them; if nothing does, the reader has neither
\* refused anything nor is it inside a string.
ReadBack ==
  \A strings \in Seq(Seq(Symbols)) : \A rest \in Seq(Symbols) :
    Readable(strings) /\ fed = EncodedAll(strings) \o rest /\ WantRead =>
      /\ Extends(requests, strings)
      /\ rest = <<>> => requests = strings /\ error = "none" /\ len = None

\* encode() and the StreamReader fit: a client that encodes its requests gets every
\* one of them through, one that pipelines them gets them through in order.
THEOREM ReadBackHolds == TenDigits => (Spec => []ReadBack)
<1>. SUFFICES ASSUME TenDigits PROVE Spec => []ReadBack
  OBVIOUS
<1>1. ASSUME Inv PROVE ReadBack
  <2>. SUFFICES ASSUME NEW strings \in Seq(Seq(Symbols)), NEW rest \in Seq(Symbols),
                       Readable(strings), fed = EncodedAll(strings) \o rest, WantRead
                PROVE  /\ Extends(requests, strings)
                       /\ rest = <<>> => requests = strings /\ error = "none" /\ len = None
    BY DEF ReadBack
  <2>1. PICK w : w = EncodedAll(strings)
    OBVIOUS
  <2>2. /\ w \in Seq(Symbols) /\ Decoded(w) = [at |-> Len(w), strings |-> strings]
        /\ MayContinue(w, Len(w))
    BY <2>1, DecodedEncoded
  <2>3. /\ requests = Decoded(fed).strings /\ (error = "none") = MayContinue(fed, Decoded(fed).at)
        /\ error = "none" => (len # None) = (Decoded(fed).at < Len(fed))
    BY <1>1, AgreesWithDecoded
  <2>4. Extends(requests, strings)
    <3>1. PICK cut : Parsed(w, strings, cut)
      BY <2>1, EncodedParsed
    <3>2. fed \in Seq(Symbols)
      BY <1>1 DEF Inv, TypeOK
    <3>3. Extends(fed, w)
      <4>1. Len(fed) = Len(w) + Len(rest) /\ \A i \in 1..Len(w) : fed[i] = w[i]
        BY <2>1, <2>2, Joined
      <4>2. Len(w) \in Nat /\ Len(rest) \in Nat  BY <2>2, LenProperties
      <4>. QED BY <4>1, <4>2 DEF Extends
    <3>4. Parsed(fed, strings, cut)
      BY <2>2, <3>1, <3>2, <3>3, ParsedGrows
    <3>. QED BY <2>3, <3>2, <3>4, DecodedBegins
  <2>5. ASSUME rest = <<>>
        PROVE  requests = strings /\ error = "none" /\ len = None
    <3>1. fed = w
      BY <2>1, <2>2, <2>5
    <3>2. Decoded(fed).at = Len(fed) /\ Decoded(fed).strings = strings
      BY <2>2, <3>1
    <3>3. error = "none"
      BY Zenon, <2>2, <2>3, <3>1, <3>2
    <3>4. ~ (Decoded(fed).at < Len(fed))
      BY <2>2, <3>1, <3>2, LenProperties
    <3>. QED BY <2>3, <3>2, <3>3, <3>4
  <2>. QED BY <2>4, <2>5
<1>. QED BY <1>1, Invariance, PTL
=============================================================================
