------------------------------ MODULE Netstring ------------------------------
(***************************************************************************)
(* The incremental netstring parser: a StreamReader is fed chunks as they  *)
(* arrive and a SingleNetstringFetcher consumes them, raising WantRead     *)
(* whenever the buffer runs dry - in the middle of a length, of the data   *)
(* or before the terminator.  It is driven as the handler of the responder *)
(* drives it: read until WantRead, feed, read again.                       *)
(***************************************************************************)
EXTENDS Naturals, Sequences

CONSTANTS
  Symbols,   \* the bytes
  Value,     \* the value of each symbol that is a digit
  MaxLen,    \* maxlen, REQUEST_LIMIT
  MaxStream, \* bound: symbols sent on a connection
  MaxChunk,  \* bound: symbols in one chunk
  None       \* no length digit seen

Digits == DOMAIN Value

ASSUME SymbolsAssumption ==
  /\ {":", ","} \subseteq Symbols /\ Digits \subseteq Symbols \ {":", ","}
  /\ Value \in [Digits -> 0..9]

ASSUME BoundsAssumption == {MaxLen, MaxStream, MaxChunk} \subseteq Nat /\ MaxChunk > 0

ASSUME NoneAssumption == None \notin Nat

VARIABLES
  incoming, \* the MemoryBIO
  len,      \* the fetcher's _len
  lenKnown, \* the fetcher's _len_known
  parts,    \* request_parts, joined
  requests, \* strings completed so far
  error,    \* "none", or the ParseError raised
  fed       \* history: everything fed so far

vars == <<incoming, len, lenKnown, parts, requests, error, fed>>

TypeOK ==
  /\ incoming \in Seq(Symbols) /\ parts \in Seq(Symbols) /\ fed \in Seq(Symbols)
  /\ len \in 0..MaxLen \cup {None} /\ (lenKnown => len # None)
  /\ requests \in Seq(Seq(Symbols))
  /\ error \in {"none", "TooLong", "BadLength", "BadTerminator"}

Init ==
  /\ incoming = <<>> /\ len = None /\ lenKnown = FALSE /\ parts = <<>>
  /\ requests = <<>> /\ error = "none" /\ fed = <<>>

FeedForgetsDigits(chunk) ==  \* mutant: the next read() starts the length afresh
  /\ incoming = <<>> /\ error = "none"
  /\ Len(fed) + Len(chunk) <= MaxStream
  /\ incoming' = chunk /\ fed' = fed \o chunk
  /\ len' = IF lenKnown THEN len ELSE None
  /\ UNCHANGED <<lenKnown, parts, requests, error>>

\* WantRead was raised: the handler feeds the next chunk it gets
Feed(chunk) ==
  /\ incoming = <<>> /\ error = "none"
  /\ Len(fed) + Len(chunk) <= MaxStream
  /\ incoming' = chunk /\ fed' = fed \o chunk
  /\ UNCHANGED <<len, lenKnown, parts, requests, error>>

Longer(digit) == (IF len = None THEN 0 ELSE len * 10) + Value[digit]

ReadDigitUnlimited ==  \* mutant: any length is accepted
  /\ ~lenKnown /\ Head(incoming) \in Digits
  /\ len' = Longer(Head(incoming))
  /\ incoming' = Tail(incoming)
  /\ UNCHANGED <<lenKnown, parts, requests, error>>

ReadDigit ==
  /\ ~lenKnown /\ Head(incoming) \in Digits
  /\ IF Longer(Head(incoming)) > MaxLen
     THEN error' = "TooLong" /\ UNCHANGED len
     ELSE len' = Longer(Head(incoming)) /\ UNCHANGED error
  /\ incoming' = Tail(incoming)
  /\ UNCHANGED <<lenKnown, parts, requests>>

ReadColon ==
  /\ ~lenKnown /\ Head(incoming) \notin Digits
  /\ IF Head(incoming) = ":" /\ len # None
     THEN lenKnown' = TRUE /\ UNCHANGED error
     ELSE error' = "BadLength" /\ UNCHANGED lenKnown
  /\ incoming' = Tail(incoming)
  /\ UNCHANGED <<len, parts, requests>>

\* As much of the data as there is
ReadData ==
  /\ lenKnown /\ len > 0
  /\ LET n == IF len <= Len(incoming) THEN len ELSE Len(incoming)
     IN  /\ parts' = parts \o SubSeq(incoming, 1, n)
         /\ incoming' = SubSeq(incoming, n + 1, Len(incoming))
         /\ len' = len - n
  /\ UNCHANGED <<lenKnown, requests, error>>

ReadTerminatorKeepsLength ==  \* mutant: the next string gets no new fetcher state
  /\ lenKnown /\ len = 0
  /\ IF Head(incoming) = ","
     THEN /\ requests' = Append(requests, parts)
          /\ parts' = <<>> /\ lenKnown' = FALSE
          /\ UNCHANGED <<error, len>>
     ELSE error' = "BadTerminator" /\ UNCHANGED <<requests, parts, len, lenKnown>>
  /\ incoming' = Tail(incoming)

\* The string ends, and next_string() makes a fetcher for the next one
ReadTerminator ==
  /\ lenKnown /\ len = 0
  /\ IF Head(incoming) = ","
     THEN /\ requests' = Append(requests, parts)
          /\ parts' = <<>> /\ len' = None /\ lenKnown' = FALSE
          /\ UNCHANGED error
     ELSE error' = "BadTerminator" /\ UNCHANGED <<requests, parts, len, lenKnown>>
  /\ incoming' = Tail(incoming)

Read ==
  /\ incoming # <<>> /\ error = "none" /\ UNCHANGED fed
  /\ ReadDigit \/ ReadColon \/ ReadData \/ ReadTerminator

Next ==
  \/ \E n \in 1..MaxChunk : \E chunk \in [1..n -> Symbols] : Feed(chunk)
  \/ Read

Spec == Init /\ [][Next]_vars

-----------------------------------------------------------------------------
(* What a stream means, whatever chunks it comes in *)

AreDigits(w, p, n) == \A i \in 1..n : w[p + i] \in Digits

\* The number that the n digits of w after position p denote
Number(w, p, n) ==
  LET upTo[i \in 0..n] == IF i = 0 THEN 0 ELSE 10 * upTo[i - 1] + Value[w[p + i]]
  IN  upTo[n]

\* After position p, w has a length of n digits that is not over the limit ...
HasLength(w, p, n) == AreDigits(w, p, n) /\ Number(w, p, n) <= MaxLen

\* ... and its colon ...
HasHeader(w, p, n) ==
  /\ n > 0 /\ p + n < Len(w) /\ w[p + n + 1] = ":"
  /\ HasLength(w, p, n)

DataEnd(w, p, n) == p + n + 1 + Number(w, p, n)

\* ... and the data, with their terminator
HasNetstring(w, p, n) ==
  /\ HasHeader(w, p, n)
  /\ DataEnd(w, p, n) < Len(w) /\ w[DataEnd(w, p, n) + 1] = ","

\* d, the strings decoded so far and the position they end at, and one string more
OneMore(w, d) ==
  IF \E n \in DOMAIN w : HasNetstring(w, d.at, n)
  THEN LET n == CHOOSE n \in DOMAIN w : HasNetstring(w, d.at, n)
       IN  [at |-> DataEnd(w, d.at, n) + 1,
            strings |-> Append(d.strings, SubSeq(w, d.at + n + 2, DataEnd(w, d.at, n)))]
  ELSE d

\* The complete netstrings at the beginning of w (at most one for each symbol)
Decoded(w) ==
  LET upTo[i \in 0..Len(w)] ==
        IF i = 0 THEN [at |-> 0, strings |-> <<>>] ELSE OneMore(w, upTo[i - 1])
  IN  upTo[Len(w)]

\* What encode() makes of a string: its length in decimal, a colon, the data, a comma
Digit(v) == CHOOSE s \in Digits : Value[s] = v

Decimal(n) ==
  LET upTo[i \in 0..n] ==
        IF i < 10 THEN <<Digit(i)>> ELSE Append(upTo[i \div 10], Digit(i % 10))
  IN  upTo[n]

Encoded(s) == Decimal(Len(s)) \o <<":">> \o s \o <<",">>

\* The strings, encoded one after another
EncodedAll(strings) ==
  LET upTo[i \in 0..Len(strings)] ==
        IF i = 0 THEN <<>> ELSE upTo[i - 1] \o Encoded(strings[i])
  IN  upTo[Len(strings)]

\* What follows position p may be continued to a netstring
MayContinue(w, p) ==
  \/ HasLength(w, p, Len(w) - p)
  \/ \E n \in DOMAIN w : HasHeader(w, p, n) /\ Len(w) <= DataEnd(w, p, n)

-----------------------------------------------------------------------------
(* Properties *)

WantRead == incoming = <<>> \/ error # "none"

\* The requests parsed, and whether the stream is refused, depend on the bytes
\* received and not on how they were cut into chunks.
ChunksDoNotMatter ==
  WantRead =>
    /\ requests = Decoded(fed).strings
    /\ (error = "none") = MayContinue(fed, Decoded(fed).at)

\* A stream that ends inside a netstring, wherever that is, leaves the reader
\* pending(): decode() raises IncompleteNetstring and loses no data unnoticed.
TruncationNoticed ==
  WantRead /\ error = "none" => (len # None) = (Decoded(fed).at < Len(fed))
=============================================================================
