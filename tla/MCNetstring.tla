---------------------------- MODULE MCNetstring ----------------------------
(* Instances of Netstring for TLC. *)
EXTENDS Netstring

\* Three digits, for numbers of one and two digits below and above the limit
ThreeDigits == [s \in {"0", "1", "2"} |-> CASE s = "0" -> 0 [] s = "1" -> 1 [] s = "2" -> 2]

DigitsAndOthers == DOMAIN ThreeDigits \cup {":", ",", "x"}

\* Strings of the lengths that three digits can write
Samples == {[i \in 1..n |-> s] : n \in {0, 1, 2, 10, 11, 12}, s \in DigitsAndOthers}

\* Two encoded strings are decoded to themselves, and nothing is left over
ASSUME EncodedIsDecoded ==
  \A r, s \in Samples :
    Decoded(EncodedAll(<<r, s>>)) = [at |-> Len(EncodedAll(<<r, s>>)), strings |-> <<r, s>>]
=============================================================================
