--------------------------- MODULE MCPolicyLookup ---------------------------
(* Instances of PolicyLookup for TLC. *)
EXTENDS PolicyLookup

CONSTANTS r1, r2, p1

Pol(mode, maxAge, mx) ==
  [version |-> "STSv1", max_age |-> maxAge, mode |-> mode, mx |-> mx]

\* An owner who always enforces, with the same max_age in both versions
Enforcing == [v \in Versions |-> Pol("enforce", 2, {"mx1"})]

\* Every kind of file an owner may serve: enforced, without MX, then testing
Mixed == <<Pol("enforce", 1, {"mx1"}), Pol("enforce", 1, {}), Pol("testing", 0, {"mx1"})>>

NobodyStrict == [r \in Requests |-> FALSE]
EverybodyStrict == [r \in Requests |-> TRUE]
=============================================================================
