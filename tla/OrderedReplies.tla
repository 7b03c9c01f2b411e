--------------------------- MODULE OrderedReplies ---------------------------
(***************************************************************************)
(* What one socketmap connection promises its client: requests may be      *)
(* pipelined, replies come one per request and in the order of the         *)
(* requests, and after the connection is closed nothing more is sent.      *)
(* Under FairSpec no request is left waiting on an open connection.        *)
(***************************************************************************)
EXTENDS Naturals, Sequences

VARIABLES
  asked,   \* requests taken from the client so far, numbered 1, 2, ...
  replies, \* the request each reply sent so far belongs to
  closed

vars == <<asked, replies, closed>>

Init == asked = 0 /\ replies = <<>> /\ closed = FALSE

Ask ==
  /\ asked' = asked + 1
  /\ UNCHANGED <<replies, closed>>

Reply ==
  /\ ~closed /\ Len(replies) < asked
  /\ replies' = Append(replies, Len(replies) + 1)
  /\ closed' \in BOOLEAN
  /\ UNCHANGED asked

Close ==
  /\ ~closed /\ closed' = TRUE
  /\ UNCHANGED <<asked, replies>>

Next == Ask \/ Reply \/ Close

Spec == Init /\ [][Next]_vars

Fairness == WF_vars(Len(replies) < asked /\ (Reply \/ Close))

FairSpec == Spec /\ Fairness
=============================================================================
