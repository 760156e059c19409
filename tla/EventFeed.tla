------------------------------- MODULE EventFeed -------------------------------
(***************************************************************************)
(* What the event stream of a run promises each of its viewers: what was   *)
(* published, in the order it was published, and nothing twice.  It is not *)
(* promised that nothing is missing; RunStream says what is.               *)
(***************************************************************************)
EXTENDS Naturals, Sequences

CONSTANTS Viewers, Kinds, MaxEvents

VARIABLES
  log,    \* what was published
  got     \* for each viewer, the positions in log it received, in order

Last(seq) == IF seq = <<>> THEN 0 ELSE seq[Len(seq)]

Init == log = <<>> /\ got = [v \in Viewers |-> <<>>]

\* A new event reaches some of the viewers at once, and only in order.
Publish ==
  /\ Len(log) < MaxEvents
  /\ \E k \in Kinds : log' = Append(log, k)
  /\ \E W \in SUBSET Viewers :
       got' = [v \in Viewers |-> IF v \in W THEN Append(got[v], Len(log) + 1)
                                            ELSE got[v]]

\* A viewer is handed an earlier event it is not already past.
CatchUp(v) ==
  /\ \E i \in (Last(got[v]) + 1)..Len(log) :
       got' = [got EXCEPT ![v] = Append(@, i)]
  /\ UNCHANGED log

Next == Publish \/ \E v \in Viewers : CatchUp(v)

Spec == Init /\ [][Next]_<<log, got>>
=============================================================================
