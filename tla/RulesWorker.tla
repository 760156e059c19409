----------------------------- MODULE RulesWorker -----------------------------
(* The linear node: a matched rule run to completion over the live list of  *)
(* mail, with no model calls.  A row is acted on where it was seen, so what *)
(* an action touches is whatever is in that place when it lands.            *)
EXTENDS Integers, FiniteSets, Sequences, SequencesExt

CONSTANTS
  Mails,       \* all mail of the run, the late arrivals included
  Inbox,       \* the list at the start: a sequence of mails
  Matching,    \* the mails whose text the rule matches
  RuleVerbs,   \* the rule's permitted verbs, in order
  MaxItems, MaxStalls

ASSUME RulesConstants ==
  /\ Matching \subseteq Mails /\ Inbox \in Seq(Mails)
  /\ RuleVerbs \in Seq({"Archive", "MarkRead"}) /\ RuleVerbs # <<>>
  /\ MaxItems \in Nat \ {0} /\ MaxStalls \in Nat \ {0}

VARIABLES
  rows,      \* the list as it is
  late,      \* mail that has not come in yet
  linear,    \* the node: [at, seen, place, turn, handled, stalls, progressed]
  touched    \* history: mails a verb landed on

rulesVars == <<rows, late, linear, touched>>

NotYet == <<>>

RulesInit ==
  /\ rows = Inbox
  /\ late = Mails \ {Inbox[i] : i \in 1..Len(Inbox)}
  /\ linear = [at |-> "idle", seen |-> NotYet, place |-> 0, turn |-> 0,
               handled |-> 0, stalls |-> 0, progressed |-> FALSE]
  /\ touched = {}

\* Mail comes in on top.
Arrives ==
  /\ \E m \in late : late' = late \ {m} /\ rows' = <<m>> \o rows
  /\ UNCHANGED <<linear, touched>>

LinearStarts ==
  /\ linear.at = "idle"
  /\ linear' = [linear EXCEPT !.at = "look"]
  /\ UNCHANGED <<rows, late, touched>>

LinearUnavailable ==
  /\ linear.at = "look" /\ linear.handled < MaxItems
  /\ linear' = [linear EXCEPT !.at = "unavailable"]
  /\ UNCHANGED <<rows, late, touched>>

Places == {i \in 1..Len(rows) : rows[i] \in Matching}

\* A defect: the stall is not counted.
NextStallUncounted(l) == [l EXCEPT !.at = "look"]

\* One more turn without effect; too many of them end the run.
NextStall(l) ==
  [l EXCEPT !.stalls = @ + 1,
            !.at = IF l.stalls + 1 >= MaxStalls THEN "stalled" ELSE "look"]

\* matching_elements: nothing on the page matches the rule.
NothingLeft == Places = {}

\* One turn: look, and take the first matching row.  Nothing is done while
\* the page is what it was before the last claimed success.
LinearLooks ==
  /\ linear.at = "look"
  /\ LET moved == rows # linear.seen
         now == [linear EXCEPT !.seen = rows]
     IN linear' =
          IF linear.handled >= MaxItems THEN [linear EXCEPT !.at = "done"]
          ELSE IF NothingLeft THEN [now EXCEPT !.at = "done"]
          ELSE IF linear.handled > 0 /\ ~moved THEN NextStall(now)
          ELSE [now EXCEPT !.at = "act", !.turn = 1, !.progressed = FALSE,
                  !.place = CHOOSE i \in Places : \A j \in Places : i <= j]
  /\ UNCHANGED <<rows, late, touched>>

\* One verb of the rule.  It may land or not, and be reported either way.
LinearActs ==
  /\ linear.at = "act"
  /\ \E lands, reported \in BOOLEAN :
       /\ lands => linear.place <= Len(rows)
       /\ IF lands
            THEN /\ touched' = touched \cup {rows[linear.place]}
                 /\ rows' = IF RuleVerbs[linear.turn] = "Archive"
                              THEN RemoveAt(rows, linear.place) ELSE rows
            ELSE UNCHANGED <<rows, touched>>
       /\ linear' =
            LET now == [linear EXCEPT !.progressed = @ \/ reported]
            IN  IF linear.turn < Len(RuleVerbs)
                  THEN [now EXCEPT !.turn = @ + 1]
                ELSE IF now.progressed
                  THEN [now EXCEPT !.at = "look", !.handled = @ + 1,
                                   !.stalls = 0]
                ELSE NextStall(now)
  /\ UNCHANGED late

LinearSteps == LinearLooks \/ LinearActs \/ LinearUnavailable

\* No rule left to match the task.
LinearFindsNoRule ==
  /\ linear.at = "idle"
  /\ linear' = [linear EXCEPT !.at = "no rule"]
  /\ UNCHANGED <<rows, late, touched>>

LinearEnded == {"done", "stalled", "unavailable", "no rule"}

RulesTypeOK ==
  /\ rows \in Seq(Mails) /\ late \subseteq Mails /\ touched \subseteq Mails
  /\ linear \in [at : {"idle", "look", "act"} \cup LinearEnded,
                 seen : Seq(Mails), place : 0..Cardinality(Mails),
                 turn : 0..Len(RuleVerbs), handled : 0..MaxItems,
                 stalls : 0..MaxStalls, progressed : BOOLEAN]

=============================================================================
