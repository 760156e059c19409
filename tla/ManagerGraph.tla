---------------------------- MODULE ManagerGraph ----------------------------
(* The run before the worker: intake, the context gate and its questions,   *)
(* the router, the planner, the writer and dispatch, and the deterministic  *)
(* worker of the linear route.  The reasoning worker (observe onwards) is   *)
(* WorkerLoop; here it is where the run arrives.                            *)
(*                                                                          *)
(* One action stands for each kind of row in the tables of slots.py and     *)
(* registry.py.  A slot's alternatives are one slot; a recipient is told    *)
(* apart by whether it names one person or two.                             *)
EXTENDS RulesWorker

CONSTANTS
  MaxAsks,   \* MAX_ASKS
  Rules      \* kinds of tasks the rules store matches: a set of booleans

ASSUME ManagerConstants == MaxAsks \in Nat /\ Rules \subseteq BOOLEAN

VARIABLES
  pc, intent, answer, question, asks, status, errorCode, route, worker,
  named      \* history: actions the human was asked about and did not refuse

gateVars == <<intent, answer, question, asks, named>>
runVars  == <<status, errorCode, route, worker>>
vars == <<pc, gateVars, runVars, rulesVars>>

-----------------------------------------------------------------------------
(* slots.py and registry.py.                                                *)

Actions == {"send_email", "triage", "summarize", "unknown"}
Slots == {"recipient_identity", "body_intent", "delivery_mode", "scope",
          "action_clarification"}
Empty == ""
Values(slot) ==
  {Empty} \cup (IF slot = "recipient_identity" THEN {"one", "two"}
                                               ELSE {"given"})

\* REQUIRED_SLOTS
Required(action) ==
  CASE action = "send_email" -> {"recipient_identity", "body_intent"}
    [] action = "triage"     -> {"scope"}
    [] action = "summarize"  -> {}
    [] action = "unknown"    -> {"action_clarification"}

Missing(i) == {slot \in Required(i.action) : i.slots[slot] = Empty}

\* CONDITIONAL_SLOTS: how to deliver to more than one person.
Conditional(i) ==
  IF /\ i.action = "send_email" /\ i.slots["recipient_identity"] = "two"
     /\ i.slots["delivery_mode"] = Empty
    THEN {"delivery_mode"} ELSE {}

\* A defect: conditional requirements are forgotten.
MissingOnly(i) == Missing(i)

\* outstanding_slots: a condition counts once everything required is there.
Outstanding(i) == IF Missing(i) # {} THEN Missing(i) ELSE Conditional(i)

\* Confidence is compared with two bars only: below both (0), enough for
\* reading (1), enough for anything (2).
Levels == 0..2
Bar(action) == IF action = "summarize" THEN 1 ELSE 2

\* confidence, with nothing outstanding.
Confidence(i) ==
  IF i.action = "unknown" THEN 0
  ELSE IF i.confirmed THEN 2 ELSE i.confidence

Ready(i) == Outstanding(i) = {} /\ Confidence(i) >= Bar(i.action)

\* apply_defaults
WithDefaults(i) ==
  IF i.action = "summarize" /\ i.slots["scope"] = Empty
    THEN [i EXCEPT !.slots["scope"] = "given"] ELSE i

WorkerFor(action) ==
  CASE action = "send_email" -> "compose"
    [] action = "triage"     -> "triage"
    [] OTHER                 -> "query"

\* topology_for: only triage can run without looking.
TopologyFor(action, requested) ==
  IF requested = "linear" /\ WorkerFor(action) = "triage"
    THEN "linear" ELSE "decision"

-----------------------------------------------------------------------------
(* intent.py.  A reading is what the classifier makes of the conversation.  *)

SlotsOf(action) ==
  CASE action = "send_email" ->
         {"recipient_identity", "body_intent", "delivery_mode"}
    [] action = "unknown"    -> {}
    [] OTHER                 -> {"scope"}

Readings ==
  UNION {{[action |-> a, slots |-> f, confidence |-> c, confirmed |-> FALSE] :
            c \in Levels,
            f \in {g \in [Slots -> UNION {Values(s) : s \in Slots}] :
                     \A s \in Slots : g[s] \in IF s \in SlotsOf(a)
                                                 THEN Values(s) ELSE {Empty}}}
         : a \in Actions}
NoReading == [action |-> "none"]

\* Two defects: what the second reading says replaces what was filled; it may
\* lower the confidence.
KeptOverwritten(old, fresh) ==
  [s \in Slots |-> IF fresh[s] # Empty THEN fresh[s] ELSE old[s]]
RaisedOrLowered(old, fresh) == fresh

\* What the human gave, the human keeps; confidence only ever rises.
Kept(old, fresh) ==
  [s \in Slots |-> IF old[s] # Empty THEN old[s] ELSE fresh[s]]
Raised(old, fresh) == IF old > fresh THEN old ELSE fresh

\* merge_intent
Merge(old, fresh, declined) ==
  [action |-> IF old.action # "unknown" /\ ~declined THEN old.action
                                                     ELSE fresh.action,
   slots |-> Kept(old.slots, fresh.slots),
   confidence |-> Raised(old.confidence, fresh.confidence),
   confirmed |-> old.confirmed /\ ~declined]

\* Answers: a bare yes or no, a refusal with more to it, and anything else.
AnswerKinds == {"yes", "no", "no but", "content"}
Bare(kind) == kind \in {"yes", "no"}
Declines(kind) == kind \in {"no", "no but"}

\* When the conversation is read again: several slots could be meant, or
\* the human says something about the action itself.
Ambiguous(i, kind) ==
  \/ Cardinality(Outstanding(i)) > 1
  \/ Outstanding(i) = {} /\ ~Bare(kind)

\* What is still missing is taken to be the answer itself.
Filled(i, people) ==
  [i EXCEPT !.slots = [s \in Slots |->
     IF s \notin Outstanding(i) THEN @[s]
     ELSE IF s = "recipient_identity" THEN people ELSE "given"]]

Confirmed(i) ==
  IF i.action = "unknown" THEN i ELSE [i EXCEPT !.confirmed = TRUE]

\* The intent after an answer and, where there was one, a new reading.
Folded(i, a, fresh) ==
  LET read == IF fresh = NoReading THEN i ELSE Merge(i, fresh, Declines(a.kind))
      asked == Outstanding(i) # {}
  IN  IF asked /\ Outstanding(read) # {} THEN Filled(read, a.people)
      ELSE IF ~asked /\ ~Declines(a.kind) THEN Confirmed(read)
      ELSE read

NoAnswer == [kind |-> "none"]

Understandings ==
  IF answer = NoAnswer THEN {intent}
  ELSE {Folded(intent, answer, fresh) :
          fresh \in {NoReading} \cup
                    (IF Ambiguous(intent, answer.kind) THEN Readings ELSE {})}

-----------------------------------------------------------------------------
NoIntent == [action |-> "unknown", slots |-> [s \in Slots |-> Empty],
             confidence |-> 0, confirmed |-> FALSE]

Init ==
  /\ RulesInit
  /\ pc = "intake" /\ intent = NoIntent /\ answer = NoAnswer
  /\ question = "none" /\ asks = 0 /\ named = {}
  /\ status = "gathering" /\ errorCode = "no code"
  /\ route = "none" /\ worker = "none"

\* A provider failure leaves the graph, and so does a surface that goes away
\* under a rule's verb.
Raises ==
  /\ \/ pc \in {"intake", "router", "planner", "writer"}
     \/ pc = "linear" /\ linear.at = "act"
  /\ pc' = "raised"
  /\ UNCHANGED <<gateVars, runVars, rulesVars>>

Intake ==
  /\ pc = "intake"
  /\ intent' \in Readings
  /\ pc' = "context_gate"
  /\ UNCHANGED <<answer, question, asks, named, runVars, rulesVars>>

\* What an answer that is no refusal says yes to.
Agrees ==
  named' = IF answer # NoAnswer /\ ~Declines(answer.kind)
             THEN named \cup ({question} \cap Actions) ELSE named

GateClears ==
  /\ pc = "context_gate"
  /\ \E i \in Understandings : Ready(i) /\ intent' = WithDefaults(i)
  /\ Agrees
  /\ question' = "none" /\ status' = "running"
  /\ worker' = WorkerFor(intent'.action)
  /\ pc' = "router"
  /\ UNCHANGED <<answer, asks, errorCode, route, rulesVars>>

GateGivesUp ==
  /\ pc = "context_gate" /\ asks >= MaxAsks
  /\ \E i \in Understandings : ~Ready(i) /\ intent' = i
  /\ Agrees
  /\ status' = "failed" /\ errorCode' = "CONTEXT_INCOMPLETE"
  /\ pc' = "finalize"
  /\ UNCHANGED <<answer, question, asks, route, worker, rulesVars>>

\* A defect: the question is not counted.
GateAsksForEver ==
  /\ pc = "context_gate" /\ asks < MaxAsks
  /\ \E i \in Understandings : ~Ready(i) /\ intent' = i
  /\ Agrees
  /\ question' = IF Outstanding(intent') # {} THEN "slots" ELSE intent'.action
  /\ status' = "awaiting_human"
  /\ pc' = "ask"
  /\ UNCHANGED <<answer, asks, errorCode, route, worker, rulesVars>>

\* question_for: the missing slots, or else the action by name.
GateAsks ==
  /\ pc = "context_gate" /\ asks < MaxAsks
  /\ \E i \in Understandings : ~Ready(i) /\ intent' = i
  /\ Agrees
  /\ question' = IF Outstanding(intent') # {} THEN "slots" ELSE intent'.action
  /\ asks' = asks + 1 /\ status' = "awaiting_human"
  /\ pc' = "ask"
  /\ UNCHANGED <<answer, errorCode, route, worker, rulesVars>>

\* The human answers, some day.
Answers ==
  /\ pc = "ask"
  /\ \E kind \in AnswerKinds, people \in {"one", "two"} :
       answer' = [kind |-> kind, people |-> people]
  /\ status' = "gathering" /\ pc' = "context_gate"
  /\ UNCHANGED <<intent, question, asks, named, errorCode, route, worker,
                 rulesVars>>

\* A rule that matches is linear work; otherwise the classifier says.
Router ==
  /\ pc = "router"
  /\ \E asked \in {"linear", "decision"} :
       route' = TopologyFor(intent.action, asked)
  /\ pc' = IF route' = "linear" THEN "writer" ELSE "planner"
  /\ UNCHANGED <<gateVars, status, errorCode, worker, rulesVars>>

Planner ==
  /\ pc = "planner" /\ pc' = "writer"
  /\ UNCHANGED <<gateVars, runVars, rulesVars>>

Writer ==
  /\ pc = "writer" /\ pc' = "dispatch"
  /\ UNCHANGED <<gateVars, runVars, rulesVars>>

Dispatch ==
  /\ pc = "dispatch"
  /\ worker' = WorkerFor(intent.action)
  /\ pc' = IF route = "linear" THEN "linear" ELSE "worker"
  /\ UNCHANGED <<gateVars, status, errorCode, route, rulesVars>>

\* The classifier may have said linear of a task no rule matches.
Linear ==
  /\ pc = "linear"
  /\ \/ TRUE \in Rules /\ LinearStarts
     \/ FALSE \in Rules /\ LinearFindsNoRule
     \/ LinearSteps
  /\ UNCHANGED <<pc, gateVars, runVars>>

LinearReturns ==
  /\ pc = "linear" /\ linear.at \in LinearEnded
  /\ status' = IF linear.at = "done" THEN "done" ELSE "failed"
  /\ errorCode' = CASE linear.at = "done"        -> "no code"
                    [] linear.at = "stalled"     -> "STUCK"
                    [] linear.at = "unavailable" -> "SURFACE_UNAVAILABLE"
                    [] linear.at = "no rule"     -> "NO_ACTION"
  /\ worker' = IF linear.at = "done" THEN "rules" ELSE worker
  /\ pc' = "verify"
  /\ UNCHANGED <<gateVars, route, rulesVars>>

Finalize ==
  /\ pc = "finalize" /\ pc' = "end"
  /\ UNCHANGED <<gateVars, runVars, rulesVars>>

Graph ==
  \/ Raises \/ Intake \/ GateClears \/ GateGivesUp \/ GateAsks \/ Router
  \/ Planner \/ Writer \/ Dispatch \/ Linear \/ LinearReturns \/ Finalize

Outside == Arrives /\ UNCHANGED <<pc, gateVars, runVars>>

Next == Graph \/ Answers \/ Outside

Spec == Init /\ [][Next]_vars /\ WF_vars(Graph)

-----------------------------------------------------------------------------
(* What holds.                                                              *)

Intents == [action : Actions,
            slots : [Slots -> UNION {Values(s) : s \in Slots}],
            confidence : Levels, confirmed : BOOLEAN]
Ended == {"worker", "verify", "end", "raised"}

\* The state stays in its types (all of ManagerGraph and RulesWorker).
TypeOK ==
  /\ RulesTypeOK
  /\ pc \in {"intake", "context_gate", "ask", "router", "planner", "writer",
             "dispatch", "linear", "finalize"} \cup Ended
  /\ intent \in Intents
  /\ answer \in {NoAnswer} \cup [kind : AnswerKinds, people : {"one", "two"}]
  /\ question \in {"none", "slots"} \cup Actions
  /\ asks \in 0..MaxAsks /\ named \subseteq Actions
  /\ status \in {"gathering", "running", "awaiting_human", "done", "failed"}
  /\ errorCode \in {"no code", "CONTEXT_INCOMPLETE", "STUCK", "NO_ACTION",
                    "SURFACE_UNAVAILABLE"}
  /\ route \in {"none", "linear", "decision"}
  /\ worker \in {"none", "compose", "triage", "query", "rules"}

\* Nothing after the gate runs on an intent that lacks something the human
\* still has to say, a delivery for several recipients included
\* (build_context_gate_node, is_ready, outstanding_slots).
StartsComplete ==
  pc \in {"router", "planner", "writer", "dispatch", "linear", "worker"} =>
    /\ intent.action # "unknown" /\ Missing(intent) = {}
    /\ Conditional(intent) = {}

\* However often the conversation is read again, a slot once filled keeps its
\* value (merge_intent: "What the human gave, the human keeps").
SlotsStand ==
  [][pc # "intake" => \A s \in Slots :
       intent.slots[s] # Empty => intent'.slots[s] = intent.slots[s]]_vars

\* An answer that is no refusal never leaves the run further from its start:
\* neither confidence nor a confirmation is lost, and the action stays
\* (merge_intent: "Confidence only ever rises").
GroundIsKept ==
  [][pc = "context_gate" /\ (answer = NoAnswer \/ ~Declines(answer.kind)) =>
       /\ intent'.confidence >= intent.confidence
       /\ intent.confirmed => intent'.confirmed
       /\ intent.action \in {intent'.action, "unknown"}]_vars

\* Questions, stalls and items are bounded: the run ends, arrives at its
\* worker or waits for the human (MAX_ASKS, MAX_STALLS, MAX_ITEMS).
ComesToRest == <>[](pc \in Ended \cup {"ask"})

-----------------------------------------------------------------------------
(* What the code's comments say, and it does not do.                        *)

\* Only an action the human was asked about is confirmed.  The answer to
\* "what would you like me to do?" is read again and then confirms what it
\* was just read as (TaskIntent.confirmed, build_context_gate_node).
ConfirmedWasAsked == intent.confirmed => intent.action \in named

\* When a refusal goes on to name other people, some reading of the
\* conversation moves the recipient to them.  The recipient there was outlives
\* every reading (build_context_gate_node, merge_intent).
CorrectionCanBeHeard ==
  pc = "context_gate" /\ question = "send_email" /\ answer.kind = "no but" =>
    \E i \in Understandings : i.slots["recipient_identity"] = answer.people

\* A rule only ever touches what it matches.  After a first verb that
\* archives the row, the second lands on the one that took its place
\* (build_linear_node).
OnlyMatchingTouched == touched \subseteq Matching

=============================================================================
