-------------------------- MODULE ManagerGraph_proofs --------------------------
(***************************************************************************)
(* Theorems about ManagerGraph: the context gate, however often the human   *)
(* is asked and whatever the classifier reads out of the conversation.     *)
(*                                                                         *)
(* The argument is about pure functions, the folding of one answer into    *)
(* an intent (intent.py); the invariant Gate carries it along the graph.   *)
(***************************************************************************)
EXTENDS ManagerGraph, TLAPS

-----------------------------------------------------------------------------
(* The invariant: intents and answers are what they should be, and what    *)
(* left the gate was complete.                                             *)

SlotValues == UNION {Values(s) : s \in Slots}

Asked == answer \in {NoAnswer} \cup [kind : AnswerKinds, people : {"one", "two"}]

Gate == intent \in Intents /\ Asked /\ StartsComplete

-----------------------------------------------------------------------------
(* Slots and intents (slots.py, registry.py).                              *)

\* What a slot may hold.
LEMMA SlotContents ==
  /\ Empty \in SlotValues /\ "given" \in SlotValues
  /\ "one" \in SlotValues /\ "two" \in SlotValues
  /\ \A s \in Slots : Values(s) \subseteq SlotValues
<1>1. "recipient_identity" \in Slots /\ "scope" \in Slots
  BY DEF Slots
<1>2. \A s \in Slots : Values(s) \subseteq SlotValues
  BY DEF SlotValues
<1>3. /\ {Empty, "one", "two"} \subseteq Values("recipient_identity")
      /\ "given" \in Values("scope")
  BY DEF Values
<1>4. QED
  BY <1>1, <1>2, <1>3

\* An intent, field by field.
LEMMA IntentParts ==
  ASSUME NEW i \in Intents
  PROVE  /\ i = [action |-> i.action, slots |-> i.slots,
                 confidence |-> i.confidence, confirmed |-> i.confirmed]
         /\ i.action \in Actions /\ i.slots \in [Slots -> SlotValues]
         /\ i.confidence \in Levels /\ i.confirmed \in BOOLEAN
BY DEF Intents, SlotValues

\* Whatever the classifier reads is an intent.
LEMMA ReadingsAreIntents ==
  ASSUME NEW fresh \in Readings PROVE fresh \in Intents
<1>1. PICK a \in Actions, c \in Levels, f \in [Slots -> SlotValues] :
        fresh = [action |-> a, slots |-> f, confidence |-> c, confirmed |-> FALSE]
  BY DEF Readings, SlotValues
<1>2. QED
  BY <1>1 DEF Intents, SlotValues

\* What a question asks for is not there yet.
LEMMA OutstandingIsEmpty ==
  ASSUME NEW i \in Intents, NEW s \in Outstanding(i)
  PROVE  i.slots[s] = Empty
BY DEF Outstanding, Missing, Conditional

\* Two intents compared: nothing filled is lost, and no ground either.
Keeps(old, new) ==
  /\ new \in Intents
  /\ \A s \in Slots : old.slots[s] # Empty => new.slots[s] = old.slots[s]

Advances(old, new) ==
  /\ new.confidence >= old.confidence
  /\ old.confirmed => new.confirmed
  /\ old.action \in {new.action, "unknown"}

\* Reading again (merge_intent).
LEMMA MergeKeeps ==
  ASSUME NEW old \in Intents, NEW fresh \in Intents, NEW declined \in BOOLEAN
  PROVE  /\ Keeps(old, Merge(old, fresh, declined))
         /\ ~declined => Advances(old, Merge(old, fresh, declined))
<1> DEFINE new == Merge(old, fresh, declined)
<1>1. /\ new.action = (IF old.action # "unknown" /\ ~declined THEN old.action
                                                             ELSE fresh.action)
      /\ new.slots = Kept(old.slots, fresh.slots)
      /\ new.confidence = Raised(old.confidence, fresh.confidence)
      /\ new.confirmed = (old.confirmed /\ ~declined)
  BY DEF Merge
<1>2. /\ new.slots \in [Slots -> SlotValues]
      /\ \A s \in Slots : old.slots[s] # Empty => new.slots[s] = old.slots[s]
  BY <1>1, IntentParts DEF Kept
<1>3. new.confidence \in Levels /\ new.confidence >= old.confidence
  BY <1>1, IntentParts DEF Raised, Levels
<1>4. new.action \in Actions /\ new.confirmed \in BOOLEAN
  BY <1>1, IntentParts
<1>5. new \in Intents
  BY <1>2, <1>3, <1>4 DEF Merge, Intents, SlotValues
<1>6. QED
  BY <1>1, <1>2, <1>3, <1>5 DEF Keeps, Advances

\* Taking the answer for what was asked (fill_slots).
LEMMA FilledKeeps ==
  ASSUME NEW i \in Intents, NEW people \in {"one", "two"}
  PROVE  Keeps(i, Filled(i, people)) /\ Advances(i, Filled(i, people))
<1> DEFINE filled == [s \in Slots |->
                        IF s \notin Outstanding(i) THEN i.slots[s]
                        ELSE IF s = "recipient_identity" THEN people ELSE "given"]
<1>1. Filled(i, people) = [action |-> i.action, slots |-> filled,
                           confidence |-> i.confidence, confirmed |-> i.confirmed]
  <2>1. Filled(i, people) = [i EXCEPT !.slots = filled]
    BY DEF Filled
  <2> HIDE DEF filled
  <2>2. QED
    BY <2>1, IntentParts
<1>2. filled \in [Slots -> SlotValues]
  BY IntentParts, SlotContents
<1>3. \A s \in Slots : i.slots[s] # Empty => filled[s] = i.slots[s]
  BY OutstandingIsEmpty
<1> HIDE DEF filled
<1>4. Filled(i, people) \in Intents
  BY <1>1, <1>2, IntentParts DEF Intents, SlotValues
<1>5. i.confidence >= i.confidence
  BY IntentParts DEF Levels
<1>6. QED
  BY <1>1, <1>3, <1>4, <1>5 DEF Keeps, Advances

\* A yes (the confirmed flag of TaskIntent).
LEMMA ConfirmedKeeps ==
  ASSUME NEW i \in Intents
  PROVE  Keeps(i, Confirmed(i)) /\ Advances(i, Confirmed(i))
<1>1. i.confidence >= i.confidence
  BY IntentParts DEF Levels
<1>2. CASE i.action = "unknown"
  BY <1>1, <1>2 DEF Confirmed, Keeps, Advances
<1>3. CASE i.action # "unknown"
  <2>1. Confirmed(i) = [action |-> i.action, slots |-> i.slots,
                        confidence |-> i.confidence, confirmed |-> TRUE]
    <3>1. Confirmed(i) = [i EXCEPT !.confirmed = TRUE]
      BY <1>3 DEF Confirmed
    <3>2. QED
      BY <3>1, IntentParts
  <2>2. Confirmed(i) \in Intents
    BY <2>1, IntentParts DEF Intents, SlotValues
  <2>3. QED
    BY <1>1, <2>1, <2>2 DEF Keeps, Advances
<1>4. QED
  BY <1>2, <1>3

\* apply_defaults
LEMMA DefaultsKeep ==
  ASSUME NEW i \in Intents
  PROVE  /\ Keeps(i, WithDefaults(i)) /\ Advances(i, WithDefaults(i))
         /\ WithDefaults(i).action = i.action
<1>1. i.confidence >= i.confidence
  BY IntentParts DEF Levels
<1>2. CASE WithDefaults(i) = i
  BY <1>1, <1>2 DEF Keeps, Advances
<1>3. CASE i.action = "summarize" /\ i.slots["scope"] = Empty
  <2> DEFINE scoped == [i.slots EXCEPT !["scope"] = "given"]
  <2>1. WithDefaults(i) = [action |-> i.action, slots |-> scoped,
                           confidence |-> i.confidence, confirmed |-> i.confirmed]
    <3>1. WithDefaults(i) = [i EXCEPT !.slots = scoped]
      BY <1>3 DEF WithDefaults
    <3> HIDE DEF scoped
    <3>2. QED
      BY <3>1, IntentParts
  <2>2. /\ scoped \in [Slots -> SlotValues]
        /\ \A s \in Slots : i.slots[s] # Empty => scoped[s] = i.slots[s]
    BY <1>3, IntentParts, SlotContents
  <2> HIDE DEF scoped
  <2>3. WithDefaults(i) \in Intents
    BY <2>1, <2>2, IntentParts DEF Intents, SlotValues
  <2>4. QED
    BY <1>1, <2>1, <2>2, <2>3 DEF Keeps, Advances
<1>4. QED
  BY <1>2, <1>3 DEF WithDefaults

\* Steps that keep what there is keep it together.
LEMMA KeepsInTurn ==
  ASSUME NEW a \in Intents, NEW b \in Intents, NEW c \in Intents
  PROVE  /\ Keeps(a, b) /\ Keeps(b, c) => Keeps(a, c)
         /\ Advances(a, b) /\ Advances(b, c) => Advances(a, c)
<1>1. /\ Keeps(a, b) /\ Keeps(b, c) => Keeps(a, c)
  BY DEF Keeps
<1>2. /\ a.confidence \in Int /\ b.confidence \in Int /\ c.confidence \in Int
  BY IntentParts DEF Levels
<1>3. QED
  BY <1>1, <1>2 DEF Advances

\* One answer folded in (build_context_gate_node).
LEMMA FoldedKeeps ==
  ASSUME NEW i \in Intents, NEW fresh \in Readings \cup {NoReading},
         NEW a \in [kind : AnswerKinds, people : {"one", "two"}]
  PROVE  /\ Keeps(i, Folded(i, a, fresh))
         /\ ~Declines(a.kind) => Advances(i, Folded(i, a, fresh))
<1> DEFINE read == IF fresh = NoReading THEN i ELSE Merge(i, fresh, Declines(a.kind))
<1>1. a.people \in {"one", "two"} /\ Declines(a.kind) \in BOOLEAN
  BY DEF Declines
<1>2. Keeps(i, read) /\ (~Declines(a.kind) => Advances(i, read))
  <2>1. CASE fresh = NoReading
    <3>1. i.confidence >= i.confidence
      BY IntentParts DEF Levels
    <3>2. QED
      BY <2>1, <3>1 DEF Keeps, Advances
  <2>2. CASE fresh # NoReading
    BY <1>1, <2>2, ReadingsAreIntents, MergeKeeps
  <2>3. QED
    BY <2>1, <2>2
<1>3. \/ Folded(i, a, fresh) = Filled(read, a.people)
      \/ Folded(i, a, fresh) = Confirmed(read)
      \/ Folded(i, a, fresh) = read
  BY DEF Folded
<1> HIDE DEF read
<1>4. read \in Intents
  BY <1>2 DEF Keeps
<1>5. CASE Folded(i, a, fresh) = Filled(read, a.people)
  <2>1. /\ Keeps(read, Folded(i, a, fresh)) /\ Advances(read, Folded(i, a, fresh))
        /\ Folded(i, a, fresh) \in Intents
    BY <1>1, <1>4, <1>5, FilledKeeps DEF Keeps
  <2>2. QED
    BY <1>2, <1>4, <2>1, KeepsInTurn
<1>6. CASE Folded(i, a, fresh) = Confirmed(read)
  <2>1. /\ Keeps(read, Folded(i, a, fresh)) /\ Advances(read, Folded(i, a, fresh))
        /\ Folded(i, a, fresh) \in Intents
    BY <1>4, <1>6, ConfirmedKeeps DEF Keeps
  <2>2. QED
    BY <1>2, <1>4, <2>1, KeepsInTurn
<1>7. QED
  BY <1>2, <1>3, <1>5, <1>6

\* All the gate may come to understand.
LEMMA UnderstandingsKeep ==
  ASSUME intent \in Intents, Asked, NEW i \in Understandings
  PROVE  /\ Keeps(intent, i)
         /\ answer = NoAnswer \/ ~Declines(answer.kind) => Advances(intent, i)
<1>1. CASE answer = NoAnswer
  <2>1. i = intent
    BY <1>1 DEF Understandings
  <2>2. intent.confidence >= intent.confidence
    BY IntentParts DEF Levels
  <2>3. QED
    BY <2>1, <2>2 DEF Keeps, Advances
<1>2. CASE answer # NoAnswer
  <2>1. answer \in [kind : AnswerKinds, people : {"one", "two"}]
    BY <1>2 DEF Asked
  <2>2. PICK fresh \in Readings \cup {NoReading} : i = Folded(intent, answer, fresh)
    BY <1>2 DEF Understandings
  <2>3. QED
    BY <1>2, <2>1, <2>2, FoldedKeeps
<1>3. QED
  BY <1>1, <1>2

\* What the gate lets through is complete, its defaults included (is_ready).
LEMMA ReadyIsComplete ==
  ASSUME NEW i \in Intents, Ready(i)
  PROVE  /\ WithDefaults(i).action # "unknown"
         /\ Missing(WithDefaults(i)) = {} /\ Conditional(WithDefaults(i)) = {}
<1>1. Missing(i) = {} /\ Conditional(i) = {}
  BY DEF Ready, Outstanding
<1>2. i.action # "unknown"
  BY DEF Ready, Confidence, Bar
<1>3. CASE WithDefaults(i) = i
  BY <1>1, <1>2, <1>3
<1>4. CASE i.action = "summarize"
  <2>1. WithDefaults(i).action = "summarize"
    BY <1>4, DefaultsKeep
  <2>2. QED
    BY <2>1 DEF Missing, Required, Conditional
<1>5. QED
  BY <1>3, <1>4 DEF WithDefaults

-----------------------------------------------------------------------------
(* The graph, node by node.                                                *)

\* Only the gate changes an intent, and it keeps what there is.
IntentStep ==
  \/ UNCHANGED intent
  \/ pc = "intake" /\ intent' \in Intents
  \/ /\ pc = "context_gate" /\ Keeps(intent, intent')
     /\ answer = NoAnswer \/ ~Declines(answer.kind) => Advances(intent, intent')

Late == {"router", "planner", "writer", "dispatch", "linear", "worker"}

\* Outside the gate and the intake nothing is written of intent or answer, and
\* nothing comes after the gate that was not there already.
Passes ==
  UNCHANGED <<intent, answer>> /\ (pc' \in Late => pc \in Late)

\* A node that writes neither intent nor answer disturbs nothing.
LEMMA PassingKeepsGate ==
  ASSUME Gate, Passes PROVE Gate' /\ IntentStep
BY DEF Gate, Passes, Asked, StartsComplete, Missing, Conditional, IntentStep, Late

\* Every step keeps the gate, and writes of the intent only a first reading of
\* the task or, at the gate, what keeps what was there.
LEMMA GateStep ==
  ASSUME Gate, [Next]_vars
  PROVE  Gate' /\ IntentStep
<1> USE DEF gateVars
<1>t. intent \in Intents /\ Asked
  BY DEF Gate
<1>1. CASE Raises
  BY <1>1, PassingKeepsGate DEF Raises, Passes, Late
<1>2. CASE Intake
  <2>1. /\ pc = "intake" /\ pc' = "context_gate" /\ answer' = answer
        /\ intent' \in Intents
    BY <1>2, ReadingsAreIntents DEF Intake
  <2>2. QED
    BY <1>t, <2>1 DEF Gate, Asked, StartsComplete, IntentStep
<1>3. CASE GateClears
  <2>1. PICK i \in Understandings : Ready(i) /\ intent' = WithDefaults(i)
    BY <1>3 DEF GateClears
  <2>2. /\ pc = "context_gate" /\ answer' = answer
    BY <1>3 DEF GateClears
  <2>3. /\ i \in Intents /\ Keeps(intent, i)
        /\ answer = NoAnswer \/ ~Declines(answer.kind) => Advances(intent, i)
    BY <1>t, UnderstandingsKeep DEF Keeps
  <2>4. intent' \in Intents /\ Keeps(i, intent') /\ Advances(i, intent')
    BY <2>1, <2>3, DefaultsKeep DEF Keeps
  <2>5. IntentStep
    BY <1>t, <2>2, <2>3, <2>4, KeepsInTurn DEF IntentStep
  <2>6. /\ intent'.action # "unknown"
        /\ Missing(intent') = {} /\ Conditional(intent') = {}
    BY <2>1, <2>3, ReadyIsComplete
  <2>7. StartsComplete'
    BY <2>6 DEF StartsComplete, Missing, Conditional
  <2>8. QED
    BY <1>t, <2>2, <2>4, <2>5, <2>7 DEF Gate, Asked
<1>4. CASE GateGivesUp \/ GateAsks
  <2>1. /\ pc = "context_gate" /\ answer' = answer /\ pc' \in {"finalize", "ask"}
        /\ intent' \in Understandings
    BY <1>4 DEF GateGivesUp, GateAsks
  <2>2. IntentStep /\ intent' \in Intents
    BY <1>t, <2>1, UnderstandingsKeep DEF IntentStep, Keeps
  <2>3. QED
    BY <1>t, <2>1, <2>2 DEF Gate, Asked, StartsComplete
<1>5. CASE Answers
  <2>1. /\ answer' \in [kind : AnswerKinds, people : {"one", "two"}]
        /\ pc' = "context_gate" /\ intent' = intent
    BY <1>5 DEF Answers
  <2>2. QED
    BY <1>t, <2>1 DEF Gate, Asked, StartsComplete, IntentStep
<1>6. CASE Router \/ Planner \/ Writer \/ Dispatch
  BY <1>6, PassingKeepsGate DEF Router, Planner, Writer, Dispatch, Passes, Late
<1>7. CASE Linear \/ LinearReturns \/ Finalize \/ Outside
  BY <1>7, PassingKeepsGate DEF Linear, LinearReturns, Finalize, Outside, Passes, Late
<1>8. CASE UNCHANGED vars
  BY <1>8, PassingKeepsGate DEF vars, Passes
<1>9. QED
  BY <1>1, <1>2, <1>3, <1>4, <1>5, <1>6, <1>7, <1>8 DEF Next, Graph

\* Before the first message there is nothing to be complete.
LEMMA GateOpensRight == Init => Gate
<1>1. NoIntent \in Intents
  <2>1. [s \in Slots |-> Empty] \in [Slots -> SlotValues]
    BY SlotContents
  <2>2. QED
    BY <2>1 DEF NoIntent, Intents, SlotValues, Actions, Levels
<1>2. QED
  BY <1>1 DEF Init, Gate, Asked, StartsComplete

-----------------------------------------------------------------------------
(* The theorems.                                                           *)

\* In every reachable state the intent is an intent and whatever left the gate
\* was complete: the invariant the next three rest on.
THEOREM GateHolds == Spec => []Gate
<1>1. Init => Gate
  BY GateOpensRight
<1>2. Gate /\ [Next]_vars => Gate'
  BY GateStep
<1>3. QED
  BY <1>1, <1>2, PTL DEF Spec

\* Router, planner, writer, dispatch and both workers only ever run on an
\* intent with nothing left for the human to say, a delivery for several
\* recipients included, whatever the classifier reads and however many
\* questions are allowed (build_context_gate_node, is_ready).
THEOREM RunsStartComplete == Spec => []StartsComplete
<1>1. Gate => StartsComplete
  BY DEF Gate
<1>2. QED
  BY <1>1, GateHolds, PTL

\* What the human gave, the human keeps: no reading of the conversation, no
\* default and no later answer changes a slot that was filled (merge_intent,
\* apply_defaults).
THEOREM FilledSlotsStand == Spec => SlotsStand
<1>1. Gate /\ [Next]_vars =>
        [pc # "intake" => \A s \in Slots :
           intent.slots[s] # Empty => intent'.slots[s] = intent.slots[s]]_vars
  BY GateStep DEF IntentStep, Keeps
<1>2. QED
  BY <1>1, GateHolds, PTL DEF Spec, SlotsStand

\* An answer that is no refusal never sets the run back: confidence, a
\* confirmation and the action survive it (merge_intent).
THEOREM AnswersKeepGround == Spec => GroundIsKept
<1>1. Gate /\ [Next]_vars =>
        [pc = "context_gate" /\ (answer = NoAnswer \/ ~Declines(answer.kind)) =>
           /\ intent'.confidence >= intent.confidence
           /\ intent.confirmed => intent'.confirmed
           /\ intent.action \in {intent'.action, "unknown"}]_vars
  <2>1. SUFFICES ASSUME Gate, [Next]_vars
        PROVE  \/ Advances(intent, intent')
               \/ ~(pc = "context_gate" /\ (answer = NoAnswer \/ ~Declines(answer.kind)))
    BY DEF Advances
  <2>2. CASE UNCHANGED intent
    <3>1. intent.confidence >= intent.confidence
      BY <2>1, IntentParts DEF Levels, Gate
    <3>2. QED
      BY <2>2, <3>1 DEF Advances
  <2>3. QED
    BY <2>1, <2>2, GateStep DEF IntentStep
<1>2. QED
  BY <1>1, GateHolds, PTL DEF Spec, GroundIsKept

=============================================================================
