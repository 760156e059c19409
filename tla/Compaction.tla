------------------------------ MODULE Compaction ------------------------------
(***************************************************************************)
(* agent/compaction.py: the history a turn sends to the model, shrunk to   *)
(* its budget.  A message has a role, the verb it calls or answers, a size *)
(* in tokens and the place it had in the run's own history.                *)
(***************************************************************************)
EXTENDS Integers, Sequences, FiniteSets, SequencesExt

CONSTANTS
  KeepHead, KeepTail,   \* KEEP_HEAD, KEEP_TAIL: turns kept verbatim
  Target                \* the budget times TRIGGER_RATIO

ASSUME CompactionConstants == {KeepHead, KeepTail, Target} \subseteq Nat \ {0}

NoVerb == "none"
Message(role, call, size, at) ==
  [role |-> role, call |-> call, size |-> size, at |-> at, tells |-> {}]

IsCall(m) == m.role = "assistant" /\ m.call # NoVerb

\* estimate_tokens
Tokens(messages) == FoldLeft(LAMBDA n, m : n + m.size, 0, messages)

\* A defect: a result is not kept with the call it answers.
JoinsNothing(messages, i) == FALSE

\* A result belongs to the assistant turn right before it.
Joins(messages, i) ==
  /\ messages[i].role = "tool"
  /\ \E j \in 1..(i - 1) :
       /\ messages[j].role = "assistant"
       /\ \A k \in (j + 1)..(i - 1) : messages[k].role = "tool"

\* The turn a message is part of, and the last message of the first g turns.
Turn(messages, i) == Cardinality({j \in 1..i : ~Joins(messages, j)})
End(messages, g) == Cardinality({i \in DOMAIN messages : Turn(messages, i) <= g})

\* Layer 0: an old result is cut to its first characters.
TrimTool(m) == IF m.role = "tool" THEN [m EXCEPT !.size = 1] ELSE m

\* A defect: the call goes with the prose around it.
StripCall(m) == IF IsCall(m) THEN [m EXCEPT !.size = 1, !.call = NoVerb] ELSE m

\* Layer 1: the prose goes, the call stays.
StripReasoning(m) == IF IsCall(m) THEN [m EXCEPT !.size = 1] ELSE m

\* Layer 2: one line in the place of the span, which names its calls.
Summarise(messages, middle) ==
  [Message("user", NoVerb, 1, 0) EXCEPT
     !.tells = {messages[i].at : i \in {j \in middle : IsCall(messages[j])}}]

Compact(messages) ==
  LET last == Turn(messages, Len(messages)) - KeepTail
      from == End(messages, KeepHead)
      to == End(messages, last)
      middle == (from + 1)..to
      trimmed == [i \in DOMAIN messages |->
                    IF i \in middle THEN TrimTool(messages[i]) ELSE messages[i]]
      stripped == [i \in DOMAIN messages |->
                    IF i \in middle THEN StripReasoning(trimmed[i]) ELSE messages[i]]
      summed == SubSeq(messages, 1, from) \o <<Summarise(stripped, middle)>>
                  \o SubSeq(messages, to + 1, Len(messages))
  IN  IF Tokens(messages) <= Target \/ last <= KeepHead THEN messages
      ELSE IF Tokens(trimmed) <= Target THEN trimmed
      ELSE IF Tokens(stripped) <= Target THEN stripped
      ELSE summed

=============================================================================
