------------------------------ MODULE LoopGuards ------------------------------
(***************************************************************************)
(* The loop guards of agent/guards.py: the rolling window of recent        *)
(* actions and the questions the worker loop asks of it.  The functions    *)
(* are pure; WorkerLoop keeps the window and acts on the answers.          *)
(*                                                                         *)
(* A signature stands for action_signature's hash of a verb and its        *)
(* arguments: two equal signatures are "the same action again".            *)
(***************************************************************************)
EXTENDS Naturals, Sequences, FiniteSets

CONSTANTS
  RecentWindow,     \* RECENT_WINDOW: how many signatures are remembered
  RepeatKill,       \* REPEAT_KILL_AT
  OscWindow,        \* OSCILLATION_WINDOW
  OscKill           \* OSCILLATION_KILL_AT

ASSUME GuardConstants ==
  /\ RecentWindow \in Nat \ {0}
  /\ RepeatKill \in Nat \ {0}
  /\ OscWindow \in Nat \ {0}
  /\ OscKill \in 2..OscWindow

\* A defect: the window is never trimmed.
PushActionUnbounded(recent, sig) == Append(recent, sig)

\* push_action: append, and drop the oldest once the window is full.
PushAction(recent, sig) ==
  IF Len(recent) < RecentWindow
    THEN Append(recent, sig)
    ELSE Append(Tail(recent), sig)

\* repetition_count: how often this exact action is in the window.
RepetitionCount(recent, sig) ==
  Cardinality({i \in 1..Len(recent) : recent[i] = sig})

\* recent[-OSCILLATION_WINDOW:]
OscillationTail(recent) ==
  LET n == Len(recent)
  IN  SubSeq(recent, IF n > OscWindow THEN n - OscWindow + 1 ELSE 1, n)

\* is_oscillating: a full enough tail over exactly two actions, the last two
\* of which differ.
IsOscillating(recent, atLeast) ==
  LET tail == OscillationTail(recent)
      n    == Len(tail)
  IN  /\ n >= atLeast
      /\ Cardinality({tail[i] : i \in 1..n}) = 2
      /\ tail[n] # tail[n - 1]

=============================================================================
