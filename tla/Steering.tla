------------------------------ MODULE Steering -------------------------------
(* Mid-run feedback: what a human says while a run works, from the socket   *)
(* (api/ws.py) through the store (feedback/store.py) into the prompt of a   *)
(* turn (workers/loop.py), whose call of the model may take long, fail, or  *)
(* be made twice (module LlmChain).                                         *)
(*                                                                          *)
(* An entry of the store is told apart by its run, its kind and whether it  *)
(* has been applied; the agent's own assessments, born applied and no human *)
(* words, are left out, as is the text and what is counted from it.         *)
EXTENDS LlmChain, Sequences

CONSTANT MaxSaid   \* bound: entries in the store

Runs == Callers

VARIABLES
  store,    \* InMemoryFeedbackStore: all threads, in order of arrival
  turn,     \* of each run: idle, first, again, failed, over
  prompt,   \* the entries quoted in the prompt of the turn's calls
  shown,    \* history: entries a model was shown
  late      \* history: entries that arrived while their run's call was out

feedbackVars == <<store, turn, prompt, shown, late>>
vars == <<chainVars, feedbackVars>>

\* A rating of a run and a verdict at the gate are verdicts: born applied.
Kinds == {"correction", "verdict"}

Init ==
  /\ ChainInit
  /\ store = <<>> /\ shown = {} /\ late = {}
  /\ turn = [r \in Runs |-> "idle"]
  /\ prompt = [r \in Runs |-> {}]

-----------------------------------------------------------------------------
(* The store                                                                *)

Pending(r) == {i \in DOMAIN store : store[i].run = r /\ ~store[i].applied}

\* A defect: other threads' entries are marked too.
MarksAll(r) == store' = [i \in DOMAIN store |-> [store[i] EXCEPT !.applied = TRUE]]

\* mark_applied: whatever is pending now, shown or not.
Marks(r) ==
  store' = [i \in DOMAIN store |->
              IF i \in Pending(r) THEN [store[i] EXCEPT !.applied = TRUE] ELSE store[i]]

Records(r, kind) ==
  /\ Len(store) < MaxSaid
  /\ store' = Append(store, [run |-> r, kind |-> kind,
                              applied |-> kind # "correction"])
  /\ late' = IF kind = "correction" /\ turn[r] \in {"first", "again"}
               THEN late \cup {Len(store) + 1} ELSE late
  /\ UNCHANGED <<chainVars, turn, prompt, shown>>

\* The cockpit: a correction, or the rating of a whole run; at any time the
\* run is known, finished or not.
Says(r) == Records(r, "correction") \/ Records(r, "verdict")

\* The approval gate files its human's verdict, already acted on.
GateRecords(r) == turn[r] = "idle" /\ Records(r, "verdict")

-----------------------------------------------------------------------------
(* A turn of a run                                                          *)

Turns(r, at) == turn' = [turn EXCEPT ![r] = at]
Hangs(r) ==
  /\ call' = [call EXCEPT ![r] = NoCall] /\ UNCHANGED cooling
  /\ prompt' = [prompt EXCEPT ![r] = {}]

\* A defect: feedback is read until the first of it was shown.
BeginsReadingOnce(r) ==
  /\ turn[r] = "idle" /\ Turns(r, "first")
  /\ prompt' = [prompt EXCEPT ![r] = IF shown = {} THEN Pending(r) ELSE {}]
  /\ Calls(r)
  /\ UNCHANGED <<store, shown, late>>

\* reason: what is pending is quoted in the prompt, and the model is called.
Begins(r) ==
  /\ turn[r] = "idle" /\ Turns(r, "first")
  /\ prompt' = [prompt EXCEPT ![r] = Pending(r)]
  /\ Calls(r)
  /\ UNCHANGED <<store, shown, late>>

Returned(r, at) ==
  /\ turn[r] \in {"first", "again"} /\ call[r].at \in at
  /\ UNCHANGED late

\* An explained answer: what was quoted is applied, and the run goes on or
\* ends with this turn.
Explained(r) ==
  /\ Returned(r, {"answered"})
  /\ shown' = shown \cup prompt[r]
  /\ IF prompt[r] # {} THEN Marks(r) ELSE UNCHANGED store
  /\ Turns(r, "idle") \/ Turns(r, "over")
  /\ Hangs(r)

\* A tool call without a word: the same prompt once more, then a failure that
\* returns before anything is marked.
Unexplained(r) ==
  /\ Returned(r, {"answered"})
  /\ shown' = shown \cup prompt[r]
  /\ \/ turn[r] = "first" /\ Turns(r, "again") /\ Calls(r) /\ UNCHANGED prompt
     \/ turn[r] = "again" /\ Turns(r, "failed") /\ Hangs(r)
  /\ UNCHANGED store

\* No provider answered, or one rejected the request: the run is over.
Raises(r) ==
  /\ Returned(r, {"exhausted", "rejected"})
  /\ Turns(r, "over") /\ Hangs(r)
  /\ UNCHANGED <<store, shown>>

\* A failed turn is remedied, or ends the run.
Recovers(r) ==
  /\ turn[r] = "failed"
  /\ Turns(r, "idle") \/ Turns(r, "over")
  /\ UNCHANGED <<chainVars, store, prompt, shown, late>>

Run(r) == Begins(r) \/ Explained(r) \/ Unexplained(r) \/ Raises(r) \/ Recovers(r)

Chain(r) == (Answers(r) \/ Fails(r) \/ Wakes(r)) /\ UNCHANGED feedbackVars

Next ==
  \/ \E r \in Runs : Says(r) \/ GateRecords(r) \/ Run(r) \/ Chain(r)
  \/ Tick /\ UNCHANGED feedbackVars

\* A request ends, in an HTTP timeout if need be; sleeps end; the loop goes on
\* until its run is over (a card or a question in between is answered, or ends
\* in its timeout).
Spec ==
  /\ Init /\ [][Next]_vars
  /\ WF_vars(Tick /\ UNCHANGED feedbackVars)
  /\ \A r \in Runs : WF_vars(Chain(r)) /\ WF_vars(Run(r))

-----------------------------------------------------------------------------
\* The state stays in its types, cooldowns under their cap.
TypeOK ==
  /\ ChainTypeOK
  /\ store \in Seq([run : Runs, kind : Kinds, applied : BOOLEAN])
  /\ Len(store) <= MaxSaid
  /\ turn \in [Runs -> {"idle", "first", "again", "failed", "over"}]
  /\ prompt \in [Runs -> SUBSET DOMAIN store]
  /\ shown \subseteq DOMAIN store /\ late \subseteq DOMAIN store

Correction(i) == i \in DOMAIN store /\ store[i].kind = "correction"

\* What counts as applied was shown to the model, or came in while the call
\* that applied it was out: no other run's turn, no failed or repeated call and
\* no full chain takes a correction off the list unread.
AppliedWasShownOrLate ==
  \A i \in DOMAIN store :
    Correction(i) /\ store[i].applied => i \in shown \cup late

\* The store's own meaning of applied: the model was shown it.
AppliedWasShown ==
  \A i \in DOMAIN store : Correction(i) /\ store[i].applied => i \in shown

\* A correction given between two turns reaches the model, unless the run ends
\* first: through calls that fail, turns that are taken back, and another
\* run's use of the same store and providers.
CorrectionsAreHeard ==
  \A i \in 1..MaxSaid :
    Correction(i) /\ i \notin late
      ~> i \in shown \/ (Correction(i) /\ turn[store[i].run] = "over")

\* A turn's call of the model comes to an end, with every provider benched,
\* failing for ever or benched by another run meanwhile.
TurnsEnd ==
  \A r \in Runs : turn[r] \in {"first", "again"} ~> turn[r] \in {"idle", "failed", "over"}

=============================================================================
