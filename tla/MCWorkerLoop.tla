----------------------------- MODULE MCWorkerLoop -----------------------------
(* Small instances of WorkerLoop for TLC.  The kill thresholds are lowered  *)
(* with the step budget, so that each of them is reached.                   *)
EXTENDS WorkerLoop, TLC

CONSTANTS d1, d2, closed, unread, s1

MCDrafts == {d1, d2}
OneDraft == {d1}
AnyDraft == Permutations(MCDrafts)
MCStrategies == {s1}
AllVerbs == Verbs
Mailing == {"Type", "Send", "Remember", "CompleteOk"}
ReadOnly == {"Scroll", "CompleteFail", "AskUser"}
Recovering == ReadOnly \cup {"Send"}

=============================================================================
