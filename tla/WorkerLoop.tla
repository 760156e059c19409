------------------------------ MODULE WorkerLoop ------------------------------
(***************************************************************************)
(* One run of the manager graph from dispatch to finalize: the loop        *)
(* observe -> reason -> (approval gate) -> act, and the recovery layer     *)
(* verify -> diagnose -> options that a finished or failed loop goes       *)
(* through (agent/graph.py, agent/routing.py, workers/loop.py,             *)
(* workers/approval_gate.py, workers/internal_verbs.py,                    *)
(* agent/recovery_nodes.py), over a mail surface whose compose window      *)
(* holds one draft (surface/playwright_surface.py, surface/dispatch.py).   *)
(*                                                                         *)
(* One action is one node of the graph, split at its interrupts: LangGraph *)
(* stops a node there and, on resume, runs it again from the top.  The     *)
(* model's choice of tool, the page and the human are nondeterministic.    *)
(***************************************************************************)
EXTENDS LoopGuards

CONSTANTS
  MaxSteps,         \* settings.max_steps: the step budget of a run
  StuckKill,        \* STUCK_KILL_AT
  MaxSigninAsks,    \* MAX_SIGNIN_ASKS
  MaxAttempts,      \* MAX_ATTEMPTS_PER_CAUSE
  Strategies,       \* the curated remediation strategies
  Patience,         \* how many remedies the human tries before giving up
  Drafts,           \* the possible contents of the compose window
  NoDraft,          \* no compose window is open: every field reads empty
  Unreadable,       \* the fields could not be read: preview's fixed text
  Picks,            \* the verbs the model picks in this instance
  Bound,            \* the verbs this run's worker is allowed to use
  LiveEdits,        \* the human may type in the compose window themselves
  FlakyReads        \* reading the compose fields may fail

Surface == {"Type", "Scroll", "Send"}
Internal == {"CompleteOk", "CompleteFail", "Remember", "AskUser"}
Verbs == Surface \cup Internal
NoAction == "none"

ASSUME LoopConstants ==
  /\ MaxSteps \in Nat \ {0}
  /\ StuckKill \in Nat \ {0}
  /\ MaxSigninAsks \in Nat \ {0}
  /\ MaxAttempts \in Nat \ {0}
  /\ Patience \in Nat
  /\ NoDraft \notin Drafts
  /\ Unreadable \notin Drafts \cup {NoDraft}
  /\ Picks \subseteq Verbs /\ Bound \subseteq Verbs
  /\ LiveEdits \in BOOLEAN /\ FlakyReads \in BOOLEAN

\* is_irreversible: Send stands for every gated verb, and for a click or a
\* key press on a control that sends or destroys.
Irreversible == {"Send"}

\* is_repetition_candidate: every verb except those meant to repeat.
Committing == Verbs \ {"Scroll"}

Contents == Drafts \cup {NoDraft}
Readings == Contents \cup {Unreadable}
Views == {"inbox", "compose", "sent"}

Codes == {"STUCK", "MAX_STEPS", "REASONING_MISSING", "NO_ACTION",
          "APPROVAL_TIMEOUT", "SEND_UNVERIFIED", "SURFACE_UNAVAILABLE",
          "NOT_SIGNED_IN"}
NoCode == "no code"
Causes == {"overlay_blocking", "target_moved", "off_screen", "slow_render",
           "stale_view", "model_degraded", "surface_gone", "not_signed_in",
           "budget_spent", "human_blocked", "unknown"}

Nodes == {"observe", "reason", "approval", "act", "dispatching", "verify",
          "diagnose", "options", "finalize"}
Waiting == {"ask_signin", "ask_verdict", "ask_user", "ask_option"}
Ended == {"end", "raised"}

VARIABLES
  pc,            \* the node about to run, or the human being waited for
  status, finished, success, errorCode,      \* AgentState: control
  step, nudges, stuck, recent,               \* AgentState: guards
  lastAction, lastResult,                    \* AgentState: the turn
  seen, view,                                \* AgentState.observation
  mail,          \* the intent is send_email or reply
  asks,          \* sign-in interrupts answered in this observe
  cause,         \* the diagnosis options are being offered for
  remedied, tried,                           \* AgentState: what was remedied
  patience,      \* remedies the human is still willing to try
  draft,         \* the live compose window
  approved,      \* the surface's approved fingerprints
  shown,         \* the preview on the pending approval card
  chosenAt, verdictAt, consented, sent, confirmed, rested   \* history

control == <<status, finished, success, errorCode>>
guards == <<step, nudges, stuck, recent>>
turn == <<lastAction, lastResult>>
page == <<seen, view>>
recovery == <<cause, remedied, tried, patience>>
surface == <<draft, approved, shown>>
history == <<chosenAt, verdictAt, consented, sent, confirmed, rested>>
vars == <<pc, control, guards, turn, page, mail, asks, recovery, surface,
          history>>

-----------------------------------------------------------------------------
Init ==
  /\ pc = "observe"
  /\ status = "running" /\ finished = FALSE /\ success = "unset"
  /\ errorCode = NoCode
  /\ step = 0 /\ nudges = 0 /\ stuck = 0 /\ recent = <<>>
  /\ lastAction = NoAction /\ lastResult = "none"
  /\ seen = FALSE /\ view = "inbox"
  /\ mail \in BOOLEAN
  /\ asks = 0
  /\ cause = "none" /\ remedied = [c \in Causes |-> 0] /\ tried = {}
  /\ patience = Patience
  /\ draft = NoDraft /\ approved = {} /\ shown = NoDraft
  /\ chosenAt = 0 /\ verdictAt = 0 /\ consented = {} /\ sent = <<>>
  /\ confirmed = FALSE /\ rested = FALSE

\* A node ends the run with a typed failure.
Fail(code) ==
  /\ status' = "failed" /\ finished' = TRUE /\ success' = "no"
  /\ errorCode' = code

Terminal == status \in {"done", "failed"}

(* routing.py: the edge out of each node, decided on the state it left. *)
RouteAfterObserve == pc' = IF Terminal' THEN "verify" ELSE "reason"

\* A defect of the router: an approval once given lets the verb pass again.
RouteAfterReasonTrusting ==
  pc' = IF Terminal' \/ finished' THEN "verify"
        ELSE IF lastAction' = NoAction THEN "reason"
        ELSE IF lastAction' \in Irreversible /\ approved = {} THEN "approval"
        ELSE "act"

RouteAfterReason ==
  pc' = IF Terminal' \/ finished' THEN "verify"
        ELSE IF lastAction' = NoAction THEN "reason"
        ELSE IF lastAction' \in Irreversible THEN "approval"
        ELSE "act"

RouteAfterApproval ==
  pc' = IF Terminal' \/ finished' THEN "finalize"
        ELSE IF lastAction' # NoAction THEN "act"
        ELSE "reason"

RouteAfterAct == pc' = IF finished' \/ Terminal' THEN "verify" ELSE "observe"

RouteAfterVerify == pc' = IF success' = "yes" THEN "finalize" ELSE "diagnose"

RouteAfterDiagnose == pc' = IF finished' THEN "finalize" ELSE "options"

RouteAfterOptions ==
  pc' = IF finished' \/ Terminal' THEN "finalize" ELSE "observe"

-----------------------------------------------------------------------------
(* observe.  A login wall interrupts; the resumed node looks again.        *)

\* The page could be read and is signed in.  The page counts as unchanged
\* only after an action was attempted.
See(v, changed) ==
  LET unchanged == seen /\ ~changed /\ lastAction # NoAction
  IN  /\ (seen /\ ~changed) => v = view
      /\ seen' = TRUE /\ view' = v /\ asks' = 0
      /\ stuck' = IF unchanged THEN stuck + 1 ELSE 0
      /\ UNCHANGED <<control, step, nudges, recent, turn, mail, recovery,
                     surface, history>>
      /\ RouteAfterObserve

Observe ==
  /\ pc \in {"observe", "ask_signin"}
  /\ \E v \in Views, changed \in BOOLEAN : See(v, changed)

ObserveSurfaceGone ==
  /\ pc \in {"observe", "ask_signin"}
  /\ Fail("SURFACE_UNAVAILABLE")
  /\ RouteAfterObserve /\ asks' = 0
  /\ UNCHANGED <<guards, turn, page, mail, recovery, surface, history>>

\* Signed out: ask, unless this observe already asked often enough.
ObserveSignedOut ==
  /\ \/ pc = "observe" /\ asks' = 0
     \/ pc = "ask_signin" /\ asks' = asks + 1
  /\ asks' < MaxSigninAsks
  /\ pc' = "ask_signin"
  /\ UNCHANGED <<control, guards, turn, page, mail, recovery, surface,
                 history>>

ObserveStillSignedOut ==
  /\ pc = "ask_signin"
  /\ asks + 1 >= MaxSigninAsks
  /\ Fail("NOT_SIGNED_IN")
  /\ RouteAfterObserve /\ asks' = 0 /\ seen' = TRUE /\ view' = "signed_out"
  /\ UNCHANGED <<guards, turn, mail, recovery, surface, history>>

-----------------------------------------------------------------------------
(* reason.  The hard stops come before the model is called.                *)

IsStuck == stuck >= StuckKill

Repeats ==
  IF recent = <<>> THEN 0 ELSE RepetitionCount(recent, recent[Len(recent)])

IsRepeating == lastAction \in Committing /\ Repeats >= RepeatKill

IsAlternating == IsOscillating(recent, OscKill)

OutOfSteps == step >= MaxSteps

HardStop == IsStuck \/ IsRepeating \/ IsAlternating \/ OutOfSteps

ReasonStops ==
  /\ pc = "reason" /\ HardStop
  /\ Fail(IF IsStuck \/ IsRepeating \/ IsAlternating THEN "STUCK"
                                                      ELSE "MAX_STEPS")
  /\ UNCHANGED <<guards, turn, page, mail, asks, recovery, surface, history>>
  /\ RouteAfterReason

\* The model is called: whatever was cleared by a remedy has had its turn.
Think ==
  /\ pc = "reason" /\ ~HardStop
  /\ rested' = FALSE
  /\ UNCHANGED <<stuck, recent, lastResult, page, mail, asks, recovery,
                 surface, verdictAt, consented, sent, confirmed>>

\* Every provider refused: the exception leaves the graph.
ReasonRaises ==
  /\ Think
  /\ pc' = "raised"
  /\ UNCHANGED <<control, step, nudges, lastAction, chosenAt>>

\* A tool call without a word of explanation, twice.
ReasonUnexplained ==
  /\ Think
  /\ Fail("REASONING_MISSING")
  /\ UNCHANGED <<step, nudges, lastAction, chosenAt>>
  /\ RouteAfterReason

\* A defect of the nudge: it leaves the previous choice in place.
ReasonNudgedStale ==
  /\ Think
  /\ nudges < 1
  /\ nudges' = nudges + 1 /\ step' = step + 1
  /\ UNCHANGED <<control, lastAction, chosenAt>>
  /\ RouteAfterReason

\* No tool call: nudged once per run, which clears the previous choice.
ReasonNudged ==
  /\ Think
  /\ nudges < 1
  /\ nudges' = nudges + 1 /\ step' = step + 1
  /\ lastAction' = NoAction
  /\ UNCHANGED <<control, chosenAt>>
  /\ RouteAfterReason

ReasonNoAction ==
  /\ Think
  /\ nudges >= 1
  /\ Fail("NO_ACTION")
  /\ UNCHANGED <<step, nudges, lastAction, chosenAt>>
  /\ RouteAfterReason

\* A defect: the turn is not counted.
ReasonChoosesFree(verb) ==
  /\ Think
  /\ lastAction' = verb /\ chosenAt' = step + 1
  /\ UNCHANGED <<control, step, nudges>>
  /\ RouteAfterReason

ReasonChooses(verb) ==
  /\ Think
  /\ lastAction' = verb /\ step' = step + 1 /\ chosenAt' = step + 1
  /\ UNCHANGED <<control, nudges>>
  /\ RouteAfterReason

Reason ==
  \/ ReasonStops \/ ReasonRaises \/ ReasonUnexplained
  \/ ReasonNudged \/ ReasonNoAction
  \/ \E verb \in Picks : ReasonChooses(verb)

-----------------------------------------------------------------------------
(* approval_gate.  The card shows a reading of the live compose window;    *)
(* the node runs again from the top when the human answers, so the window  *)
(* is read a second time and it is that reading that is approved.  A card  *)
(* whose fields could not be read sends the human to the window itself.    *)

\* preview: the live fields, or its fixed text when they cannot be read.
Reads == {draft} \cup (IF FlakyReads THEN {Unreadable} ELSE {})

\* approval_fingerprint: the verb and the preview.  Send is the one verb.
Fingerprint(verb, preview) == <<verb, preview>>

GatePresent ==
  /\ pc = "approval"
  /\ \E preview \in Reads : shown' = preview
  /\ pc' = "ask_verdict"
  /\ UNCHANGED <<control, guards, turn, page, mail, asks, recovery, draft,
                 approved, history>>

GateApproved ==
  /\ pc = "ask_verdict"
  /\ \E preview \in Reads :
       approved' = approved \cup {Fingerprint(lastAction, preview)}
  /\ consented' = consented \cup {shown}
                    \cup (IF shown = Unreadable THEN {draft} ELSE {})
  /\ shown' = NoDraft
  /\ verdictAt' = step
  /\ UNCHANGED <<control, guards, turn, page, mail, asks, recovery, draft,
                 chosenAt, sent, confirmed, rested>>
  /\ RouteAfterApproval

\* A defect: an edit taken for an approval of what the window holds.
GateDeclinedAsConsent ==
  /\ pc = "ask_verdict"
  /\ approved' = approved \cup {Fingerprint(lastAction, draft)}
  /\ shown' = NoDraft
  /\ UNCHANGED <<control, guards, turn, page, mail, asks, recovery, draft,
                 history>>
  /\ RouteAfterApproval

\* An edit, a question or a rejection: nothing is dispatched and the loop
\* decides again.
GateDeclined ==
  /\ pc = "ask_verdict"
  /\ lastAction' = NoAction /\ shown' = NoDraft
  /\ UNCHANGED <<control, guards, lastResult, page, mail, asks, recovery,
                 draft, approved, history>>
  /\ RouteAfterApproval

\* The browser went away while the draft was being read: not caught here.
GateRaises ==
  /\ pc \in {"approval", "ask_verdict"}
  /\ pc' = "raised"
  /\ UNCHANGED <<control, guards, turn, page, mail, asks, recovery, surface,
                 history>>

\* The transport's deadline passed with no answer.
GateExpired ==
  /\ pc = "ask_verdict"
  /\ Fail("APPROVAL_TIMEOUT") /\ shown' = NoDraft
  /\ UNCHANGED <<guards, turn, page, mail, asks, recovery, draft, approved,
                 history>>
  /\ RouteAfterApproval

-----------------------------------------------------------------------------
(* act                                                                     *)

Recorded == recent' = PushAction(recent, lastAction)

\* The worker's own tool set is checked before anything else.
ActUnbound ==
  /\ pc = "act"
  /\ lastAction \notin Bound
  /\ Recorded /\ lastResult' = "failed"
  /\ UNCHANGED <<control, step, nudges, stuck, lastAction, page, mail, asks,
                 recovery, surface, history>>
  /\ RouteAfterAct

ActComplete ==
  /\ pc = "act"
  /\ lastAction \in Bound \cap {"CompleteOk", "CompleteFail"}
  /\ Recorded
  /\ finished' = TRUE
  /\ IF lastAction = "CompleteOk"
       THEN success' = "yes" /\ status' = "done"
       ELSE success' = "no" /\ status' = "failed"
  /\ UNCHANGED <<errorCode, step, nudges, stuck, turn, page, mail, asks,
                 recovery, surface, history>>
  /\ RouteAfterAct

ActRemember ==
  /\ pc = "act"
  /\ lastAction \in Bound \cap {"Remember"}
  /\ Recorded
  /\ UNCHANGED <<control, step, nudges, stuck, turn, page, mail, asks,
                 recovery, surface, history>>
  /\ RouteAfterAct

ActAsk ==
  /\ pc = "act"
  /\ lastAction \in Bound \cap {"AskUser"}
  /\ pc' = "ask_user"
  /\ UNCHANGED <<control, guards, turn, page, mail, asks, recovery, surface,
                 history>>

ActAnswered ==
  /\ pc = "ask_user"
  /\ Recorded
  /\ status' = "running"
  /\ UNCHANGED <<finished, success, errorCode, step, nudges, stuck, turn,
                 page, mail, asks, recovery, surface, history>>
  /\ RouteAfterAct

\* ActionValidator: an irreversible call needs an approval of what the
\* compose window says now.
Admits(verb, preview) ==
  verb \in Irreversible => Fingerprint(verb, preview) \in approved

\* An index is looked up once the words are approved, of any verb that carries
\* one; a recipient or a second window is refused as wrong words are.
ActRefused ==
  /\ pc = "act"
  /\ lastAction \in Bound \cap Surface
  /\ \/ lastResult' = "failed"
     \/ /\ \E preview \in Reads : Admits(lastAction, preview)
        /\ lastResult' = "stale"
  /\ Recorded
  /\ UNCHANGED <<control, step, nudges, stuck, lastAction, page, mail, asks,
                 recovery, surface, history>>
  /\ RouteAfterAct

ActAdmitted ==
  /\ pc = "act"
  /\ lastAction \in Bound \cap Surface
  /\ \E preview \in Reads : Admits(lastAction, preview)
  /\ pc' = "dispatching"
  /\ UNCHANGED <<control, guards, turn, page, mail, asks, recovery, surface,
                 history>>

\* What the verb does to the mailbox, if it gets that far.
Takes(effect) ==
  \/ /\ effect /\ lastAction = "Send" /\ draft # NoDraft
     /\ sent' = Append(sent, draft) /\ draft' = NoDraft
  \/ /\ effect /\ lastAction = "Type"
     /\ draft' \in Drafts /\ UNCHANGED sent
  \/ /\ ~effect \/ lastAction \notin {"Send", "Type"}
        \/ (lastAction = "Send" /\ draft = NoDraft)
     /\ UNCHANGED <<sent, draft>>

\* A success is reported only of a verb that took effect; a failure or the
\* action wall can hide an effect that was on its way.
Dispatched(effect, result) ==
  /\ pc = "dispatching"
  /\ result = "ok" => effect
  /\ Takes(effect)
  /\ Recorded
  /\ lastResult' = result
  /\ UNCHANGED <<errorCode, step, nudges, stuck, lastAction, page, mail,
                 asks, recovery, approved, shown, chosenAt, verdictAt,
                 consented, rested>>

ActPerformed(effect, result) ==
  /\ Dispatched(effect, result)
  /\ ~(result = "ok" /\ lastAction \in Irreversible)
  /\ UNCHANGED <<status, finished, success, confirmed>>
  /\ RouteAfterAct

\* An irreversible action that reported success ends the run.
ActConfirmed ==
  /\ Dispatched(TRUE, "ok")
  /\ lastAction \in Irreversible
  /\ status' = "done" /\ finished' = TRUE /\ success' = "yes"
  /\ confirmed' = TRUE
  /\ RouteAfterAct

ActSurfaceGone(effect) ==
  /\ pc = "dispatching"
  /\ Takes(effect)
  /\ Recorded
  /\ Fail("SURFACE_UNAVAILABLE")
  /\ UNCHANGED <<step, nudges, stuck, turn, page, mail, asks, recovery,
                 approved, shown, chosenAt, verdictAt, consented, confirmed,
                 rested>>
  /\ RouteAfterAct

Act ==
  \/ ActUnbound \/ ActComplete \/ ActRemember \/ ActAsk
  \/ ActRefused \/ ActAdmitted \/ ActConfirmed
  \/ \E effect \in BOOLEAN :
       \/ ActSurfaceGone(effect)
       \/ \E result \in {"ok", "failed", "timeout"} :
            ActPerformed(effect, result)

-----------------------------------------------------------------------------
(* verify, diagnose, options, finalize                                     *)

VerifyFailed ==
  /\ pc = "verify"
  /\ errorCode # NoCode \/ status = "failed" \/ success = "no"
  /\ success' = "no"
  /\ UNCHANGED <<status, finished, errorCode, guards, turn, page, mail, asks,
                 recovery, surface, history>>
  /\ RouteAfterVerify

\* A defect: the verdict rests on the view alone.
DirectEvidenceIgnored == FALSE

\* The executor watched an irreversible action land: the view, which is from
\* before the action, does not overturn that.
DirectEvidence == lastResult = "ok" /\ lastAction \in Irreversible

\* Otherwise a mail intent must have left the compose view.
Unconfirmed == mail /\ view \notin {"sent", "inbox"}

VerifyUnconfirmed ==
  /\ pc = "verify"
  /\ errorCode = NoCode /\ status # "failed" /\ success # "no"
  /\ ~DirectEvidence /\ Unconfirmed
  /\ status' = "failed" /\ success' = "no"
  /\ errorCode' = "SEND_UNVERIFIED"
  /\ UNCHANGED <<finished, guards, turn, page, mail, asks, recovery, surface,
                 history>>
  /\ RouteAfterVerify

VerifyPassed ==
  /\ pc = "verify"
  /\ errorCode = NoCode /\ status # "failed" /\ success # "no"
  /\ DirectEvidence \/ ~Unconfirmed
  /\ status' = "done" /\ success' = "yes"
  /\ UNCHANGED <<finished, errorCode, guards, turn, page, mail, asks,
                 recovery, surface, history>>
  /\ RouteAfterVerify

Verify == VerifyFailed \/ VerifyUnconfirmed \/ VerifyPassed

\* classify: the error code, then the last result, then the page.
CodeCause == [SURFACE_UNAVAILABLE |-> "surface_gone",
              NOT_SIGNED_IN       |-> "not_signed_in",
              APPROVAL_TIMEOUT    |-> "human_blocked",
              REASONING_MISSING   |-> "model_degraded",
              MAX_STEPS           |-> "budget_spent"]
ResultCause == [stale |-> "stale_view", timeout |-> "slow_render"]
LateCause == [STUCK |-> "target_moved", NO_ACTION |-> "model_degraded",
              SEND_UNVERIFIED |-> "unknown"]

PossibleCauses ==
  IF errorCode \in DOMAIN CodeCause THEN {CodeCause[errorCode]}
  ELSE IF lastResult \in DOMAIN ResultCause THEN {ResultCause[lastResult]}
  ELSE (IF stuck >= 1 THEN {"off_screen"} ELSE {})
       \cup (IF stuck >= 2 THEN {"overlay_blocking", "target_moved"}
             ELSE IF errorCode \in DOMAIN LateCause THEN {LateCause[errorCode]}
             ELSE {"unknown"})

\* A defect: one remedy too many.
ExhaustedLate(c) == remedied[c] > MaxAttempts

\* CuratedSkillRegistry.exhausted
Exhausted(c) == remedied[c] >= MaxAttempts

Diagnose ==
  /\ pc = "diagnose"
  /\ \E c \in PossibleCauses :
       /\ \/ /\ Exhausted(c)
             /\ Fail(IF errorCode = NoCode THEN "STUCK" ELSE errorCode)
             /\ UNCHANGED cause
          \/ /\ ~Exhausted(c) /\ c = "surface_gone"
             /\ Fail("SURFACE_UNAVAILABLE")
             /\ UNCHANGED cause
          \/ /\ ~Exhausted(c) /\ c # "surface_gone"
             /\ finished' = FALSE
             /\ UNCHANGED <<status, success, errorCode>>
             /\ cause' = c
  /\ UNCHANGED <<guards, turn, page, mail, asks, remedied, tried, patience,
                 surface, history>>
  /\ RouteAfterDiagnose

Options ==
  /\ pc = "options"
  /\ pc' = "ask_option"
  /\ UNCHANGED <<control, guards, turn, page, mail, asks, recovery, surface,
                 history>>

\* A defect: the finished flag survives the remedy.
ResumesFinished ==
  /\ pc = "ask_option"
  /\ patience > 0 /\ patience' = patience - 1
  /\ remedied' = [remedied EXCEPT ![cause] = @ + 1] /\ cause' = "none"
  /\ status' = "running" /\ finished' = TRUE /\ success' = "unset"
  /\ errorCode' = NoCode
  /\ stuck' = 0 /\ recent' = <<>>
  /\ rested' = TRUE
  /\ UNCHANGED <<step, nudges, turn, page, mail, asks, surface,
                 chosenAt, verdictAt, consented, sent, confirmed>>
  /\ RouteAfterOptions

\* A remedy clears the terminal state and the guards that count actions.
Resumes ==
  /\ pc = "ask_option"
  /\ patience > 0 /\ patience' = patience - 1
  /\ remedied' = [remedied EXCEPT ![cause] = @ + 1] /\ cause' = "none"
  /\ status' = "running" /\ finished' = FALSE /\ success' = "unset"
  /\ errorCode' = NoCode
  /\ stuck' = 0 /\ recent' = <<>>
  /\ rested' = TRUE
  /\ UNCHANGED <<step, nudges, turn, page, mail, asks, surface,
                 chosenAt, verdictAt, consented, sent, confirmed>>
  /\ RouteAfterOptions

\* A ranked strategy not tried before in this run.
OptionsRanked ==
  /\ Resumes
  /\ \E s \in Strategies \ tried : tried' = tried \cup {s}

\* The human's own words.
OptionsFreeform ==
  /\ Resumes
  /\ UNCHANGED tried

\* The free-form slot, with nothing written in it.
OptionsGiveUp ==
  /\ pc = "ask_option"
  /\ finished' = TRUE /\ success' = "no" /\ status' = "failed"
  /\ cause' = "none"
  /\ UNCHANGED <<errorCode, guards, turn, page, mail, asks, remedied, tried,
                 patience, surface, history>>
  /\ RouteAfterOptions

Finalize ==
  /\ pc = "finalize"
  /\ finished' = TRUE
  /\ IF Terminal THEN UNCHANGED <<status, success>>
                 ELSE status' = "done" /\ success' = "yes"
  /\ pc' = "end"
  /\ UNCHANGED <<errorCode, guards, turn, page, mail, asks, recovery, surface,
                 history>>

-----------------------------------------------------------------------------
(* The human's own hands: the browser is a real window they can type in.   *)
HumanTypes ==
  /\ LiveEdits
  /\ pc \notin Ended
  /\ draft # NoDraft
  /\ \E d \in Drafts : draft' = d /\ consented' = consented \cup {d}
  /\ UNCHANGED <<pc, control, guards, turn, page, mail, asks, recovery,
                 approved, shown, chosenAt, verdictAt, sent, confirmed, rested>>

Machine ==
  \/ Reason \/ GatePresent \/ Act \/ Verify \/ Diagnose \/ Options \/ Finalize
  \/ GateExpired \/ GateRaises
  \/ pc = "observe" /\ (Observe \/ ObserveSurfaceGone \/ ObserveSignedOut)

Human ==
  \/ pc = "ask_signin" /\ (Observe \/ ObserveSurfaceGone \/ ObserveSignedOut)
  \/ ObserveStillSignedOut
  \/ GateApproved \/ GateDeclined \/ ActAnswered
  \/ OptionsRanked \/ OptionsFreeform \/ OptionsGiveUp
  \/ HumanTypes

Next == Machine \/ Human

\* The event loop keeps running the graph; nobody makes the human answer.
\* The approval deadline is part of the machine: the driver arms it.
Spec == Init /\ [][Next]_vars /\ WF_vars(Machine)

-----------------------------------------------------------------------------
\* The state stays in its types (all of WorkerLoop: AgentState and the surface).
TypeOK ==
  /\ pc \in Nodes \cup Waiting \cup Ended
  /\ status \in {"running", "done", "failed"} /\ finished \in BOOLEAN
  /\ success \in {"unset", "yes", "no"} /\ errorCode \in Codes \cup {NoCode}
  /\ step \in 0..MaxSteps /\ nudges \in 0..1 /\ stuck \in Nat
  /\ recent \in Seq(Verbs) /\ Len(recent) <= RecentWindow
  /\ lastAction \in Verbs \cup {NoAction}
  /\ lastResult \in {"none", "ok", "failed", "timeout", "stale"}
  /\ seen \in BOOLEAN /\ view \in Views \cup {"signed_out"}
  /\ mail \in BOOLEAN /\ asks \in Nat
  /\ cause \in Causes \cup {"none"} /\ remedied \in [Causes -> Nat]
  /\ tried \subseteq Strategies /\ patience \in 0..Patience
  /\ draft \in Contents /\ shown \in Readings
  /\ approved \subseteq Verbs \X Readings
  /\ chosenAt \in 0..MaxSteps /\ verdictAt \in 0..MaxSteps
  /\ consented \subseteq Readings /\ sent \in Seq(Drafts)
  /\ confirmed \in BOOLEAN /\ rested \in BOOLEAN

\* An action is carried out only in the turn that chose it: no node between
\* reason and act ever works on the choice of an earlier turn (the router's
\* guard for the nudge path, and the gate clearing a declined call).
ActsOnItsChoice ==
  pc \in {"approval", "ask_verdict", "act", "ask_user", "dispatching"}
    => chosenAt = step /\ lastAction # NoAction

\* The surface starts an irreversible action only when a human approved it in
\* the same turn.  The surface's own lock is weaker: it keeps every
\* fingerprint ever approved, so an unchanged draft stays approved.
ConsentIsFresh ==
  pc = "dispatching" /\ lastAction \in Irreversible => verdictAt = step

\* Whatever left the mailbox is something a human stands behind with exactly
\* those words: approved on a card, or in the window the card sent them to, or
\* typed by themselves.
SentWasRead == \A i \in 1..Len(sent) : sent[i] \in consented

\* What the gate authorises is what the card showed.
ApprovedWasShown == [][\A fp \in approved' \ approved : fp[2] = shown]_vars

\* Once the surface confirmed an irreversible action the run only wraps up,
\* as a success: verify may not overturn it with the older view.
NothingAfterConfirmation ==
  confirmed => /\ pc \in {"verify", "finalize", "end"}
               /\ status = "done" /\ success = "yes"

\* A confirmed send really put something in the outbox.
ConfirmedWasSent == confirmed => sent # <<>>

\* What the run reports is one story: done means success, with no code, of a
\* run the model completed or the surface confirmed; failed means no success.
OutcomeConsistent ==
  pc = "end" => \/ /\ status = "done" /\ success = "yes" /\ errorCode = NoCode
                   /\ confirmed \/ lastAction = "CompleteOk"
                \/ status = "failed" /\ success = "no"

\* No cause is remedied more often than the registry allows.
RemediesBounded == \A c \in Causes : remedied[c] <= MaxAttempts

\* A run that was given a remedy is not killed by a guard before the model
\* has had its turn with it.
RemedyGetsATurn ==
  rested /\ pc = "verify" => errorCode \notin {"STUCK", "MAX_STEPS"}

\* Left to itself the loop comes to rest: the run ends, or it waits for a
\* question only the human can answer.  A pending approval is not such a
\* question, it expires.
ComesToRest == <>[](pc \in Ended \cup (Waiting \ {"ask_verdict"}))

=============================================================================
