-------------------------------- MODULE Cards --------------------------------
(* The cards a run puts before its human: who decides that a card is shown. *)
(* Three parts have a say.  The nodes that pause compute a card's id and    *)
(* run again from the top on resume (workers/approval_gate.py,              *)
(* agent/recovery_nodes.py, api/ws.py for a question); the emitter drops a  *)
(* repeat (events/emitter.py); the cockpit derives the pending card from    *)
(* the event log and hides what was already answered                        *)
(* (frontend/lib/useAgentRun.ts).                                           *)
(*                                                                          *)
(* A preview is a member of Previews; an id is the value it is computed     *)
(* from.  The events no card depends on are not logged.                     *)
EXTENDS Integers, Sequences, FiniteSets, SequencesExt

CONSTANTS
  Previews,     \* the words the compose window may hold
  Causes,       \* diagnosed causes
  MaxAttempts,  \* MAX_ATTEMPTS_PER_CAUSE
  MaxAsks,      \* bound: times the run pauses
  MaxTurns,     \* bound: turns the model takes
  Reloads       \* bound: times the page is opened again

ASSUME CardConstants ==
  /\ MaxAttempts \in Nat /\ MaxAsks \in Nat /\ MaxTurns \in Nat
  /\ Reloads \in Nat

Kinds == {"question", "approval_request", "options"}

VARIABLES
  pc,        \* work, acting, asked, resumed, over
  pending,   \* the card the run waits on: its kind and id
  window,    \* what the compose window says
  remedied,  \* AgentState.remedied_causes, counted by cause
  tried,     \* how many AgentState.tried_strategies there are
  last,      \* EventEmitter._last
  log,       \* the events a cockpit is sent
  heard,     \* how many of them the page has
  answered,  \* the page's answered ids
  decided,   \* the page's decidedAsk
  asks, turns, reloads

run  == <<pc, pending, window, remedied, tried, asks, turns>>
wire == <<last, log>>
page == <<heard, answered, decided, reloads>>
vars == <<run, wire, page>>

NoCard == [kind |-> "none"]
Card(kind, id) == [kind |-> kind, id |-> id]

Init ==
  /\ pc = "work" /\ pending = NoCard /\ window \in Previews
  /\ remedied = [c \in Causes |-> 0] /\ tried = 0
  /\ last = NoCard /\ log = <<>>
  /\ heard = 0 /\ answered = {} /\ decided = 0
  /\ asks = 0 /\ turns = 0 /\ reloads = 0

-----------------------------------------------------------------------------
(* EventEmitter                                                             *)

\* _emit of an event whose node may run again: a repeat of the last is dropped.
EmitsCard(card) ==
  IF card = last THEN UNCHANGED wire
                 ELSE last' = card /\ log' = Append(log, card)

Emits(kind) == log' = Append(log, [kind |-> kind]) /\ UNCHANGED last

\* A defect: a decision leaves the window for repeats open.
EmitsResultKeepingLast(card) ==
  /\ log' = (IF card = last THEN log ELSE Append(log, card))
              \o <<[kind |-> "approval_result"]>>
  /\ last' = card

\* The resumed gate: the request once more, then the result, which forgets
\* the last card.
EmitsResult(card) ==
  /\ log' = (IF card = last THEN log ELSE Append(log, card))
              \o <<[kind |-> "approval_result"]>>
  /\ last' = NoCard

-----------------------------------------------------------------------------
(* The run                                                                  *)

\* reason: a turn of the model, explained.
Reasons ==
  /\ pc = "work" /\ turns < MaxTurns
  /\ pc' = "acting" /\ turns' = turns + 1
  /\ Emits("reasoning")
  /\ UNCHANGED <<pending, window, remedied, tried, asks, page>>

\* act, of anything that does not pause; typing changes the window.
Acts ==
  /\ pc = "acting" /\ pc' = "work" /\ window' \in Previews
  /\ UNCHANGED <<pending, remedied, tried, asks, turns, wire, page>>

Pauses(card) ==
  /\ asks < MaxAsks /\ asks' = asks + 1
  /\ pc' = "asked" /\ pending' = card
  /\ EmitsCard(card)
  /\ UNCHANGED <<window, remedied, tried, turns, page>>

\* A question: sign-in, a missing slot, AskUser.  The driver names it, with
\* an id of its own each time.
AsksQuestion ==
  pc \in {"work", "acting"} /\ Pauses(Card("question", asks))

\* The approval gate: the id is made of the call and the words.
AsksApproval ==
  pc = "acting" /\ Pauses(Card("approval_request", window))

\* options: the id is made of the cause and of how many remedies were tried.
OptionsId(c) == <<c, tried>>

Exhausted(c) == remedied[c] >= MaxAttempts

\* A failure is diagnosed and its cause not exhausted.
AsksOptions ==
  /\ pc \in {"work", "acting"}
  /\ \E c \in Causes :
       ~Exhausted(c) /\ Pauses(Card("options", OptionsId(c)))

\* The window may change while the run waits: it is a browser a human can
\* type in.
WindowChanges ==
  /\ pc = "asked" /\ pending.kind = "approval_request"
  /\ window' \in Previews \ {window}
  /\ UNCHANGED <<pc, pending, remedied, tried, asks, turns, wire, page>>

\* The wait is over: the answer the run resumes with.
Resolves == pc = "asked" /\ pc' = "resumed"

Expires ==
  /\ Resolves /\ pending.kind = "approval_request"
  /\ UNCHANGED <<pending, window, remedied, tried, asks, turns, wire, page>>

Continues == pc = "resumed" /\ pending' = NoCard

\* driver and ask node: the answer joins the state.
AnswerTaken ==
  /\ Continues /\ pending.kind = "question"
  /\ pc' = "work"
  /\ UNCHANGED <<window, remedied, tried, asks, turns, wire, page>>

\* approval_gate: an approved call goes on to act, any other verdict back to
\* the model; an expired card ends the run.
VerdictTaken ==
  /\ Continues /\ pending.kind = "approval_request"
  /\ EmitsResult(Card("approval_request", window))
  /\ pc' \in {"acting", "work", "ending"}
  /\ UNCHANGED <<window, remedied, tried, asks, turns, page>>

\* A ranked remedy is one more tried strategy; the human's own words are not.
ChoiceTaken ==
  /\ Continues /\ pending.kind = "options"
  /\ LET c == pending.id[1]
     IN  /\ EmitsCard(Card("options", OptionsId(c)))
         /\ \/ /\ remedied' = [remedied EXCEPT ![c] = @ + 1]
               /\ tried' \in {tried, tried + 1}
               /\ pc' = "work"
            \/ pc' = "ending" /\ UNCHANGED <<remedied, tried>>
  /\ UNCHANGED <<window, asks, turns, page>>

\* Finished, failed, raised or stopped: the last event is run_complete.
Ends ==
  /\ pc # "over" /\ pc' = "over" /\ pending' = NoCard
  /\ Emits("run_complete")
  /\ UNCHANGED <<window, remedied, tried, asks, turns, page>>

-----------------------------------------------------------------------------
(* The cockpit                                                              *)

Heard == SubSeq(log, 1, heard)

\* The last event of a kind, unless a later one closed it.
Latest(kind, closers) ==
  LET of(k) == {i \in 1..heard : log[i].kind \in k}
      opens == of({kind})
  IN  IF opens = {} THEN NoCard
      ELSE LET at == CHOOSE i \in opens : \A j \in opens : j <= i
           IN  IF \E i \in of(closers) : i > at THEN NoCard ELSE log[at]

MovedOn == {"reasoning", "run_complete"}
LatestQuestion == Latest("question", MovedOn)
LatestOptions == Latest("options", MovedOn)

\* A defect: only the end of the run closes an approval.
LatestApprovalKept == Latest("approval_request", {"run_complete"})

LatestApproval == Latest("approval_request", {"approval_result", "run_complete"})

\* The ordinal of the pending approval.
Ask == Cardinality({i \in 1..heard : log[i].kind = "approval_request"})

Visible ==
  {c \in {LatestQuestion, LatestOptions} : c # NoCard /\ c \notin answered}
  \cup {c \in {LatestApproval} : c # NoCard /\ Ask > decided}

Hears ==
  /\ heard < Len(log) /\ heard' = heard + 1
  /\ UNCHANGED <<run, wire, answered, decided, reloads>>

\* answer, decide, choose: the card goes at once, and the reply reaches
\* whatever the run is waiting on, or nothing.
Clicks ==
  /\ \E c \in Visible :
       /\ answered' = answered \cup {c}
       /\ decided' = IF c.kind = "approval_request" THEN Ask ELSE decided
  /\ IF pc = "asked" THEN Resolves ELSE UNCHANGED pc
  /\ UNCHANGED <<pending, window, remedied, tried, asks, turns, wire, heard,
                 reloads>>

\* Opened again, the page has lost what it knew and is sent the whole log.
Reload ==
  /\ reloads < Reloads /\ reloads' = reloads + 1
  /\ heard' = 0 /\ answered' = {} /\ decided' = 0
  /\ UNCHANGED <<run, wire>>

Run ==
  \/ Reasons \/ Acts \/ AsksQuestion \/ AsksApproval \/ AsksOptions \/ Expires
  \/ AnswerTaken \/ VerdictTaken \/ ChoiceTaken \/ Ends

Cockpit == Hears \/ Clicks \/ Reload

Next == Run \/ WindowChanges \/ Cockpit

Spec == Init /\ [][Next]_vars

-----------------------------------------------------------------------------
\* The state stays in its types.
TypeOK ==
  /\ pc \in {"work", "acting", "asked", "resumed", "ending", "over"}
  /\ pending = NoCard \/ pending.kind \in Kinds
  /\ window \in Previews
  /\ \A c \in Causes : remedied[c] \in 0..MaxAttempts
  /\ tried \in 0..MaxAsks /\ (last = NoCard \/ last.kind \in Kinds)
  /\ heard \in 0..Len(log) /\ decided \in 0..MaxAsks * 2
  /\ asks \in 0..MaxAsks /\ turns \in 0..MaxTurns /\ reloads \in 0..Reloads

CaughtUp == heard = Len(log)

\* While a run waits for an approval or an answer, a page that has heard
\* everything shows a card to give it with: an approval for an approval, a
\* question for an answer (a reply carries no id, whichever card it is given
\* on).  Neither the emitter's dropping of repeats nor the cockpit's hiding of
\* answered cards swallows a decision somebody is still waited for, also when
\* the gate asks again about words it asked about before (an edit that came
\* back unchanged).
AskedIsSeen ==
  pc = "asked" /\ CaughtUp /\ pending.kind \in {"question", "approval_request"}
    => \E c \in Visible : c.kind = pending.kind

\* The same for the recovery options.
OptionsAreSeen ==
  pc = "asked" /\ CaughtUp /\ pending.kind = "options" => pending \in Visible

\* An approval card does not outlive its decision: a page that has heard
\* everything shows one only while the run waits for a verdict or is taking
\* it, so no later click on it can be read as consent to something else.
NoLeftoverApproval ==
  CaughtUp /\ (\E c \in Visible : c.kind = "approval_request")
    => pc \in {"asked", "resumed"} /\ pending.kind = "approval_request"

=============================================================================
