-------------------------------- MODULE Prompt --------------------------------
(***************************************************************************)
(* What the model is given each turn and what its answer may touch: the    *)
(* observation (Funnel) and the history (Compaction) that reason puts in   *)
(* its prompt, over the turns of one run (workers/loop.py,                 *)
(* workers/approval_gate.py, workers/internal_verbs.py,                    *)
(* agent/recovery_nodes.py).  Guards, verdicts and remedies are those of   *)
(* WorkerLoop; here they matter for the messages they leave behind, which  *)
(* any provider may be asked to read again.                                *)
(***************************************************************************)
EXTENDS Funnel, Compaction

CONSTANTS
  ElementKinds,   \* the elements pages are made of, whatever their id and parent
  MaxElements,    \* bound: elements of the page a run starts on
  MaxIndex,       \* numbers the model may name, listed or not
  MaxMessages,    \* bound: no turn begins with a longer history,
  ElementWeight,  \* where an element of the page counts as this many messages
  Patience        \* bound: remedies the human agrees to

ASSUME PromptConstants ==
  /\ {MaxElements, MaxIndex, MaxMessages, ElementWeight, Patience} \subseteq Nat
  /\ ElementKinds \subseteq Elements

Verbs == {"Click", "Recall", "Send", "Complete"}
Gated == {"Send"}   \* every irreversible call, a click on a Send button too
NoChoice == [verb |-> NoVerb, index |-> 0]

VARIABLES
  pc,           \* the node about to run
  page,         \* what the last observation extracted, and what of it
  numbered,     \* was numbered, listed or not
  known,        \* the vault: the names of people it knows
  observation,  \* AgentState.observation: the list, the count, the field
  geometry,     \* the surface's map from number to place
  messages,     \* AgentState.messages
  choice,       \* AgentState.last_action
  nudges,       \* AgentState.nudge_count
  remedies      \* remedies tried

view == <<page, numbered, known, observation, geometry>>
control == <<choice, nudges, remedies>>
promptVars == <<pc, view, messages, control>>

NothingSeen == [list |-> <<>>, told |-> 0, field |-> 0]

PromptInit ==
  /\ pc = "observe" /\ messages = <<>>
  /\ page = [els |-> {}, field |-> 0] /\ numbered = <<>> /\ known = {}
  /\ observation = NothingSeen /\ geometry = <<>>
  /\ choice = NoChoice /\ nudges = 0 /\ remedies = 0

\* Adds messages of these roles, verbs and sizes to the history.
Adds(new) ==
  messages' = messages \o
    [i \in DOMAIN new |->
       Message(new[i][1], new[i][2], new[i][3], Len(messages) + i)]

-----------------------------------------------------------------------------
\* surface.observe: the list, the map and the vault are made from one page.
Observes(p) ==
  /\ page' = p
  /\ known' = Learnt(page'.els, known)
  /\ numbered' = Numbered(page'.els, known')
  /\ LET listed == Listed(page'.els, numbered')
     IN  /\ observation' =
              [list |-> [i \in listed |-> numbered'[i]],
               told |-> DroppedCount(page'.els, numbered', listed),
               field |-> FieldIndex(numbered', listed, page'.field)]
         /\ geometry' = Dispatchable(numbered', listed)
  /\ pc' = "reason"
  /\ UNCHANGED <<messages, control>>

\* Bound of the instance.
HasRoom == Len(messages) + ElementWeight * Cardinality(page.els) < MaxMessages

\* The prompt's history, this turn.
History == Compact(messages)

\* A hard stop, no explanation, or a second turn without a call.
Stops ==
  /\ pc = "reason"
  /\ pc' = "remedy"
  /\ UNCHANGED <<view, messages, control>>

\* Prose instead of a call: back to reason, without a new look at the page.
Nudged ==
  /\ pc = "reason" /\ nudges < 1 /\ HasRoom
  /\ nudges' = nudges + 1 /\ choice' = NoChoice
  /\ Adds(<<<<"assistant", NoVerb, 2>>, <<"user", NoVerb, 1>>>>)
  /\ UNCHANGED <<pc, view, remedies>>

Chooses(verb, index) ==
  /\ pc = "reason" /\ HasRoom
  /\ choice' = [verb |-> verb, index |-> index]
  /\ Adds(<<<<"assistant", verb, 2>>>>)
  /\ pc' = IF verb \in Gated THEN "gate" ELSE "act"
  /\ UNCHANGED <<view, nudges, remedies>>

\* The verdict is told to the model as a message of the user's.
Approves ==
  /\ pc = "gate"
  /\ Adds(<<<<"user", NoVerb, 1>>>>)
  /\ pc' = "act"
  /\ UNCHANGED <<view, control>>

\* An edit, a question or a rejection: reason decides again.
SendsBack ==
  /\ pc = "gate"
  /\ choice' = NoChoice
  /\ Adds(<<<<"user", NoVerb, 1>>>>)
  /\ pc' = "reason"
  /\ UNCHANGED <<view, nudges, remedies>>

Expires ==
  /\ pc = "gate"
  /\ pc' = "done"
  /\ UNCHANGED <<view, messages, control>>

\* What the surface or the verb itself answers.
Replies(size) == Adds(<<<<"tool", choice.verb, size>>>>)

\* The click goes to the place its number stands for.
Clicks ==
  /\ pc = "act" /\ choice.verb = "Click"
  /\ choice.index \in DOMAIN geometry
  /\ Replies(1) /\ pc' = "observe"
  /\ UNCHANGED <<view, control>>

\* STALE_INDEX: a number that stands for nothing is refused.
Refuses ==
  /\ pc = "act" /\ choice.verb = "Click"
  /\ choice.index \notin DOMAIN geometry
  /\ Replies(1) /\ pc' = "observe"
  /\ UNCHANGED <<view, control>>

\* Recall: everything remembered, at its full length.
Recalls ==
  /\ pc = "act" /\ choice.verb = "Recall"
  /\ Replies(3) /\ pc' = "observe"
  /\ UNCHANGED <<view, control>>

\* A send that is confirmed ends the run; one that failed does not.
Sends ==
  /\ pc = "act" /\ choice.verb = "Send"
  /\ Replies(1) /\ pc' \in {"observe", "done"}
  /\ UNCHANGED <<view, control>>

\* The page can no longer be read, or the surface fails in the action: nothing
\* is added to the history, and no remedy is offered for a surface that is gone.
LosesSurface ==
  /\ \/ pc = "observe"
     \/ pc = "act" /\ choice.verb \in {"Click", "Send"}
  /\ pc' = "done"
  /\ UNCHANGED <<view, messages, control>>

Completes ==
  /\ pc = "act" /\ choice.verb = "Complete"
  /\ Replies(1) /\ pc' \in {"remedy", "done"}
  /\ UNCHANGED <<view, control>>

\* A remedy the human agreed to is a message too.
Remedied ==
  /\ pc = "remedy" /\ remedies < Patience
  /\ remedies' = remedies + 1
  /\ Adds(<<<<"user", NoVerb, 1>>>>)
  /\ pc' = "observe"
  /\ UNCHANGED <<view, choice, nudges>>

GivesUp ==
  /\ pc = "remedy"
  /\ pc' = "done"
  /\ UNCHANGED <<view, messages, control>>

\* Every page of n elements; an element comes after its parent, and the first
\* control in a dialog is the compose field the page script found.
ObservesAny(n) ==
  pc = "observe" /\
  \E kinds \in [1..n -> ElementKinds], parents \in [1..n -> 0..n] :
    /\ \A i \in 1..n : parents[i] < i
    /\ Observes([els |-> {[kinds[i] EXCEPT !.id = i, !.parent = parents[i]] :
                          i \in 1..n},
                 field |-> Min({n + 1} \cup {i \in 1..n : kinds[i].inside
                                                  /\ kinds[i].interactive})])

\* A list is made anew every turn: only the first turns see every page.
PromptNext ==
  \/ \E n \in IF messages = <<>> THEN 0..MaxElements ELSE {0} : ObservesAny(n)
  \/ Stops \/ Nudged
  \/ \E i \in 1..MaxIndex : Chooses("Click", i)
  \/ \E verb \in Verbs \ {"Click"} : Chooses(verb, 0)
  \/ Approves \/ SendsBack \/ Expires
  \/ Clicks \/ Refuses \/ Recalls \/ Sends \/ LosesSurface \/ Completes
  \/ Remedied \/ GivesUp

PromptSpec == PromptInit /\ [][PromptNext]_promptVars

-----------------------------------------------------------------------------
Els == page.els
Indexes == DOMAIN observation.list
InView == Visible(Els)

\* Nothing is dropped silently: what can be acted on is in the list or in the
\* count of what is not, and no word a user can read is lost with a wrapper.
\* (Of an entry the list prints 160 characters and then "..."; a text is whole
\* here, so what that clip costs is outside this property.)
NothingIsLostSilently ==
  pc = "reason" =>
  LET reachable == {e \in InView : e.pointer = "yes"}
      cut == Cardinality(DOMAIN numbered \ Indexes)
  IN  /\ \A e \in reachable :
           /\ e.interactive => \E i \in DOMAIN numbered : numbered[i].id = e.id
           /\ \A w \in e.text :
                \E i \in DOMAIN numbered :
                  {<<"word", w>>, <<"token", w>>} \cap numbered[i].text # {}
      /\ observation.told =
           cut + Cardinality({e \in Els : e.rendered /\ e.place # "in"})

\* While a dialog is open, nothing behind it costs the dialog an element: what
\* is cut of the dialog, the dialog's own elements left no room for.
DialogComesFirst ==
  pc = "reason" =>
  LET inside == {i \in DOMAIN numbered : numbered[i].inside}
  IN  \A i \in inside \ Indexes :
        Spent(numbered, (inside \cap Indexes) \cup {i}) > TokenBudget

\* A person named anywhere on the page is a token wherever the list names
\* them, even where the chip that names them was pruned.
NamesAreTokens ==
  pc = "reason" =>
  \A i \in Indexes, name \in NamesIn(Els) :
    ~({<<"word", w>> : w \in name} \subseteq observation.list[i].text)

\* A number can be dispatched exactly when the model was shown it, and acts on
\* what it was shown for; a compose field is only reported under such a number.
OnlyListedIsTouched ==
  /\ geometry = [i \in Indexes |-> observation.list[i].id]
  /\ observation.field # 0 =>
       observation.field \in Indexes /\ geometry[observation.field] = page.field

\* What a prompt says of the run's work is complete: every call made is in
\* the history it sends, or in the line that stands for the part left out.
WorkIsRemembered ==
  pc = "reason" =>
  LET told == ToSet(History)
  IN  \A m \in ToSet(messages) : IsCall(m) =>
        \E h \in told : (h.at = m.at /\ IsCall(h)) \/ m.at \in h.tells

AnsweredNext(history, i) ==
  /\ i < Len(history)
  /\ history[i + 1].role = "tool" /\ history[i + 1].call = history[i].call

CalledBefore(history, i) == i > 1 /\ IsCall(history[i - 1])
                              /\ history[i - 1].call = history[i].call

\* A call no card was shown for is followed by its result in every history
\* that is sent, and such a result by nothing but its call.
UngatedCallsAreAnswered ==
  pc = "reason" =>
  LET history == History
  IN  \A i \in DOMAIN history : history[i].call \notin Gated =>
        /\ IsCall(history[i]) => AnsweredNext(history, i)
        /\ history[i].role = "tool" => CalledBefore(history, i)

\* Every tool call is followed by its result.
EveryCallIsAnswered ==
  pc = "reason" =>
  LET history == History
  IN  \A i \in DOMAIN history : IsCall(history[i]) => AnsweredNext(history, i)

=============================================================================
