# A TLA+ model of inbox_autopilot

inbox_autopilot lets a language model drive a Gmail window on a person's behalf. A
run is a LangGraph graph in the backend; it works on a browser, either one the
backend launched or the person's own Chrome through an extension; a cockpit in
another browser tab shows what it does, asks the person questions and puts every
irreversible action on an approval card. This directory holds TLA+ modules for the
parts of that program where order, concurrency and failure decide whether it is
correct, the TLC runs that check them on small instances, and proofs of most of the
safety properties and of both refinements for every value of the constants.

Run a check with `tlc -workers 2 -config <cfg> <module>`, the proofs with
`tlapm <module>_proofs.tla`. `PROJECT.json` lists components, runs, the mutation
that breaks each property, the source lines each definition stands for, hazards,
findings and theorems. `app/` below is `src/backend/app/`, `ext/` is
`src/bridge-extension/src/`.

## 1. Inventory

| Component | State it keeps | Operations | Hard part | Correct when |
|---|---|---|---|---|
| Agent loop: `app/workers/loop.py`, `agent/guards.py`, `agent/state.py`, `agent/routing.py` | `AgentState` in the graph's checkpoint: step and stuck counters, recent actions, the choice of the turn, status | observe, reason, act, their routes | every node may end the run, repeat or hand on a stale choice; nodes run again from the top after an interrupt | acts only on this turn's choice; always comes to rest |
| Approval: `workers/approval_gate.py`, `workers/irreversible.py`, `surface/dispatch.py` | pending card; fingerprints the surface approved | present, approve, decline, edit, expire | the draft may change between card, verdict and dispatch | nothing leaves that a person does not stand behind |
| Recovery: `agent/recovery_nodes.py`, `recovery/*` | attempts per cause, strategies tried | verify, diagnose, options | must undo exactly what ended the run | bounded remedies, one consistent outcome |
| Manager graph: `manager/*`, `agent/graph.py`, `workers/registry.py` | intent, answers, question, ask count, route | intake, gate, ask, router, planner, writer, dispatch, finalize | free answers folded into an intent by rules | nothing starts incomplete; a person's words survive re-reading |
| Rules worker: `workers/rules_worker.py`, `rules/store.py` | items handled, stalls | one turn per matching row | the list moves under it | ends; touches only what matches |
| Run driver and registry: `api/ws.py`, `api/run_manager.py` | per run: task, cleanup, awaited reply, finished; per socket: the run it watches | start, attach, answer/decision/choice, stop, disconnect, gc | cancellation at every await; several cockpits on one run; a deadline beside a verdict | no browser or driver outlives its run; every end is announced; a reply counts once, for the card it was taken at |
| Event stream: `events/*`, `Run.attach` | a bounded buffer, a fanout of sinks, the last event emitted | emit (a repeat is dropped), attach, detach | replay suspends while the run emits; nodes that run again emit again | in order, once; what is lost is known |
| Bridge: `surface/bridge.py`, `surface/extension_surface.py`, `api/bridge_ws.py`, `auth/pairing.py`, `ext/background.ts`, `ext/bridge/*` | pairing codes, registry of connections, calls in flight; in the extension: stored credentials, a client, one session | pair, connect, reconnect, call, reply, detach, unpair | two sockets of one browser overlap; the service worker is suspended; late replies | one browser per owner; nobody waits on a closed connection |
| Drafts and corrections: `manager/writer.py`, `manager/draft.py`, `workers/approval_gate.py` with the compose verbs of `surface/playwright_surface.py` | the draft of the run, the instruction the gate leaves for the worker; the compose window | edit, instruct, classify, revise; type, replace, clear and type recipients | one correction becomes several steps in a window a person shares | a correction arrives; typed words win; nobody is written to whom only a mail's text names |
| Cards in the cockpit: `frontend/lib/useAgentRun.ts` | the log as heard, ids answered, approvals decided | hear, click, reload | the open card is derived from the log, not told | the card the run waits on is the one on screen |
| Steering: `feedback/*` | messages of the person, pending or applied | record, read, mark applied | read and marked on two sides of a model call | nothing is marked applied unshown |
| LLM fallback: `llm/fallback.py` | cooldown per provider | complete, cool down, back off | concurrent calls share cooldowns | ends; exhaustion is typed |
| Funnel: `observation/*`, `surface/extract.py` | none; a page in, a numbered list and a map of places out | visibility, occlusion, collapse, tokenize, number, budget | what one stage drops another may have relied on | nothing lost silently; a number means what was shown |
| Prompt and compaction: `workers/rendering.py`, `agent/compaction.py` | the run's messages | assemble, trim, strip, summarise | a history cut in the middle | calls keep their results; work is remembered |
| Vault: `security/*` | token tables, addressable tokens | mint, resolve, trust | a page makes its senders, recipients and contacts addressable, a text does not | no address that stands in texts only |
| Surfaces: `surface/playwright_surface.py`, `ext/session.ts`, `ext/driver/*` | geometry of the last observation, approved fingerprints | verbs | a page that changes between look and click | never reports what did not happen |
| Procedural memory: `surface/memory.py` | learned procedures | remember, recall, forget | by its own header nothing wires it into a run | |
| Auth, settings, telemetry, cockpit rendering, bench | tokens, records, configuration | | I/O, cryptography, text | outside this project |

How they interact: the cockpit's socket handler (`ws_run`) creates a run and its
driver task (`drive`), which opens a surface, builds the graph and feeds it. The
graph's nodes call the surface (observe, act, preview, approve) and the model, and
stop at interrupts; the driver emits the card, waits for a future that any cockpit's
`answer`, `decision` or `choice` fulfils, and resumes the graph. Everything emitted
goes through the run's fanout into its buffer and to the attached cockpits. With the
extension, the surface is a stub: each call is a frame to the browser's socket and a
future in the connection found in `BRIDGES` at the start of the run.

## 2. Modules

| Module | Stands for | Extends |
|---|---|---|
| `LoopGuards` | the sliding window of recent actions and the two tests on it, as pure operators | |
| `WorkerLoop` | dispatch to finalize: loop, gate, internal verbs, recovery, over one compose window | `LoopGuards` |
| `RulesWorker` | the linear node over a live list of mail | |
| `ManagerGraph` | intake to dispatch, composed with `RulesWorker` as its linear route | `RulesWorker` |
| `RunLifecycle` | drivers, registry and cockpit sockets | |
| `EventFeed` | abstract: what a run's stream promises a viewer | |
| `RunStream` | the buffer, the fanout and `attach`; implements `EventFeed` | |
| `Bridge` | one owner's extension, its sockets, the registry, calls, the extension's session | |
| `Consent` | abstract: no email leaves without an agreement of its own | |
| `ComposeEdits` | an email on its way through the compose window and the gate's corrections; implements `Consent` | |
| `Cards` | who decides that a card is shown: node, emitter, cockpit | |
| `LlmChain` | the chain of providers with its retries and shared cooldowns | |
| `Steering` | feedback of the person, composed with the calls of `LlmChain` | `LlmChain` |
| `Funnel` | the observation funnel, as pure operators on a page, a set of elements | |
| `Compaction` | the cutting of the history, as pure operators on its positions | |
| `Prompt` | the turns of a run that use both | `Funnel`, `Compaction` |
| `MC*` | constants of the TLC runs | each its module |
| `*_proofs` | theorems about `WorkerLoop`, `ManagerGraph`, `RunLifecycle`, `RunStream`, `Bridge`, `ComposeEdits`, `Cards`; in `Prompt_proofs` those about `Prompt` and `Steering`, the two halves of what a prompt holds | each its module, and `TLAPS` |

Every stateful module but the two abstract ones and `Prompt` defines `TypeOK`; the runs
of `WorkerLoop` and `RunLifecycle` check it, the others can be made to by `INVARIANT
TypeOK` in their configuration. For `Prompt` the types of node, history and choice are
`TurnTyped`, proved as part of `Grounded`; list, map and vault are made by the funnel. A
module without an MC module is given its constants by its configuration alone.

### WorkerLoop
One action is one node of the graph, split at its interrupts; after an interrupt the
node runs again from the top, as LangGraph does (this is why `GateApproved` reads the
draft a second time). `pc` is the node about to run, decided by the `Route*`
operators on the state the node left; the other variables are fields of `AgentState`
under their names (`step`, `nudges`, `stuck`, `recent`, `lastAction`, `remedied`,
...), the surface's draft and approved fingerprints, and history variables
(`chosenAt`, `verdictAt`, `consented`, `sent`, `confirmed`). The page, the model's
choice of tool and the person are nondeterministic. Abstractions: `Send` stands for
every gated verb; a draft is a model value and a fingerprint the pair of verb and
reading; the curated strategies are an abstract set; an edit on the card is one of
the outcomes of declining. `LiveEdits` says whether the person may also type in the
headed window, `FlakyReads` whether reading the compose fields may fail, `Patience`
how many remedies they try.

### ManagerGraph and RulesWorker
One action of `slots.py` and `registry.py` stands for each kind of row: `send_email`
(mutating, several required slots and a conditional one), `triage` (can run
linearly), `summarize` (read-only, defaults) and `unknown`. A group of alternative
slots is one slot. The classifier's confidence matters only against two bars, so it
has three levels. A reading of the conversation is any well-formed intent. Answers
are a bare yes or no, a refusal with more to it, or anything else; the cockpit sends
no empty ones. The hand-over to the reasoning worker (`pc = "worker"`) and to verify
is where `WorkerLoop` goes on. In `RulesWorker` a row is acted on at the place it
was seen, and mail may arrive on top at any time; a verb may land or not and be
reported either way.

### RunLifecycle
A driver's `drive[r]` is the await it is suspended in; its steps are the code between
two awaits. A socket handler likewise. Cancellation reaches a driver in any await and
passes its finally clause only inside the try. Events are told apart as the sentinel
(`run_complete`) and all others; `sentinels` counts the former and `late` notes anything
emitted after one, be it by the driver (`Works`, `Interrupts`, `Wraps`, ...), by the
screencast (`Streams`), by the acknowledgement of feedback (`Acknowledges`, which a
finished run gives too, as long as it is registered) or by a second stop. A browser is
`open` from where `launch_surface` returns it; one that the launch started and did not
return, because it failed or was cancelled after that, is `lost` (`Abandons`): it runs
on, and nothing the run owns can close it. The person's screen (`onScreen`) is in
the model because a reply carries no request id: which card it was meant for is only
known there. `Replies` puts a reply on its way, `Delivers` has it taken by the future of
the card the run then waits at, if it is still open; `reply` remembers both cards.
`Expires` may also come after a reply was taken and before the driver resumes: the
`asyncio.wait_for` of Python 3.12, which `pyproject.toml` asks for, raises `TimeoutError`
when both fall into one pass of the event loop. Assumed: thread ids are fresh (the
cockpit makes one per start), the graph propagates a cancellation, closing a browser
returns. Not modelled: server shutdown, `create` on an id in use, what becomes of a
feedback's text (that is `Steering`). Which finished runs `gc` finds expired is
nondeterministic.

### RunStream and EventFeed
Events are told apart as frames, cards, decisions and the sentinel. Emitting is one
step (the sinks are awaited in turn; a slow sink only delays); each viewer attaches
once, a second attachment being another viewer. `EventFeed` is the promise: what was
published, in order and never twice. The refinement is checked as
`PROPERTY FeedSpec` and proved step by step.

### Bridge
A connection is named by its socket: `near` is the extension's end, `far` the
backend's, `down` a transport that is gone. Frames travel in order per socket and a
lost socket loses what it carried. Each frame is handled by its own asynchronous
handler in the extension, so a handler that began (`working`) can end after the
session it began in. A run is what `ExtensionEmailSurface` does for it: start, the
reset dispatch asks for, observations, actions, an approval and the send behind it,
stop. Sending on a dead socket may raise or be swallowed. The service worker may be
suspended at any time, the tab closed, the browser unpaired. One owner; the page is
abstract; preview and fingerprint calls change nothing and are left out.

### ComposeEdits and Consent
This is the detail of `GateDeclined` of `WorkerLoop`: what becomes of a card that is
edited. The window is `open`, its recipient chips and loose text in the To field, and a
text per field; a text is a member of `Texts` (or `Mixed`, one text run into another), a
recipient one of `People` or any other text. `trusted` is the vault's set of addressable
tokens: the task's, those a correction names, and, with every observation (`Observes`),
whoever a page shows in a structured place (`Mailbox`) and the chips of the window
itself. So a stranger who has written to the user can be written to; `vouched`, a
history variable, is whom the task or a human has named. `draft` and `order` are what
the gate keeps and what its message tells the worker to do: the fields that changed
between the old draft and the new (`Stale`), and the recipients to clear and type.
`Edits` is one pass of `approval_gate` from the verdict on: the recipient, the scope of
the instruction (with the rules for when the classifier has no answer or contradicts a
retyping), the revision, the order. The worker is obedient: it carries its order out,
each verb a dispatch that may stop half-way at its wall (`Partly*`). Whatever else may
happen counts against `MaxTrouble`: a slip of the worker, a field out of reach, a
preview that fails, a Send before the order is done, the person's own hands in the
window. `agreed`, `left`, `wanted` and `spoiled` are history. `Consent` has two actions,
agreeing and leaving, one agreement to one email; `Promise` is the refinement mapping,
by `agreed` and `left` themselves. The assumption `Distinct` keeps the model's own marks
(a name not resolved, no text, the card's placeholder) apart from what people are called
and write.

### Cards
A card is its kind and the id its node computes: an approval's from the words it
shows, an option's from cause and number of strategies tried, a question's fresh each
time. `Emits*` is the emitter, which drops an event equal to the last (`last`); the
page keeps what it heard of the log, and derives from it the question, options and
approval that are open (`Latest*`), less what it answered or decided. A reload starts
from nothing and hears the log again. A click replies to whatever the run waits on.

### LlmChain and Steering
Time passes in ticks; a cooldown and a backoff are what is left of them. A failure is
one of the four kinds `_classify` and the chain tell apart; only a rate limit states a
wait. Each run has at most one call, and the cooldowns are shared by all, as the
client is. In `Steering` an entry of the store is its run, its kind and whether it is
applied; the agent's own assessments are born applied and left out. A turn begins
(reads what is pending into the prompt), calls the chain once or twice, and ends
explained (pending entries are marked), failed or raised. A question or card between
turns is not modelled: it ends, answered or in its timeout.

### Funnel, Compaction and Prompt
A page is a set of elements, and the id of one its place in the document, which is the
order of painting too. Geometry is kept as far as the stages tell it apart: in view,
above, below or aside; a size of box; a row band; the browser's own verdict on the
pointer. A text is its set of words, so that "contains" is `\subseteq` and a name may be
part of a longer text; an element of the list costs one plus its words. The stages stand
in the order of `pipeline.py`, each the set of what it keeps. Two of them are loops in
the code, and greedy: occlusion goes from the top down and lets only what was reached
cover what lies below it, and the budget goes by priority and passes over what does not
fit. Such a loop is the set that agrees with its own decisions (`Unoccluded`, `Kept`):
an element is in it when it passes the test against those members that came before it.
There is exactly one such set (`TheListIsOne`, `TopParts`). `Compaction` works on
messages of a role, a call and a size, and on positions: `Turn` is the number of the
group a message belongs to (an assistant turn with its results, by `Joins`), `End` where
a number of groups ends, and the layers change or cut what lies between two ends.
`Prompt` is the loop seen from the model: which list it is shown, which history, and
what its answer may touch. Guards, verdicts and remedies are those of `WorkerLoop`, here
only for the messages they leave. A list is made afresh every turn, so only first turns
see every page and later ones the empty one. Left out of the funnel: the list prints at
most 160 characters of an entry's text and ends a longer one in "…"
(`reading_order.py:57-61`), which may also cut words that collapsing a child has brought
into the entry. A text is whole in the model, and `NothingIsLostSilently` says nothing
about that mark.

## 3. Hard behaviours, and where they are
The hazards in `PROJECT.json` name a line each. In short: stale choices and stale
approvals in the loop; re-execution of a node after an interrupt; a remedy that undoes
too little; cancellation at every await of the driver; two cockpits on one card; a
replay that suspends; two sockets of one browser; late and lost replies; a method one
side does not know; answers folded into an intent in the wrong order; rows moving
under a rule; a correction of a card carried out half-way; repeats dropped and open
cards derived from a log, across reloads; feedback that arrives during a call, which
may be made twice; cooldowns one run sets and another meets; elements pruned before
something else was read off them; a history cut in the middle.

## 4. What the runs check

Every property of a passing run has a mutation of the model that breaks it
(`mutants` in `PROJECT.json`): the operator with a plausible bug stands in the module
before the one it replaces ("A defect: ...").

| Run | Instance | Shows |
|---|---|---|
| `WorkerLoopSending` | 2 drafts (symmetric), 3 steps, the person types too, reads may fail | `ActsOnItsChoice`, `ConsentIsFresh`, `SentWasRead`, `NothingAfterConfirmation` |
| `WorkerLoopRecovery` | 1 draft, 3 steps, 2 remedies, guards lowered to the budget | `RemediesBounded`, `OutcomeConsistent`, `ComesToRest` |
| `RunLifecycleSteady` | 2 runs, 2 cockpits (symmetric), 1 card | `HandedOverIsClosed`, `NoOrphan`, `AlwaysAnnounced` |
| `RunLifecycleSlow` | 1 run, 2 cockpits, 2 cards, emits suspend, the graph may fail to build | `EachCardItsReply`, `DriverFallsSilent`, `StopsForGood` |
| `RunStreamReplay` | 2 viewers, 4 events, a buffer of 2 | `FeedSpec` (refinement), `GapIsTheReplay` |
| `Bridge` | 1 run, 2 sockets, 1 code, 5 calls | `OneBrowser`, `NobodyWaitsOnClosed`, `CodeWorksOnce`, `OutcomeStands` |
| `ManagerGraph` | 3 questions, 2 rows and a late one, 2 items, 2 stalls, a rule of two verbs | `StartsComplete`, `SlotsStand`, `GroundIsKept`, `ComesToRest` |
| `ComposeEdits` | 3 people, 2 texts (symmetric), 2 cards, 2 troubles | `ConsentSpec` (refinement), `EditLands`, `TypedWordsStand`, `RecipientsAreKnown` |
| `Cards` | 2 previews, 2 causes of 2 attempts, 3 pauses, 2 turns, a reload | `AskedIsSeen`, `NoLeftoverApproval` |
| `Steering` | 2 runs, 2 providers, 1 retry, 2 entries, waits of a tick | `AppliedWasShownOrLate`, `CorrectionsAreHeard`, `TurnsEnd` |
| `Prompt` | pages of 3 elements of 14 kinds, a budget of 6, 2 of it outside a dialog; histories of 10 messages against a target of 8, 1 group kept in front and 2 behind, 1 remedy | `NothingIsLostSilently`, `DialogComesFirst`, `NamesAreTokens`, `OnlyListedIsTouched`, `WorkIsRemembered`, `UngatedCallsAreAnswered` |
| `PromptAnswers` | as Prompt | violates `EveryCallIsAnswered` |

Bounds. Two drafts are enough to tell "what was read" from "what is there"; three
steps let one action be declined, repeated and confirmed; the guards' thresholds are
constants, lowered with the step budget so that each of them fires before it. Two
cockpits and two runs give every race of the registry (one leaving a run while another
stops it); two cards are needed only for a reply to meet the
wrong one. A buffer of
two under four events trims both the replay and what comes during it. Two sockets are
an old one and its replacement, in every order of their ends; five calls are start,
reset, an approval, its send and stop. With one pairing code every second use is a
reuse. Three questions is the code's own `MAX_ASKS`. Counters that only grow are
bounded by these constants. Three people are one of the task, one whom only texts
name until a human does, and one whom the mailbox shows; two
cards are an edit and what comes of it; two troubles are a step that stops half-way
and one more thing on top of it. A question repeated needs a card in between, hence
three pauses. In `Steering` the second run is there to bench the first's providers and
to have its entries left alone; with two providers "all benched" differs from "the
next one"; its liveness needs no longer waits than a tick. Three elements are a
wrapper, its child and something that covers or precedes them; the fourteen kinds are
listed in `MCPrompt` and make every stage drop, keep and count something; the budget
holds two elements of three. Ten messages make all three layers of compaction happen;
an element of the page is weighed against the history (`ElementWeight`) because
the two do not meet: a long history is explored with small pages.

Deadlock checking is off everywhere: a run ends, or waits for a person who need not
come, and an extension that was never paired has nothing to do.

Fairness. `WF` on the machine's steps only: asyncio resumes every runnable task, and
the graph's nodes, the driver (`Drive(r)`) and a handler that was suspended
(`Handler(s)`) are such tasks; the approval deadline is armed by the driver. Nothing is
assumed of the person, of mail or of the network. In `Steering` time passes (`Tick`), a
request ends (the HTTP client has a timeout), a sleep ends, and a run that is not over
takes its next turn. Everything else is checked for safety only.

## 5. Where the code and its comments disagree

Kept as a run and a `finding`: `PromptAnswers`. A call the gate declines or sends back
is never answered by a result; the gate's verdict follows it as a message of the
user's (`approval_gate.py:634`), and every later prompt carries the call that way.
`EveryCallIsAnswered` is what `compaction.py` says providers require.

Properties that TLC also finds violated. Each has a configuration of its own, except
those named with the configuration of a run: there the property takes the place of the
run's own.

| cfg (MC module) | Property | What the code does |
|---|---|---|
| `WorkerLoopReread` (`MCWorkerLoop`) | `ApprovedWasShown` | the gate reads the draft again when it resumes, and approves what it then finds: a draft edited while its card is shown is approved unread (`approval_gate.py:407`, `471-472`; the card says "Authorize THIS payload only") |
| `RunLifecycleStale` (`MCRunLifecycle`) | `RepliesMatch` | a reply given to one card resumes the next: the socket passes no request id on (`ws.py:252`, against `WS-PROTOCOL.md:136`) |
| `BridgeReset` (`Bridge`) | `EveryCallIsHeard` | the extension drops the reset every run begins with, which costs the whole call timeout (`extension_surface.py:111`, against `bridge.py:10-11`) |
| `BridgeApproval` (`Bridge`) | `ApprovedGoesOut` | with the extension no approved send can pass, because both sides hash it differently (`extension_surface.py:141`, `dispatch.py:266`, `validator.ts:300`) |
| `ManagerGraph` (`MCManagerGraph`) | `OnlyMatchingTouched` | the second verb of a rule touches the row that moved up (`rules_worker.py:122-125`, against `rules/store.py:60`) |
| `CardsOptions` (`Cards`) | `OptionsAreSeen` | a remedy in the person's own words counts against its cause but is no tried strategy, so the next options card of that cause has the same id, and is dropped as a repeat or hidden as answered (`recovery_nodes.py:177-178`, `222-236`) |
| `SteeringMarks` (`Steering`) | `AppliedWasShown` | a correction that arrives during the call is marked applied with those that were quoted (`loop.py:251-252`, `store.py:103`) |
| `SteeringWaits` (`Steering`, waits of 2) | `WaitsAreCapped` | a stated Retry-After is slept through uncapped, the cap being for cooldowns and the doubling wait only (`fallback.py:47-49`, against `214-223`) |
| `ComposeEditsBlank` (`MCComposeEdits`) | `EditLands` | the card prints "(empty body)" for a blank body, and a card retyped elsewhere brings those words back as the body to type |
| `ComposeEdits` | `RecipientsAreShown` | the preview reads the first thing in the To line: loose text there hides the chips beside it |
| `ComposeEdits` | `CorrectionIsOrdered` | what to replace is decided by comparing drafts, not the window: words the worker mistyped and the person put right on the card are not ordered when they equal the old draft (`approval_gate.py:239`) |
| `WorkerLoopRemedy` (`MCWorkerLoop`) | `RemedyGetsATurn` | a remedy clears stuck count and window, not the step count: a run that ended by `MAX_STEPS` is stopped again before the model sees the remedy (`recovery_nodes.py:240-248`) |
| `WorkerLoopNothingOpen` | `ConfirmedWasSent` | an approved Send with no compose window open counts as confirmed, since there is no window to wait for (`playwright_surface.py:1198-1217`) |
| `RunLifecycleSteady` (`MCRunLifecycle`) | `NoBrowserLeft` | a launch that fails or is cancelled after Chromium came up leaves it running, for the closer is only made where `launch_surface` returns (`playwright_surface.py:2024-2042`; `ws.py:73-75` says "a crash mid-setup still closes it") |
| `RunLifecycleSteady` | `SentinelIsLast` | feedback on a finished run that is still registered is acknowledged in its stream, a stop of one adds a second `run_complete`, and a stop of a running one lets the screencast send frames until the browser is closed (`ws.py:285-316`, `318-323`, `88-97`; `WS-PROTOCOL.md:179` says of `run_complete`: "the stream for this run has ended") |
| `RunLifecycleSlow` | `TakenReplyCounts` | a verdict the server has taken is lost when the deadline falls into the same pass of the event loop: the run goes on as if nobody had answered (`ws.py:154-158`, on Python 3.12) |
| `RunLifecycleSlow` | `StopReachesStart` | a run is registered before its task exists: a stop by another cockpit in between cancels nothing, and the run starts after it (`ws.py:214-225`) |
| `RunLifecycleSlow` | `AlwaysAnnounced` | without a model `build_graph` raises outside the driver's `try`, so the cockpit hears nothing of the end (`ws.py:103`) |
| `RunStreamGap` (`RunStream`) | `ExactlyTheStream` | an event emitted during a replay reaches neither the replay nor the subscription made after it (`run_manager.py:80-101`) |
| `BridgeRepair` (`Bridge`) | `PairedStaysPaired` | after pairing, the client's own reconnect offers the used code and is turned away without retry (`background.ts:204-215`, `client.ts:75-82`) |
| `BridgeReconnect` | `RunFindsItsBrowser` | a run keeps the connection of its start; the registry keyed by owner does not help it (`bridge.py:142-145`) |
| `BridgeSessions` (two runs) | `ActsInItsOwnSession` | the second run's start replaces the first's session and the first acts in it (`background.ts:113-121`) |
| `ManagerGraphAsked` (`MCManagerGraph`) | `ConfirmedWasAsked` | the second answer to "what would you like me to do?" is re-read into an action and confirms it at once (`nodes.py:366-403`, against `intent.py:103-106`) |
| `ManagerGraphCorrection` | `CorrectionCanBeHeard` | "no, send it to Biyash instead" is re-read, but the recipient already there always wins the merge (`nodes.py:369-371`, `intent.py:145`) |

Met while modelling, without a configuration: an exhausted provider chain and an
unavailable surface during preview leave the graph as untyped exceptions; five scrolls
and one click count as bouncing (`guards.py:119-138`); the sentinel precedes the
cancellation, so with a slow socket the driver itself may speak once more while a stop
is sending it (`ws.py:322`; the case `DriverFallsSilent` exempts by `Announcing`); a
reply quicker than `expect_answer` is dropped (`ws.py:151`); the buffer may trim the
pending card; a welcome that fails to be sent leaves its connection registered, and
since the backend does not learn that the socket is dead, calls on it wait for their
timeouts until the next connection replaces it (`bridge_ws.py:142`; no property covers
this); the page script stops at its 4000th node without saying so, although "Nothing is
ever truncated silently" (`reading_order.py:6`); elements off to the side are counted as
below (`visibility.py:54-58`); after an edited card the router goes straight back to
`reason` with the observation from before the card; a click goes to the captured place
without a look at what is there by then (`som.py:9`); "separately" delivery of several
mails contradicts the rule that a confirmed send ends the run (`loop.py:486-524`;
`ConfirmationIsFinal` proves the latter); the extension's `withTimeout` does not cancel
the verb it gave up on (`session.ts:253-283`); a success clears the cooldown another
call has just set (`fallback.py:153`).

## 6. What is proved

Every theorem is proved by TLAPS for every value of the constants that satisfies the
assumptions of its module: `LoopConstants` and the guards' in `LoopGuards`,
`LifecycleConstants`, `StreamConstants`, `BridgeConstants`, `Distinct` and the like,
which say no more than that bounds are numbers, marks are not data and, for the funnel,
that a page has finitely many words. The invariants below were checked by TLC on the
runs' instances before they were proved.

| Module | Theorem | States |
|---|---|---|
| `WorkerLoop` | `TurnInvariant` | `TypeOK` and `ActsOnItsChoice`, inductive together |
| | `TypeCorrect`, `ChoiceIsCurrent` | its two parts |
| | `IrreversibleNeedsAFreshVerdict` | `ConsentIsFresh` |
| | `ConfirmationIsFinal` | `NothingAfterConfirmation` |
| | `OneOutcome` | `OutcomeConsistent` |
| | `RemediesAreBounded` | `RemediesBounded` |
| | `SendsOnlyWhatWasRead` | `SentWasRead` |
| `ManagerGraph` | `GateHolds` | the invariant `Gate` |
| | `RunsStartComplete` | `StartsComplete` |
| | `FilledSlotsStand`, `AnswersKeepGround` | the action properties `SlotsStand`, `GroundIsKept` |
| `RunLifecycle` | `CustodyInvariant`, `TypeCorrect` | the invariant `Custody`; `TypeOK` |
| | `BrowserGoesWithItsRun`, `EveryEndIsAnnounced` | `HandedOverIsClosed`, `AlwaysAnnounced`, if `~NoModel` |
| | `WhoWorksCanBeReached` | `NoOrphan`, if `~SlowSends` |
| | `NoWordAfterTheEnd` | the action property `DriverFallsSilent` |
| | `RepliesAreNotReused` | `EachCardItsReply` |
| `RunStream` | `TypeCorrect` | `TypeOK` |
| | `OnlyTheReplayLosesEvents` | `GapIsTheReplay` |
| | `StreamImplementsFeed` | `FeedSpec`: the stream implements `EventFeed` |
| `Bridge` | `BooksAreRight` | the invariant `Books` |
| | `OneBrowserPerOwner`, `NobodyWaitsInVain`, `CodeLetsOneIn` | `OneBrowser`, `NobodyWaitsOnClosed`, `CodeWorksOnce` |
| | `FirstOutcomeStands` | the action property `OutcomeStands` |
| `ComposeEdits` | `CareHolds`, `AgreementHolds`, `OnTheirWayHolds` | its three invariants |
| | `OnlyKnownRecipients`, `TypedWordsAreKept` | `RecipientsAreKnown`, `TypedWordsStand` |
| | `CorrectionsLand` | `EditLands`, if `~EditsBlankBody` |
| | `GateImplementsConsent` | `ConsentSpec`: gate, worker and person implement `Consent` |
| `Cards` | `CardsAreInOrder` | the invariant `CardsInv` |
| | `WhoIsAskedSeesIt`, `NoApprovalIsLeftOver` | `AskedIsSeen`, `NoLeftoverApproval` |
| `Steering` | `HeardAlways` | the invariant `Heard` |
| | `NothingIsCrossedOffUnread` | `AppliedWasShownOrLate` |
| `Prompt` | `GroundedAlways` | the invariant `Grounded` |
| | `NothingIsEverLost`, `NamesStayTokens` | `NothingIsLostSilently`, `NamesAreTokens` |
| | `TheListIsOne` | the list is the one set of entries the budget's loop keeps |
| | `DialogAlwaysComesFirst` | `DialogComesFirst` |
| | `OnlyListedIsEverTouched` | `OnlyListedIsTouched` |
| | `WorkStaysRemembered`, `UngatedCallsStayAnswered` | `WorkIsRemembered`, `UngatedCallsAreAnswered` |

Three hypotheses appear, each the setting of the run that checks the property, because
the code does not keep it otherwise (section 5). `~NoModel`: a model is configured; if
not, `build_graph` fails outside the driver's `try` and nothing is announced or closed.
`~SlowSends`: emitting to a cockpit does not suspend the handler; if it does, a stop can
miss a run whose task does not exist yet, and that run then belongs to nobody. Only
`WhoWorksCanBeReached` needs it.
`~EditsBlankBody`: nobody edits a card around its "(empty body)". What is proved
without them holds in those cases too; `CustodyInvariant` in particular covers slow
emissions and failing builds.

The arguments.

`WorkerLoop`. `Turn` is inductive as it stands: the node about to run determines
whether a choice is there and of which turn. The others are inductive relative to it
with a strengthening each: `Consent` says that in every node between verdict and
dispatch an irreversible choice has a verdict of this step; `Phases` says which status,
success and code go with which node (a run that is looping is neither finished nor
confirmed; one that failed or succeeded stays so until a remedy clears it);
`Remedies` bounds the attempts per cause where options are offered; `Read` says that
while a verdict is pending, or its action about to be carried out, what a card showed
or the person typed covers the live draft. `SendsOnlyWhatWasRead` does not use the
surface's fingerprint lock at all: what makes it true is the gate before every `act`
and that between verdict and dispatch only the person changes the window; the lock is
a second defence.

`ManagerGraph`. Most of it is about the pure functions that fold an answer into an
intent: merging a reading and filling slots each keep what was filled (`Keeps`) and,
unless the answer declines, the ground gained (`Advances`). `Gate` carries them along
the graph: `StartsComplete` is inductive once intents and answers have their type.

`RunLifecycle`. `HandedOverIsClosed` is not inductive: a driver may be cancelled in any
await, and who closes its browser depends on where. `Custody` says who is answerable:
whoever cancelled a run is still waiting for it and has announced its end, and an open
browser has its cleanup registered. `Silence` says what is left of a run whose end was
announced: a stop is still sending the announcement, or has cancelled the task, or the
driver is past its last word; a stop that cancelled nothing met such a driver.
`Replying` follows a future: it is open only while its card waits, and what it was given
was given at that card. `Quiet`, for emissions that do not suspend, says that no handler
is ever seen half-way through a start or stop, so a driver at work can be reached.

`RunStream`. `Delivery` says what a viewer has received: the part of its snapshot
already replayed, and once it is subscribed everything emitted since. The hole between
the two is the replay. The refinement maps emissions to publications and both kinds of
receipt to catching up.

`Bridge`. Nothing the extension does writes in the backend's books; so three books are
shown right one by one: calls (`Books`: a call is entered when it is made, and closing
a connection fails all of its calls), the registry (`OneBrowser`), and the codes
(`Spent`: a redeemed code is issued no more).

`ComposeEdits`. `Agreement`: what is about to leave is in `agreed`, because the gate
looks at the window it approves and the only hands in it after that are the person's
own, who agree to what they make of it; the refinement of `Consent` follows. `Care` is
the shape of window, order and draft with the two properties about them; that recipients
are known goes through it (`Acquainted`), because chips make addressable whom they hold,
so window, order and vault have to be right together. `OnTheirWay` is the one that took
work: `EditLands` speaks of the moment a Send is proposed again, and what makes it true
is that at every step before, each field either is as wanted or is ordered as wanted,
the recipients are cleared before they are typed, and a closed window is empty.

`Cards`. The open card is derived from a log, so the invariant is about the log: the
card a run waits for is its last event, a question's id is new, an open approval is
the pending one, and no more verdicts were given than cards heard. That the latest of
many events exists is shown with well-founded induction on sets of positions.

`Steering`. While a run's call is out, what it has pending was quoted in the prompt or
came in late (`PendingIsQuoted`); so marking all that is pending as applied marks no
more than that.

`Prompt`. The properties about a turn are not inductive: what they say of list, map and
history follows from how these were made. `Grounded` says so. While the model or a card
decides, the list, the numbers and the counts are those the funnel makes of the page and
the vault there are (`Seen`); an ungated call is followed by its result, except the last
message while it is carried out or when the surface was lost in it (`UngatedArePaired`,
`Waiting`); what is carried out is the call the history ends with (`ChosenIsLast`). The
rest is about the pure operators, for pages and histories of any size.
- Greedy stages (`GreedyExists`): over a finite set with an order in which each part has
  a first (`FirstOfOrder`), a set that agrees with its own decisions exists, by taking a
  longest beginning for which there is one; and there is no other (`GreedyIsOne`), because
  two would agree before the first element they differ in. So `Unoccluded` and `Kept` are what their
  definitions say, for every order of painting and every priority.
- Numbering (`PlacesAreTaken`): every place from 1 to the number of entries is taken, so
  `Indexed` leaves no entry out. Nothing is lost by a wrapper (`WordsAreKept`) because
  the last element in the document that says a word is no wrapper, and if it is redundant
  the control around it is kept and says the word.
- The dialog (`SeenDialogFirst`): what outranks an element of the dialog is itself of
  the dialog, so the elements that left no room for it are; `SpentGrows` does the rest.
- Compaction: no group ends between a call and its result (`PairsAreNotCut`), so neither
  end of the middle parts them, and each layer keeps role and call of what it keeps
  (`CompactParts`).

Only model-checked: liveness, for want of `ENABLED` and fairness in the prover, which is
`ComesToRest` of the loop and of the manager graph, `StopsForGood`,
`CorrectionsAreHeard` and `TurnsEnd`. Every other property of a passing run is proved.
Nothing is proved of `Compaction`'s token counts (`Tokens` is a fold): the theorems hold
whichever layer it stops at.

## 7. Plan

1. done: `LoopGuards`, `WorkerLoop`, its proofs.
2. done: `RunLifecycle`, `EventFeed`, `RunStream`.
3. done: `Bridge`; `RulesWorker`, `ManagerGraph`.
4. done: `LlmChain`, `Steering`.
5. done: `Cards`; `Consent`, `ComposeEdits`.
6. done: `Funnel`, `Compaction`, `Prompt`.
7. `Session`: the extension's session and validator, index and token checks, refining
   the surface that `WorkerLoop` assumes; the browser thread.
8. done: the proofs of section 6, all safety invariants and action properties of the
   passing runs among them.

## 8. Not modelled

Procedural memory: nothing in the program reaches it. The page scripts and the text of
prompts, cards and logs: the properties do not depend on their wording. The extension's
ported funnel and vault: fixtures hold them equal to the backend's, which is modelled.
The Chrome launcher, OAuth and token signing, telemetry, settings and the server's
routes, benchmarks: I/O, cryptography and configuration. Each has its entry and its
reason in `PROJECT.json`.
