---------------------------- MODULE ComposeEdits -----------------------------
(* An email on its way through the compose window: the verbs that write in  *)
(* it (surface/playwright_surface.py), the checks before each               *)
(* (surface/dispatch.py, security/vault.py), the card that shows it         *)
(* (workers/approval.py), and what the approval gate makes of a correction  *)
(* (workers/approval_gate.py): a retyped card, an instruction, or both.     *)
(*                                                                          *)
(* The model of the worker is obedient up to a bound: it carries out the    *)
(* order it was given, and otherwise slips.  A text is a member of Texts, a *)
(* recipient a member of People (a vault token and its address) or Name,    *)
(* any other text in the To field.                                          *)
EXTENDS Integers, FiniteSets, Sequences

CONSTANTS
  People, Task,      \* recipients with a token; those the task names
  Mailbox,           \* those a page shows in a structured place: a sender, a
                     \* recipient, a contact; the others stand in texts only
  Texts,             \* what a subject or a body may say
  Retargets,         \* what a human makes of a card's To line; the people in
                     \* them are those a human may name elsewhere too
  MaxCards,          \* bound: approval cards in a run
  MaxTrouble,        \* bound: walls breached, fields out of reach, reads that
                     \* fail, slips of the worker, the human's own hands
  EditsBlankBody     \* the human retypes a card whose body is the placeholder

ASSUME ComposeConstants ==
  /\ Task \subseteq People /\ Task # {} /\ Mailbox \subseteq People
  /\ MaxCards \in Nat /\ MaxTrouble \in Nat /\ EditsBlankBody \in BOOLEAN

Fields == {"subject", "body"}
Parts == Fields \cup {"to"}

Named == (UNION Retargets) \cap People

Blank == "blank"
Mixed == "mixed"               \* one text run into another, or a part of one
Placeholder == "(empty body)"  \* what the card prints for a blank body
Nothing == "nothing"           \* no text asked for, no draft, no loose text
Name == "name"
Junk == "junk"                 \* a recipient garbled in the typing

\* What is written here in words of its own is no person and no text; nobody
\* writes the card's placeholder into an email of their own accord.
ASSUME Distinct ==
  /\ People \cap {Name, Junk} = {}
  /\ Texts \cap {Nothing, Placeholder} = {}

Words == Texts \cup {Blank, Mixed, Placeholder}
Drafts == [Fields -> Texts \cup {Blank, Placeholder}]
NoDraft == [f \in Fields |-> Nothing]

\* preview's fixed text; a card or a box that is no email; no box at all.
Unreadable == [to |-> {Junk}, words |-> NoDraft]
NoBox == [to |-> {}, words |-> NoDraft]

VARIABLES
  pc,        \* reset, work, card, approved, sending, done
  window,    \* the compose window: open, chips, loose text in To, words
  trusted,   \* the vault's addressable tokens
  draft,     \* AgentState.draft
  order,     \* what the gate's message tells the worker to do
  shown,     \* the preview on the pending card
  approved,  \* the surface's approved fingerprints
  cards, trouble,
  agreed, left,   \* history: content a person stands behind since the last
                  \* mail; mails sent
  wanted,         \* history: what each part should say
  vouched,        \* history: whom the task or a human has named
  spoiled,        \* history: parts changed by no order since their last one
  typed, source   \* history: the last edit retyped the words; whose the draft is

surface == <<window, approved, left>>
gate    == <<draft, order, shown, wanted, typed, source>>
bounds  == <<cards, trouble>>
trust == <<trusted, vouched>>
vars == <<pc, surface, trust, gate, bounds, agreed, spoiled>>

Empty(open) == [open |-> open, chips |-> {}, loose |-> Nothing,
                words |-> [f \in Fields |-> Blank]]
Closed == Empty(FALSE)

\* What is typed into a new window: the recipients and the writer's words.
NoOrder == [to |-> {}, clear |-> FALSE, words |-> NoDraft]
FirstOrder(d) == [to |-> Task, clear |-> FALSE, words |-> d]

\* Without a draft the worker makes the words up.
Unwritten == IF draft = NoDraft THEN Fields ELSE {}

Init ==
  /\ pc = "reset"
  /\ \E leftover \in BOOLEAN :
       window = IF leftover
                  THEN [open |-> TRUE, chips |-> {}, loose |-> Name,
                        words |-> [f \in Fields |-> Mixed]]
                  ELSE Closed
  /\ trusted = Task /\ vouched = Task /\ approved = {}
  /\ draft \in {NoDraft} \cup [Fields -> Texts]
  /\ order = FirstOrder(draft)
  /\ shown = Unreadable
  /\ cards = 0 /\ trouble = 0
  /\ agreed = {} /\ left = <<>>
  /\ wanted = [to |-> Task, words |-> draft]
  /\ spoiled = IF window.open THEN Parts ELSE Unwritten
  /\ typed = FALSE /\ source = "writer"

Trouble == trouble < MaxTrouble /\ trouble' = trouble + 1 /\ UNCHANGED cards

-----------------------------------------------------------------------------
(* The window                                                               *)

\* _compose_close_point, reset: a window left open is saved and closed, or it
\* will not close; what it held is no part of this email.
Reset ==
  /\ pc = "reset" /\ pc' = "work"
  /\ \/ /\ window' = Closed
        /\ spoiled' = Unwritten
        /\ UNCHANGED bounds
     \/ window.open /\ Trouble /\ UNCHANGED <<window, spoiled>>
  /\ approved' = {}
  /\ UNCHANGED <<trust, left, gate, agreed>>

\* A click on Compose, refused while a window is open.  A second email in one
\* run is written without an order.
Opens ==
  /\ pc = "work" /\ ~window.open
  /\ window' = Empty(TRUE)
  /\ spoiled' = IF left = <<>> THEN spoiled ELSE Parts
  /\ UNCHANGED <<pc, approved, left, trust, gate, bounds, agreed>>

Addressed == window.chips \cup ({window.loose} \ {Nothing})

\* preview: the first field of each kind that says anything.  Loose text in
\* the To field is read before the chips beside it.
ToShown(w) == IF w.loose # Nothing THEN {w.loose} ELSE w.chips
Rendered(f, text) == IF f = "body" /\ text = Blank THEN Placeholder ELSE text
Reading(w) == [to |-> ToShown(w), words |-> [f \in Fields |-> Rendered(f, w.words[f])]]
Content == Reading(window)

\* A reading of the window, or the text that says it could not be read.
Reads(preview) ==
  \/ preview = Content /\ UNCHANGED bounds
  \/ preview = Unreadable /\ Trouble

-----------------------------------------------------------------------------
(* The verbs.  Each is one dispatch, the page changed by part of it when    *)
(* its wall is breached.                                                    *)

\* _do_type into the subject or the body: after whatever is there.
Typed(f, text) ==
  IF text = Blank THEN window.words[f]
  ELSE IF window.words[f] = Blank THEN text ELSE Mixed

Writes(f, text) == window' = [window EXCEPT !.words[f] = text]

\* A defect: typed without clearing first.
ReplacesUncleared(f, text) == Writes(f, Typed(f, text))

\* _do_replace: cleared, then typed.
Replaces(f, text) == Writes(f, text)

\* A defect: any token the vault knows will do.
AdmissibleAny(people) == people \subseteq People

\* ActionValidator._resolve_tokens: minted and addressable.
Admissible(people) == people \subseteq trusted

\* _do_type of tokens into To: those not there yet, committed by Enter; loose
\* text in the field runs into the first of them.
TypesTo(people) ==
  LET fresh == people \ Addressed
  IN  IF window.loose = Nothing
        THEN window' = [window EXCEPT !.chips = @ \cup fresh]
        ELSE \/ fresh = {} /\ UNCHANGED window
             \/ \E p \in fresh :
                  window' = [window EXCEPT !.loose = Nothing,
                               !.chips = @ \cup {Junk} \cup (fresh \ {p})]

\* A name is text: typed as it is, and not committed.
TypesName ==
  window' = [window EXCEPT !.loose = IF @ = Nothing THEN Name ELSE Junk]

\* _clear_recipients: the loose text, then chip by chip, and read back.
ClearsTo == window' = [window EXCEPT !.chips = {}, !.loose = Nothing]

\* The wall falls somewhere in it.
PartlyTypesTo(people) ==
  \E got \in SUBSET (people \ Addressed), rest \in {window.loose, Junk} :
    window' = [window EXCEPT !.chips = @ \cup got, !.loose = rest]
PartlyClearsTo ==
  \E kept \in SUBSET window.chips :
    window' = [window EXCEPT !.chips = kept, !.loose = Nothing]
PartlyWrites(f, text) == \E got \in {window.words[f], Blank, Mixed, text} : Writes(f, got)

-----------------------------------------------------------------------------
(* The worker                                                               *)

Works == pc = "work" /\ window.open /\ UNCHANGED pc
Writing == UNCHANGED <<approved, left, trust, draft, shown, wanted, typed,
                       source, agreed>>

\* A correction's text goes in with Replace, the first text of a new window
\* with Type; a breached wall leaves the order standing.
CarriesOutWords ==
  /\ Works /\ Writing
  /\ \E f \in Fields :
       LET text == order.words[f]
       IN  /\ text # Nothing
           /\ \/ /\ Replaces(f, IF cards = 0 THEN Typed(f, text) ELSE text)
                 /\ order' = [order EXCEPT !.words[f] = Nothing]
                 /\ UNCHANGED <<bounds, spoiled>>
              \/ /\ Trouble /\ PartlyWrites(f, text)
                 /\ spoiled' = IF cards = 0 THEN spoiled \cup {f} ELSE spoiled
                 /\ UNCHANGED order

ClearsRecipients ==
  /\ Works /\ Writing
  /\ order.clear
  /\ \/ /\ ClearsTo
        /\ order' = [order EXCEPT !.clear = FALSE]
        /\ spoiled' = spoiled \ {"to"}
        /\ UNCHANGED bounds
     \/ Trouble /\ PartlyClearsTo /\ UNCHANGED <<order, spoiled>>

TypesRecipients ==
  /\ Works /\ Writing
  /\ ~order.clear /\ order.to # {}
  /\ \/ /\ IF order.to = {Name} THEN TypesName
           ELSE Admissible(order.to) /\ TypesTo(order.to)
        /\ order' = [order EXCEPT !.to = {}]
        /\ UNCHANGED <<bounds, spoiled>>
     \/ /\ Trouble /\ Admissible(order.to) /\ PartlyTypesTo(order.to)
        /\ spoiled' = spoiled \cup {"to"}
        /\ UNCHANGED order

\* observe, before every choice of the worker: whoever the page shows in a
\* structured place becomes addressable, the chips of the window among them.
Observes ==
  /\ pc = "work"
  /\ \E seen \in SUBSET Mailbox :
       trusted' = trusted \cup seen \cup (window.chips \cap People)
  /\ UNCHANGED <<pc, surface, vouched, gate, bounds, agreed, spoiled>>

\* Any verb on any field that nobody asked for.
Slips ==
  /\ Works /\ Writing
  /\ Trouble
  /\ \/ \E f \in Fields, text \in Texts \cup {Blank} :
          (Replaces(f, text) \/ Writes(f, Typed(f, text)))
             /\ spoiled' = spoiled \cup {f}
     \/ /\ \/ \E p \in People : Admissible({p}) /\ TypesTo({p})
           \/ TypesName \/ ClearsTo
        /\ spoiled' = spoiled \cup {"to"}
  /\ UNCHANGED order

\* Send, proposed when the order is carried out or before that.
Pending == {f \in Fields : order.words[f] # Nothing}
             \cup (IF order.to # {} THEN {"to"} ELSE {})

\* route_after_reason: every Send goes to the gate, which presents a card.
Proposes ==
  /\ pc = "work" /\ window.open /\ cards < MaxCards
  /\ \E preview \in {Content, Unreadable} :
       /\ shown' = preview
       /\ trouble' = trouble + (IF preview = Unreadable THEN 1 ELSE 0)
                             + (IF Pending = {} THEN 0 ELSE 1)
  /\ trouble' <= MaxTrouble
  /\ cards' = cards + 1
  /\ spoiled' = spoiled \cup Pending
  /\ pc' = "card"
  /\ UNCHANGED <<surface, trust, draft, order, wanted, typed, source,
                 agreed>>

-----------------------------------------------------------------------------
(* The gate, run again from the top with the human's verdict: the window is *)
(* read a second time.                                                      *)

Approves ==
  /\ pc = "card" /\ pc' = "approved" /\ shown' = Unreadable
  /\ \E preview \in {Content, Unreadable} :
       Reads(preview) /\ approved' = approved \cup {preview}
  /\ agreed' = agreed \cup {IF shown = Unreadable THEN Content ELSE shown}
  /\ UNCHANGED <<window, left, trust, draft, order, wanted, typed, source,
                 spoiled>>

Rejects ==
  /\ pc = "card" /\ pc' = "work" /\ shown' = Unreadable
  /\ order' = NoOrder
  /\ UNCHANGED <<surface, trust, draft, wanted, typed, source, bounds,
                 agreed, spoiled>>

\* The human's correction.  The box holds the card's text; it comes back
\* untouched, retyped, or without the lines that make it an email.  The
\* instruction names a person, or wants something of the words; who the mail
\* goes to is corrected in one of the two.  A question leaves the words alone,
\* as an instruction about the recipient does.
Boxes ==
  IF shown = Unreadable THEN {}
  ELSE [to : Retargets \cup {shown.to},
        words : {[subject |-> subject, body |-> body] :
                  subject \in Texts \cup {shown.words["subject"]},
                  body \in Texts \cup {shown.words["body"]}}]
Instructions ==
  [who : {{}} \cup {{p} : p \in Named},
   scope : {"none", "adjust", "rewrite", "failed"}]
NoInstruction == [who |-> {}, scope |-> "no instruction"]

\* draft_from_preview: the printed "(empty)" subject is blank again; the
\* printed "(empty body)" stays what it says.
DraftFrom(words) == words

\* _recipient_change, then _retyped_recipient: against the card as re-read.
NewRecipient(preview, box, ask) ==
  IF ask.who # {} THEN ask.who
  ELSE IF box \in {NoBox, Unreadable} \/ preview = Unreadable THEN {}
  ELSE IF box.to = preview.to THEN {} ELSE box.to

\* A defect: any words the human typed give way to a rewrite.
ScopeUnchecked(ask, new, retyped) ==
  IF ask.scope = "failed" THEN (IF new # {} THEN "none" ELSE "adjust")
  ELSE ask.scope

\* The classifier's answer, or the rule for when it has none; a rewrite of
\* words the human has just typed is an adjustment of them.
Scope(ask, new, retyped) ==
  IF ask.scope = "failed" THEN (IF new # {} THEN "none" ELSE "adjust")
  ELSE IF ask.scope = "rewrite" /\ retyped THEN "adjust"
  ELSE ask.scope

\* _stale_fields: against the draft the run holds, not against the window.
Stale(before, after) ==
  IF before = NoDraft THEN Fields ELSE {f \in Fields : before[f] # after[f]}

\* What the gate does with words: the draft it ends up with, and whose it is.
Revisions(scope, retyped, boxDraft) ==
  LET base == IF retyped THEN boxDraft ELSE draft
      whose == IF retyped THEN "typed" ELSE source
  IN  IF scope = "adjust" /\ base # NoDraft
        THEN {<<d, whose>> : d \in {base} \cup [Fields -> Texts]}
      ELSE IF scope = "rewrite"
        THEN {<<d, "writer">> : d \in {NoDraft} \cup [Fields -> Texts]}
      ELSE {<<IF retyped THEN boxDraft ELSE NoDraft, whose>>}

\* The correction taken: what changes goes into the order.
Orders(new, revised) ==
  [to |-> new, clear |-> new # {},
   words |-> [f \in Fields |->
                IF revised # NoDraft /\ f \in Stale(draft, revised)
                  THEN revised[f] ELSE Nothing]]

\* What a person reads in a retyped card: a placeholder is no text.
Meant(words) == [f \in Fields |-> IF words[f] = Placeholder THEN Blank ELSE words[f]]

\* The correction goes into the run: its order, its draft, whose that is.
Corrects(new, revised, whose) ==
  /\ order' = Orders(new, revised)
  /\ draft' = IF revised = NoDraft THEN draft ELSE revised
  /\ source' = IF revised = NoDraft THEN source ELSE whose
  /\ wanted' = [to |-> IF new = {} THEN wanted.to ELSE new,
                words |-> IF revised = NoDraft THEN wanted.words
                          ELSE Meant(revised)]
  /\ spoiled' = spoiled \ {f \in Fields : order'.words[f] # Nothing}

Takes(preview, box, ask) ==
  LET retyped == box \notin {NoBox, Unreadable} /\ box # preview
      boxDraft == IF retyped THEN DraftFrom(box.words) ELSE NoDraft
      new == NewRecipient(preview, box, ask)
      scope == Scope(ask, new, retyped)
  IN  /\ box # NoBox \/ ask # NoInstruction
      /\ ask.who = {} \/ box.to \in {{}, shown.to}
      /\ EditsBlankBody \/ ~retyped \/ box.words["body"] # Placeholder
      /\ LET named == ask.who \cup (new \cap People)
         IN  trusted' = trusted \cup named /\ vouched' = vouched \cup named
      /\ typed' = retyped
      /\ \E rev \in Revisions(scope, retyped, boxDraft) :
           Corrects(new, rev[1], rev[2])

Edits ==
  /\ pc = "card" /\ pc' = "work" /\ shown' = Unreadable
  /\ cards < MaxCards
  /\ \E preview \in {Content, Unreadable},
        box \in {NoBox, Unreadable} \cup Boxes,
        ask \in {NoInstruction} \cup Instructions :
       Reads(preview) /\ Takes(preview, box, ask)
  /\ UNCHANGED <<surface, agreed>>

-----------------------------------------------------------------------------
(* act: the window is read once more, and only approved words are sent.     *)

Admits(preview) == preview \in approved

Dispatches ==
  /\ pc = "approved"
  /\ \E preview \in {Content, Unreadable} :
       Reads(preview) /\ pc' = IF Admits(preview) THEN "sending" ELSE "work"
  /\ UNCHANGED <<surface, trust, gate, agreed, spoiled>>

\* A defect: the buttons are tried although the shortcut has sent it.
LeavesTwice == left' = left \o <<Content, Content>>

Leaves == left' = Append(left, Content)

\* _do_send: the shortcut, then the buttons; the window closing is the only
\* sign.  The wall may fall after the mail has gone.
Sends ==
  /\ pc = "sending"
  /\ \/ /\ Leaves /\ agreed' = {}
        /\ window' = Closed
        /\ \/ pc' = "done" /\ UNCHANGED bounds
           \/ pc' = "work" /\ Trouble
     \/ UNCHANGED <<left, agreed, window>> /\ pc' = "work" /\ Trouble
  /\ UNCHANGED <<approved, trust, gate, spoiled>>

\* The human's own hands, at any moment: the browser is theirs too.
HandsOn ==
  /\ window.open /\ pc # "done"
  /\ Trouble
  /\ \/ \E f \in Fields, text \in Texts :
          Writes(f, text) /\ spoiled' = spoiled \cup {f} /\ UNCHANGED vouched
     \/ \E p \in Named :
          /\ window' = [window EXCEPT !.chips = {p}, !.loose = Nothing]
          /\ vouched' = vouched \cup {p} /\ spoiled' = spoiled \cup {"to"}
  /\ agreed' = agreed \cup {Reading(window')}
  /\ UNCHANGED <<pc, approved, left, trusted, gate>>

Worker ==
  Reset \/ Observes \/ Opens \/ CarriesOutWords \/ ClearsRecipients
  \/ TypesRecipients \/ Slips \/ Proposes \/ Dispatches \/ Sends
Human == Approves \/ Rejects \/ Edits \/ HandsOn

Next == Worker \/ Human

Spec == Init /\ [][Next]_vars

-----------------------------------------------------------------------------
\* The state stays in its types.
TypeOK ==
  /\ pc \in {"reset", "work", "card", "approved", "sending", "done"}
  /\ window.open \in BOOLEAN /\ window.chips \subseteq People \cup {Junk}
  /\ window.loose \in {Nothing, Name, Junk} /\ window.words \in [Fields -> Words]
  /\ trusted \subseteq People /\ vouched \subseteq People
  /\ draft \in Drafts \cup {NoDraft} \cup [Fields -> Words]
  /\ order.clear => order.to # {}
  /\ order.words \in [Fields -> Words \cup {Nothing}]
  /\ spoiled \subseteq Parts /\ typed \in BOOLEAN
  /\ source \in {"writer", "typed"}

Contents == [to : SUBSET (People \cup {Name, Junk}), words : [Fields -> Words]]

Promise == INSTANCE Consent WITH Contents <- Contents

\* Nothing leaves the mailbox with words or recipients, as a card reads them,
\* that no person approved or typed themselves, whatever the worker and a
\* correction did to the window in between: the gate and the surface together
\* implement the promise of module Consent, one agreement for one email.
ConsentSpec == Promise!Spec

\* A correction arrives: when the worker, having carried out its order,
\* proposes to send again, every part the human corrected says what they
\* wanted, through walls breached half way and recipients that need
\* replacing.
EditLands ==
  pc = "card" =>
    /\ \A f \in Fields \ spoiled : window.words[f] = wanted.words[f]
    /\ "to" \notin spoiled => Addressed = wanted.to

\* Words a human typed into the card are what the next draft is made from: no
\* classification of what else they said, no reviser and no outage puts the
\* old draft or a fresh one in their place.
TypedWordsStand == typed => source = "typed"

\* A mail goes to nobody the agent knows from a message's text alone: whoever
\* stands in the To field was named by the task, a correction or the human's own
\* hands, or was shown by the mailbox as a sender, a recipient or a contact,
\* through every slip of the worker and every wall that falls half way.  (A
\* stranger who wrote to the user is one of these.)
Known == vouched \cup Mailbox
RecipientsAreKnown == window.chips \cap People \subseteq Known

\* What a card stands for names every recipient the window holds.
RecipientsAreShown == pc = "card" /\ shown = Content => shown.to = Addressed

\* A correction is complete: whatever the window says otherwise than the
\* human's retyped card is in the order the worker is given.
CorrectionIsOrdered ==
  [][pc = "card" /\ pc' = "work" /\ typed' =>
       \A f \in Fields : window.words[f] # wanted'.words[f]
                           => order'.words[f] # Nothing]_vars

=============================================================================
