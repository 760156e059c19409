-------------------------- MODULE ComposeEdits_proofs --------------------------
(***************************************************************************)
(* Theorems about ComposeEdits, for any people, texts, cards and troubles:  *)
(* the email that leaves is one a person agreed to, and a correction        *)
(* arrives in the window.                                                   *)
(***************************************************************************)
EXTENDS ComposeEdits, TLAPS

-----------------------------------------------------------------------------
(* The invariants.                                                         *)

Windows == [open : BOOLEAN, chips : SUBSET (People \cup {Junk}),
            loose : {Nothing, Name, Junk}, words : [Fields -> Words]]

Shape ==
  /\ window \in Windows
  /\ trusted \subseteq People /\ vouched \subseteq People
  /\ order = [to |-> order.to, clear |-> order.clear, words |-> order.words]
  /\ order.clear \in BOOLEAN /\ order.words \in [Fields -> Words \cup {Nothing}]
  /\ draft \in {NoDraft} \cup [Fields -> Words]
  /\ shown \in Contents \cup {Unreadable}
  /\ typed \in BOOLEAN /\ cards \in Nat

\* The window a person is about to let go is one they agreed to: what their
\* card shows, or what they have made of the window with their own hands.
Agreement ==
  /\ agreed \subseteq Contents
  /\ pc = "card" => shown \in {Unreadable, Content} \/ Content \in agreed
  /\ pc \in {"approved", "sending"} => Content \in agreed

\* While nobody edits a card around its placeholder, none gets into a text.
Plain == Words \ {Placeholder}

PlainWords ==
  /\ window.words \in [Fields -> Plain]
  /\ order.words \in [Fields -> Plain \cup {Nothing}]
  /\ draft \in {NoDraft} \cup [Fields -> Plain]
  /\ shown.words["subject"] # Placeholder

\* The window is this email's: not the one a sent mail has left behind.
Live == window.open \/ left = <<>>

\* What no order changes any more is as wanted; what one will change is
\* ordered as wanted, and the first text goes into an empty field.
WordsOnTheirWay ==
  Live => \A f \in Fields \ spoiled :
    IF order.words[f] = Nothing THEN window.words[f] = wanted.words[f]
    ELSE /\ order.words[f] = wanted.words[f]
         /\ cards = 0 => window.words[f] = Blank

\* The same of the recipients, which are cleared before they are typed.
PeopleOnTheirWay ==
  /\ order.clear => order.to = wanted.to /\ order.to # {}
  /\ Live /\ "to" \notin spoiled =>
       IF order.to = {} THEN Addressed = wanted.to
       ELSE order.to = wanted.to /\ (order.clear \/ Addressed = {})

\* The draft is what is wanted; a closed window is empty; until the reset the
\* first order stands; on a card nothing ordered is outstanding, or it counts
\* as spoiled.
Settled ==
  /\ draft # NoDraft => wanted.words = draft
  /\ ~window.open => window = Closed
  /\ left \in Seq(Contents)
  /\ pc = "reset" => /\ order = FirstOrder(draft) /\ wanted.to = Task
                     /\ wanted.words = draft
  /\ pc = "card" => Pending \subseteq spoiled /\ cards # 0 /\ window.open

OnTheirWay == PlainWords /\ WordsOnTheirWay /\ PeopleOnTheirWay /\ Settled

-----------------------------------------------------------------------------
(* Words, windows and what a card reads in them.                           *)

\* No text asked for is no text.
LEMMA NothingIsNoWord ==
  /\ Nothing \notin Words /\ Texts \subseteq Plain /\ Plain \subseteq Words
  /\ NoDraft \notin [Fields -> Words]
  /\ Unreadable \notin Contents
  /\ {"subject", "body"} = Fields
<1>1. Nothing \notin Words
  BY Distinct DEF Words, Nothing, Blank, Mixed, Placeholder
<1>2. Texts \subseteq Plain /\ Plain \subseteq Words
  BY Distinct DEF Words, Plain
<1>3. "body" \in Fields /\ NoDraft["body"] = Nothing
  BY DEF NoDraft, Fields
<1>4. NoDraft \notin [Fields -> Words]
  BY <1>1, <1>3
<1>5. QED
  BY <1>1, <1>2, <1>4 DEF Contents, Unreadable, Fields

\* A writer's draft is a draft, and no placeholder stands in it.
LEMMA DraftsAreWords ==
  \A d \in [Fields -> Texts] :
    d \in [Fields -> Plain] /\ d \in [Fields -> Words] /\ d # NoDraft
BY NothingIsNoWord

\* A window, part by part.
LEMMA WindowParts ==
  ASSUME NEW w \in Windows
  PROVE  /\ w = [open |-> w.open, chips |-> w.chips, loose |-> w.loose,
                 words |-> w.words]
         /\ w.open \in BOOLEAN /\ w.chips \subseteq People \cup {Junk}
         /\ w.loose \in {Nothing, Name, Junk} /\ w.words \in [Fields -> Words]
BY DEF Windows

\* A new window and a closed one.
LEMMA EmptyIsAWindow ==
  ASSUME NEW open \in BOOLEAN PROVE Empty(open) \in Windows
<1>1. [f \in Fields |-> Blank] \in [Fields -> Words]
  BY DEF Words
<1>2. QED
  BY <1>1 DEF Empty, Windows

\* What a card reads is something it can show.
LEMMA ReadingIsContent ==
  ASSUME NEW w \in Windows PROVE Reading(w) \in Contents
<1>1. [f \in Fields |-> Rendered(f, w.words[f])] \in [Fields -> Words]
  BY WindowParts DEF Rendered, Words
<1>2. ToShown(w) \subseteq People \cup {Name, Junk}
  BY WindowParts DEF ToShown
<1>3. QED
  BY <1>1, <1>2 DEF Reading, Contents

\* A card reads the window and nothing else.
LEMMA SameWindowSameContent ==
  ASSUME UNCHANGED window PROVE Content' = Content
BY DEF Content, Reading, ToShown

\* Writing in a field leaves the rest of the window alone.
LEMMA WritingParts ==
  ASSUME window \in Windows, NEW f \in Fields, NEW text, Writes(f, text)
  PROVE  /\ window' = [open |-> window.open, chips |-> window.chips,
                       loose |-> window.loose,
                       words |-> [window.words EXCEPT ![f] = text]]
         /\ text \in Words => window' \in Windows
<1> DEFINE words == [window.words EXCEPT ![f] = text]
<1>w. window = [open |-> window.open, chips |-> window.chips,
                loose |-> window.loose, words |-> window.words]
  BY WindowParts
<1>1. window' = [window EXCEPT !.words = words]
  BY DEF Writes
<1>2. text \in Words => words \in [Fields -> Words]
  BY WindowParts
<1> HIDE DEF words
<1>3. window' = [open |-> window.open, chips |-> window.chips,
                 loose |-> window.loose, words |-> words]
  BY <1>1, <1>w
<1>4. text \in Words => window' \in Windows
  BY <1>2, <1>3, WindowParts DEF Windows
<1>5. QED
  BY <1>3, <1>4 DEF words

\* What the verbs write in a field are words.
LEMMA VerbsWriteWords ==
  ASSUME window \in Windows, NEW f \in Fields, NEW text \in Words
  PROVE  /\ Typed(f, text) \in Words
         /\ \A got \in {window.words[f], Blank, Mixed, text} : got \in Words
<1>1. window.words[f] \in Words
  BY WindowParts
<1>2. QED
  BY <1>1 DEF Typed, Words

\* Verbs on the To field: some chips, of which only these people can be new,
\* and some loose text.
Readdressed(people) ==
  \E chips \in SUBSET (window.chips \cup people \cup {Junk}),
     loose \in {Nothing, Name, Junk} :
    window' = [open |-> window.open, chips |-> chips, loose |-> loose,
               words |-> window.words]

\* Both parts of a To field written at once.
LEMMA ChipsAndLoose ==
  ASSUME window \in Windows, NEW chips, NEW loose,
         window' = [window EXCEPT !.chips = chips, !.loose = loose]
  PROVE  window' = [open |-> window.open, chips |-> chips, loose |-> loose,
                    words |-> window.words]
<1> DEFINE w == [window EXCEPT !.chips = chips]
<1>1. window' = [w EXCEPT !.loose = loose]
  OBVIOUS
<1>2. window = [open |-> window.open, chips |-> window.chips,
                loose |-> window.loose, words |-> window.words]
  BY WindowParts
<1>3. w = [open |-> window.open, chips |-> chips, loose |-> window.loose,
           words |-> window.words]
  BY <1>2
<1> HIDE DEF w
<1>4. QED
  BY <1>1, <1>3

\* The fields may also be written in the other order.
LEMMA LooseAndChips ==
  ASSUME window \in Windows, NEW chips, NEW loose,
         window' = [window EXCEPT !.loose = loose, !.chips = chips]
  PROVE  window' = [open |-> window.open, chips |-> chips, loose |-> loose,
                    words |-> window.words]
<1> DEFINE w == [window EXCEPT !.loose = loose]
<1>1. window' = [w EXCEPT !.chips = chips]
  OBVIOUS
<1>2. window = [open |-> window.open, chips |-> window.chips,
                loose |-> window.loose, words |-> window.words]
  BY WindowParts
<1>3. w = [open |-> window.open, chips |-> window.chips, loose |-> loose,
           words |-> window.words]
  BY <1>2
<1> HIDE DEF w
<1>4. QED
  BY <1>1, <1>3

\* Recipients typed, all of them or some (_do_type of tokens).
LEMMA TypingReaddresses ==
  ASSUME window \in Windows, NEW people, TypesTo(people) \/ PartlyTypesTo(people)
  PROVE  Readdressed(people)
<1>w. /\ window = [open |-> window.open, chips |-> window.chips,
                   loose |-> window.loose, words |-> window.words]
      /\ window.loose \in {Nothing, Name, Junk}
  BY WindowParts
<1>1. CASE UNCHANGED window
  BY <1>1, <1>w DEF Readdressed
<1>2. CASE window.loose = Nothing /\
           window' = [window EXCEPT !.chips = @ \cup (people \ Addressed)]
  <2>1. window' = [open |-> window.open,
                   chips |-> window.chips \cup (people \ Addressed),
                   loose |-> window.loose, words |-> window.words]
    BY <1>2, <1>w
  <2>2. QED
    BY <2>1, <1>w DEF Readdressed
<1>3. ASSUME NEW p \in people \ Addressed,
             window' = [window EXCEPT !.loose = Nothing,
               !.chips = @ \cup {Junk} \cup ((people \ Addressed) \ {p})]
      PROVE  Readdressed(people)
  <2>1. window' = [open |-> window.open,
                   chips |-> window.chips \cup {Junk} \cup ((people \ Addressed) \ {p}),
                   loose |-> Nothing, words |-> window.words]
    BY <1>3, <1>w
  <2>2. QED
    BY <2>1 DEF Readdressed
<1>4. ASSUME NEW got \in SUBSET (people \ Addressed), NEW rest \in {window.loose, Junk},
             window' = [window EXCEPT !.chips = @ \cup got, !.loose = rest]
      PROVE  Readdressed(people)
  <2>1. window' = [open |-> window.open, chips |-> window.chips \cup got,
                   loose |-> rest, words |-> window.words]
    BY <1>4, <1>w
  <2>2. QED
    BY <2>1, <1>w DEF Readdressed
<1>5. QED
  BY <1>1, <1>2, <1>3, <1>4 DEF TypesTo, PartlyTypesTo

\* A name typed: it stays loose.
LEMMA NamingReaddresses ==
  ASSUME window \in Windows, TypesName PROVE Readdressed({})
<1>1. PICK loose \in {Name, Junk} : window' = [window EXCEPT !.loose = loose]
  <2>1. \E loose \in {Name, Junk} : loose = IF window.loose = Nothing THEN Name ELSE Junk
    OBVIOUS
  <2>2. QED
    BY <2>1 DEF TypesName
<1>2. window' = [open |-> window.open, chips |-> window.chips, loose |-> loose,
                 words |-> window.words]
  BY <1>1, WindowParts
<1>3. QED
  BY <1>2 DEF Readdressed

\* Recipients cleared, all of them or some (_clear_recipients).
LEMMA ClearingReaddresses ==
  ASSUME window \in Windows, ClearsTo \/ PartlyClearsTo PROVE Readdressed({})
<1>1. PICK kept \in SUBSET window.chips :
        window' = [window EXCEPT !.chips = kept, !.loose = Nothing]
  BY DEF ClearsTo, PartlyClearsTo
<1>2. window' = [open |-> window.open, chips |-> kept, loose |-> Nothing,
                 words |-> window.words]
  BY <1>1, ChipsAndLoose
<1>3. QED
  BY <1>2 DEF Readdressed

\* After a verb on the To field the rest of the window is as it was, and only
\* those people can be new in it.
LEMMA ReaddressedParts ==
  ASSUME window \in Windows, NEW people \in SUBSET People, Readdressed(people)
  PROVE  /\ window' \in Windows
         /\ window'.open = window.open /\ window'.words = window.words
         /\ window'.chips \cap People \subseteq window.chips \cup people
<1>1. PICK chips \in SUBSET (window.chips \cup people \cup {Junk}),
           loose \in {Nothing, Name, Junk} :
             window' = [open |-> window.open, chips |-> chips, loose |-> loose,
                        words |-> window.words]
  BY DEF Readdressed
<1>2. Junk \notin People
  BY Distinct
<1>3. chips \subseteq People \cup {Junk} /\ chips \cap People \subseteq window.chips \cup people
  BY <1>2, WindowParts
<1>4. QED
  BY <1>1, <1>3, WindowParts DEF Windows

-----------------------------------------------------------------------------
(* Orders and corrections.                                                 *)

\* An order loses a part when it is carried out.
LEMMA OrderLosesWords ==
  ASSUME Shape, NEW f \in Fields, order' = [order EXCEPT !.words[f] = Nothing]
  PROVE  order' = [to |-> order.to, clear |-> order.clear,
                   words |-> [order.words EXCEPT ![f] = Nothing]]
<1> DEFINE words == [order.words EXCEPT ![f] = Nothing]
<1>1. order' = [order EXCEPT !.words = words]
  OBVIOUS
<1>2. order = [to |-> order.to, clear |-> order.clear, words |-> order.words]
  BY DEF Shape
<1> HIDE DEF words
<1>3. order' = [to |-> order.to, clear |-> order.clear, words |-> words]
  BY <1>1, <1>2
<1>4. QED
  BY <1>3 DEF words

\* An order whose clearing is done.
LEMMA OrderClears ==
  ASSUME Shape, order' = [order EXCEPT !.clear = FALSE]
  PROVE  /\ order' = [to |-> order'.to, clear |-> order'.clear, words |-> order'.words]
         /\ order'.to = order.to /\ order'.clear = FALSE /\ order'.words = order.words
<1>1. order = [to |-> order.to, clear |-> order.clear, words |-> order.words]
  BY DEF Shape
<1>2. order' = [to |-> order'.to, clear |-> order'.clear, words |-> order'.words]
  BY <1>1
<1>3. order'.to = order.to
  BY <1>1
<1>4. order'.clear = FALSE
  BY <1>1
<1>5. order'.words = order.words
  BY <1>1
<1>6. QED
  BY <1>2, <1>3, <1>4, <1>5

\* An order whose recipients have been typed.
LEMMA OrderLosesPeople ==
  ASSUME Shape, order' = [order EXCEPT !.to = {}]
  PROVE  order' = [to |-> {}, clear |-> order.clear, words |-> order.words]
BY DEF Shape

\* What the gate makes of a correction's words: nothing, or a draft of words
\* taken from those it had, those the human typed, and those anyone may write
\* (approval_gate.py, draft.py).
LEMMA RevisionParts ==
  ASSUME NEW W, Texts \subseteq W,
         draft \in {NoDraft} \cup [Fields -> W],
         NEW boxDraft \in {NoDraft} \cup [Fields -> W], NEW retyped \in BOOLEAN,
         NEW scope, NEW rev \in Revisions(scope, retyped, boxDraft)
  PROVE  rev[1] \in {NoDraft} \cup [Fields -> W]
<1> DEFINE base == IF retyped THEN boxDraft ELSE draft
           whose == IF retyped THEN "typed" ELSE source
<1>0. [Fields -> Texts] \subseteq [Fields -> W]
  OBVIOUS
<1>b. base \in {NoDraft} \cup [Fields -> W]
  OBVIOUS
<1>1. \/ \E d \in {base} \cup [Fields -> Texts] : rev = <<d, whose>>
      \/ \E d \in {NoDraft} \cup [Fields -> Texts] : rev = <<d, "writer">>
      \/ rev = <<IF retyped THEN boxDraft ELSE NoDraft, whose>>
  BY DEF Revisions
<1>2. QED
  BY <1>0, <1>1, <1>b

\* What the human typed is what the next draft is made from, unless they asked
\* for a rewrite.
LEMMA TypedRevision ==
  ASSUME NEW boxDraft, boxDraft # NoDraft,
         NEW scope, scope # "rewrite", NEW rev \in Revisions(scope, TRUE, boxDraft)
  PROVE  rev[1] # NoDraft /\ rev[2] = "typed"
<1>0. \A d \in [Fields -> Texts] : d # NoDraft
  BY DraftsAreWords
<1>1. \/ \E d \in {boxDraft} \cup [Fields -> Texts] : rev = <<d, "typed">>
      \/ rev = <<boxDraft, "typed">>
  BY DEF Revisions
<1>2. QED
  BY <1>0, <1>1

\* A card's box says something in every field it kept (draft_from_preview).
LEMMA BoxWords ==
  ASSUME Shape, NEW box \in Boxes
  PROVE  /\ box.words \in [Fields -> Words] /\ shown \in Contents
         /\ box.words["subject"] \in Texts \cup {shown.words["subject"]}
<1>1. shown \in Contents
  BY DEF Shape, Boxes
<1>2. /\ "subject" \in Fields /\ "body" \in Fields
  BY DEF Fields
<1>3. shown.words["subject"] \in Words /\ shown.words["body"] \in Words
  BY <1>1, <1>2 DEF Contents
<1>4. PICK subject \in Texts \cup {shown.words["subject"]},
           body \in Texts \cup {shown.words["body"]} :
             box.words = [subject |-> subject, body |-> body]
  BY DEF Boxes
<1>5. subject \in Words /\ body \in Words
  BY <1>3, <1>4, NothingIsNoWord
<1>6. [subject |-> subject, body |-> body] \in [Fields -> Words]
  BY <1>5 DEF Fields
<1>7. QED
  BY <1>1, <1>4, <1>6

\* The correction's words are these, whoever it names and whosever they are.
CorrectedInto(revised) == \E new, whose : Corrects(new, revised, whose)

\* What a correction leaves behind (approval_gate.py, the edit branch).
LEMMA EditParts ==
  ASSUME Shape, Edits
  PROVE  /\ pc = "card" /\ pc' = "work" /\ shown' = Unreadable
         /\ UNCHANGED <<window, approved, left, agreed, cards>>
         /\ vouched \subseteq vouched' /\ vouched' \subseteq People
         /\ trusted' \subseteq trusted \cup vouched' /\ trusted' \subseteq People
         /\ typed' \in BOOLEAN /\ (typed' => source' = "typed")
         /\ \E revised \in {NoDraft} \cup [Fields -> Words] :
              /\ CorrectedInto(revised)
              /\ ~EditsBlankBody /\ PlainWords =>
                   revised \in {NoDraft} \cup [Fields -> Plain]
<1>1. PICK preview \in {Content, Unreadable},
           box \in {NoBox, Unreadable} \cup Boxes,
           ask \in {NoInstruction} \cup Instructions :
             Reads(preview) /\ Takes(preview, box, ask)
  BY DEF Edits
<1> DEFINE retyped == box \notin {NoBox, Unreadable} /\ box # preview
           boxDraft == IF retyped THEN box.words ELSE NoDraft
           new == NewRecipient(preview, box, ask)
           scope == Scope(ask, new, retyped)
<1>2. /\ EditsBlankBody \/ ~retyped \/ box.words["body"] # Placeholder
      /\ \E named : named = ask.who \cup (new \cap People) /\
           trusted' = trusted \cup named /\ vouched' = vouched \cup named
      /\ typed' = retyped
      /\ \E rev \in Revisions(scope, retyped, boxDraft) :
           Corrects(new, rev[1], rev[2])
  BY <1>1 DEF Takes, DraftFrom
<1>3. PICK rev \in Revisions(scope, retyped, boxDraft) : Corrects(new, rev[1], rev[2])
  BY <1>2
<1>4. ask.who \subseteq People
  <2>1. CASE ask = NoInstruction
    BY <2>1 DEF NoInstruction
  <2>2. CASE ask \in Instructions
    <3>1. ask.who \in {{}} \cup {{p} : p \in Named}
      BY <2>2 DEF Instructions
    <3>2. QED
      BY <3>1 DEF Named
  <2>3. QED
    BY <2>1, <2>2
<1>5. retyped => box \in Boxes
  OBVIOUS
<1>6. boxDraft \in {NoDraft} \cup [Fields -> Words] /\ (retyped => boxDraft # NoDraft)
  BY <1>5, BoxWords, NothingIsNoWord
<1>7. retyped => scope # "rewrite"
  BY DEF Scope
<1>8. ~EditsBlankBody /\ PlainWords => boxDraft \in {NoDraft} \cup [Fields -> Plain]
  <2>1. SUFFICES ASSUME ~EditsBlankBody, PlainWords, retyped
        PROVE  box.words \in [Fields -> Plain]
    OBVIOUS
  <2>2. /\ box.words \in [Fields -> Words]
        /\ box.words["subject"] \in Texts \cup {shown.words["subject"]}
    BY <1>5, <2>1, BoxWords
  <2>3. box.words["subject"] # Placeholder
    BY <2>1, <2>2, Distinct DEF PlainWords
  <2>4. box.words["body"] # Placeholder
    BY <1>2, <2>1
  <2>5. \A f \in Fields : box.words[f] \in Plain
    BY <2>2, <2>3, <2>4 DEF Plain, Fields
  <2>6. QED
    BY <2>2, <2>5
<1>t. retyped \in BOOLEAN
  OBVIOUS
<1>d. draft \in {NoDraft} \cup [Fields -> Words]
  BY DEF Shape
<1> HIDE DEF retyped, boxDraft, new, scope
<1>9. /\ rev[1] \in {NoDraft} \cup [Fields -> Words]
      /\ retyped => rev[1] # NoDraft /\ rev[2] = "typed"
  <2>1. Texts \subseteq Words
    BY NothingIsNoWord
  <2>2. rev[1] \in {NoDraft} \cup [Fields -> Words]
    BY <2>1, <1>d, <1>3, <1>6, <1>t, RevisionParts
  <2>3. ASSUME retyped PROVE rev[1] # NoDraft /\ rev[2] = "typed"
    <3>1. retyped = TRUE
      BY <2>3, <1>t
    <3>2. rev \in Revisions(scope, TRUE, boxDraft)
      BY <1>3, <3>1
    <3>3. QED
      BY <2>3, <3>2, <1>6, <1>7, TypedRevision
  <2>4. QED
    BY <2>2, <2>3
<1>10. ~EditsBlankBody /\ PlainWords => rev[1] \in {NoDraft} \cup [Fields -> Plain]
  BY <1>3, <1>8, <1>t, NothingIsNoWord, RevisionParts DEF PlainWords
<1>12. typed' \in BOOLEAN /\ (typed' => source' = "typed")
  BY <1>2, <1>3, <1>9, <1>t DEF Corrects
<1>13. /\ vouched \subseteq vouched' /\ vouched' \subseteq People
       /\ trusted' \subseteq trusted \cup vouched' /\ trusted' \subseteq People
  BY <1>2, <1>4 DEF Shape
<1>14. cards' = cards
  BY <1>1 DEF Reads, Trouble, bounds
<1>15. CorrectedInto(rev[1])
  BY <1>3 DEF CorrectedInto
<1>16. QED
  BY <1>9, <1>10, <1>12, <1>13, <1>14, <1>15 DEF Edits, surface

-----------------------------------------------------------------------------
(* The shape of the state, and what goes with it step by step: nobody gets  *)
(* into the To field, and no text into the draft's place, that should not.  *)

\* Whoever may be addressed is known, and whoever is addressed.
Acquainted == trusted \subseteq Known /\ RecipientsAreKnown

Care == Shape /\ Acquainted /\ TypedWordsStand

\* An obedient worker and its verbs (playwright_surface.py).
LEMMA WorkerShape ==
  ASSUME Shape, Acquainted,
         CarriesOutWords \/ ClearsRecipients \/ TypesRecipients \/ Slips
  PROVE  /\ window' \in Windows /\ window'.open = window.open
         /\ window'.chips \cap People \subseteq Known
         /\ order' = [to |-> order'.to, clear |-> order'.clear, words |-> order'.words]
         /\ order'.clear \in BOOLEAN /\ order'.words \in [Fields -> Words \cup {Nothing}]
         /\ UNCHANGED <<pc, approved, left, trusted, vouched, draft, shown, wanted, typed,
                        source, agreed, cards>>
<1>w. window \in Windows /\ trusted \subseteq People
  BY DEF Shape
<1>o. /\ order = [to |-> order.to, clear |-> order.clear, words |-> order.words]
      /\ order.clear \in BOOLEAN /\ order.words \in [Fields -> Words \cup {Nothing}]
  BY DEF Shape
<1>u. UNCHANGED <<pc, approved, left, trusted, vouched, draft, shown, wanted, typed,
                  source, agreed, cards>> /\ window.open
  BY DEF CarriesOutWords, ClearsRecipients, TypesRecipients, Slips, Works, Writing,
     Trouble, bounds, trust
<1>1. ASSUME NEW f \in Fields, NEW text \in Words, Writes(f, text)
      PROVE  /\ window' \in Windows /\ window'.open = window.open
             /\ window'.chips \cap People \subseteq Known
  BY <1>1, <1>w, WritingParts DEF Acquainted, RecipientsAreKnown
<1>2. ASSUME NEW people \in SUBSET trusted, Readdressed(people)
      PROVE  /\ window' \in Windows /\ window'.open = window.open
             /\ window'.chips \cap People \subseteq Known
  <2>1. people \in SUBSET People
    BY <1>w
  <2>2. QED
    BY <1>2, <1>w, <2>1, ReaddressedParts DEF Acquainted, RecipientsAreKnown
<1>3. CASE CarriesOutWords
  <2>1. PICK f \in Fields :
          /\ order.words[f] # Nothing
          /\ \/ /\ Replaces(f, IF cards = 0 THEN Typed(f, order.words[f])
                                            ELSE order.words[f])
                /\ order' = [order EXCEPT !.words[f] = Nothing]
             \/ PartlyWrites(f, order.words[f]) /\ UNCHANGED order
    BY <1>3 DEF CarriesOutWords
  <2>2. order.words[f] \in Words
    BY <2>1, <1>o
  <2>3. \E text \in Words : Writes(f, text)
    BY <2>1, <2>2, <1>w, VerbsWriteWords DEF Replaces, PartlyWrites
  <2>4. CASE UNCHANGED order
    BY <2>3, <2>4, <1>1, <1>o, <1>u
  <2>5. CASE order' = [order EXCEPT !.words[f] = Nothing]
    <3>1. order' = [to |-> order.to, clear |-> order.clear,
                    words |-> [order.words EXCEPT ![f] = Nothing]]
      BY <2>5, OrderLosesWords
    <3>2. [order.words EXCEPT ![f] = Nothing] \in [Fields -> Words \cup {Nothing}]
      BY <1>o
    <3>3. QED
      BY <2>3, <3>1, <3>2, <1>1, <1>o, <1>u
  <2>6. QED
    BY <2>1, <2>4, <2>5
<1>4. CASE ClearsRecipients
  <2>1. \E people \in SUBSET trusted : Readdressed(people)
    <3>1. {} \in SUBSET trusted
      OBVIOUS
    <3>2. Readdressed({})
      BY <1>4, <1>w, ClearingReaddresses DEF ClearsRecipients
    <3>3. QED
      BY <3>1, <3>2
  <2>2. UNCHANGED order \/ order' = [order EXCEPT !.clear = FALSE]
    BY <1>4 DEF ClearsRecipients
  <2>4. /\ window' \in Windows /\ window'.open = window.open
        /\ window'.chips \cap People \subseteq Known
    BY <2>1, <1>2
  <2>5. /\ order' = [to |-> order'.to, clear |-> order'.clear, words |-> order'.words]
        /\ order'.clear \in BOOLEAN /\ order'.words \in [Fields -> Words \cup {Nothing}]
    BY <2>2, <1>o, OrderClears
  <2>6. QED
    BY <2>4, <2>5, <1>u
<1>5. CASE TypesRecipients
  <2>1. \E people \in SUBSET trusted : Readdressed(people)
    <3>1. \/ TypesName
          \/ order.to \subseteq trusted /\ (TypesTo(order.to) \/ PartlyTypesTo(order.to))
      BY <1>5 DEF TypesRecipients, Admissible
    <3>2. {} \subseteq trusted
      OBVIOUS
    <3>3. QED
      BY <3>1, <3>2, <1>w, NamingReaddresses, TypingReaddresses
  <2>2. UNCHANGED order \/ order' = [order EXCEPT !.to = {}]
    BY <1>5 DEF TypesRecipients
  <2>3. \/ UNCHANGED order
        \/ order' = [to |-> {}, clear |-> order.clear, words |-> order.words]
    BY <2>2, OrderLosesPeople
  <2>4. /\ window' \in Windows /\ window'.open = window.open
        /\ window'.chips \cap People \subseteq Known
    BY <2>1, <1>2
  <2>5. /\ order' = [to |-> order'.to, clear |-> order'.clear, words |-> order'.words]
        /\ order'.clear \in BOOLEAN /\ order'.words \in [Fields -> Words \cup {Nothing}]
    BY <2>3, <1>o
  <2>6. QED
    BY <2>4, <2>5, <1>u
<1>6. CASE Slips
  <2>1. UNCHANGED order
    BY <1>6 DEF Slips
  <2>2. \/ \E f \in Fields, text \in Words : Writes(f, text)
        \/ \E people \in SUBSET trusted : Readdressed(people)
    <3>1. ASSUME NEW f \in Fields, NEW text \in Texts \cup {Blank},
                 Replaces(f, text) \/ Writes(f, Typed(f, text))
          PROVE  \E words \in Words : Writes(f, words)
      <4>1. text \in Words
        BY DEF Words
      <4>2. QED
        BY <3>1, <4>1, <1>w, VerbsWriteWords DEF Replaces
    <3>2. ASSUME NEW p \in People, Admissible({p}) /\ TypesTo({p})
          PROVE  \E people \in SUBSET trusted : Readdressed(people)
      BY <3>2, <1>w, TypingReaddresses DEF Admissible
    <3>3. {} \subseteq trusted /\ (TypesName \/ ClearsTo => Readdressed({}))
      BY <1>w, NamingReaddresses, ClearingReaddresses
    <3>4. QED
      BY <1>6, <3>1, <3>2, <3>3 DEF Slips
  <2>3. QED
    BY <2>1, <2>2, <1>1, <1>2, <1>o, <1>u
<1>7. QED
  BY <1>3, <1>4, <1>5, <1>6

\* The human's own hands in the browser.
LEMMA HandsShape ==
  ASSUME Shape, Acquainted, HandsOn
  PROVE  /\ window' \in Windows /\ window'.open = window.open /\ window.open
         /\ window'.chips \cap People \subseteq Known'
         /\ vouched \subseteq vouched' /\ vouched' \subseteq People
         /\ agreed' = agreed \cup {Reading(window')}
         /\ UNCHANGED <<pc, approved, left, trusted, draft, order, shown, wanted, typed,
                        source, cards>>
<1>w. window \in Windows /\ vouched \subseteq People
  BY DEF Shape
<1>u. /\ agreed' = agreed \cup {Reading(window')} /\ window.open
      /\ UNCHANGED <<pc, approved, left, trusted, draft, order, shown, wanted, typed,
                     source, cards>>
  BY DEF HandsOn, gate, Trouble
<1>1. ASSUME NEW f \in Fields, NEW text \in Texts, Writes(f, text), UNCHANGED vouched
      PROVE  /\ window' \in Windows /\ window'.open = window.open
             /\ window'.chips \cap People \subseteq Known
  BY <1>1, <1>w, WritingParts, NothingIsNoWord DEF Acquainted, RecipientsAreKnown, Known
<1>2. ASSUME NEW p \in People, vouched' = vouched \cup {p},
             window' = [window EXCEPT !.chips = {p}, !.loose = Nothing]
      PROVE  /\ window' \in Windows /\ window'.open = window.open
             /\ window'.chips \cap People \subseteq Known'
  <2>1. window' = [open |-> window.open, chips |-> {p}, loose |-> Nothing,
                   words |-> window.words]
    BY <1>2, <1>w, ChipsAndLoose
  <2>2. QED
    BY <2>1, <1>2, <1>w, WindowParts DEF Windows, Known
<1>3. QED
  BY <1>1, <1>2, <1>u, <1>w DEF HandsOn, Named, Known

\* What a correction orders.
LEMMA OrdersShape ==
  ASSUME NEW W, NEW new, NEW revised \in {NoDraft} \cup [Fields -> W]
  PROVE  /\ Orders(new, revised) = [to |-> Orders(new, revised).to,
                                    clear |-> Orders(new, revised).clear,
                                    words |-> Orders(new, revised).words]
         /\ Orders(new, revised).to = new
         /\ Orders(new, revised).clear = (new # {})
         /\ Orders(new, revised).words \in [Fields -> W \cup {Nothing}]
         /\ \A f \in Fields : Orders(new, revised).words[f] =
              IF revised # NoDraft /\ f \in Stale(draft, revised)
                THEN revised[f] ELSE Nothing
BY DEF Orders

\* Every step keeps the shape of the state, the acquaintances and the typed
\* words.
LEMMA CareStep ==
  ASSUME Care, [Next]_vars
  PROVE  Care'
<1> USE DEF surface, gate, bounds, trust, Known
<1>s. Shape /\ Acquainted /\ TypedWordsStand
  BY DEF Care
<1>1. CASE CarriesOutWords \/ ClearsRecipients \/ TypesRecipients \/ Slips
  BY <1>s, <1>1, WorkerShape DEF Care, Shape, Acquainted, RecipientsAreKnown, TypedWordsStand
<1>2. CASE HandsOn
  BY <1>s, <1>2, HandsShape DEF Care, Shape, Acquainted, RecipientsAreKnown, TypedWordsStand
<1>3. CASE Reset \/ Opens \/ Sends
  <2>1. /\ window' \in {window, Empty(TRUE), Empty(FALSE)}
        /\ UNCHANGED <<trusted, vouched, order, draft, shown, typed, source, cards>>
    BY <1>3 DEF Reset, Opens, Sends, Closed, Trouble
  <2>2. \A open \in BOOLEAN : Empty(open) \in Windows /\ Empty(open).chips = {}
    BY EmptyIsAWindow DEF Empty
  <2>3. window' \in Windows /\ window'.chips \cap People \subseteq Known
    BY <1>s, <2>1, <2>2 DEF Shape, Acquainted, RecipientsAreKnown
  <2>4. QED
    BY <1>s, <2>1, <2>3 DEF Care, Shape, Acquainted, RecipientsAreKnown, TypedWordsStand
<1>4. CASE Proposes
  <2>1. /\ UNCHANGED <<window, trusted, vouched, order, draft, typed, source>>
        /\ shown' \in {Content, Unreadable} /\ cards' = cards + 1
    BY <1>4 DEF Proposes
  <2>2. Content \in Contents
    BY <1>s, ReadingIsContent DEF Content, Shape
  <2>3. QED
    BY <1>s, <2>1, <2>2 DEF Care, Shape, Acquainted, RecipientsAreKnown, TypedWordsStand
<1>5. CASE Approves \/ Dispatches
  <2>1. /\ UNCHANGED <<window, trusted, vouched, order, draft, typed, source>>
        /\ shown' \in {shown, Unreadable} /\ cards' = cards
    BY <1>5 DEF Approves, Dispatches, Reads, Trouble
  <2>2. QED
    BY <1>s, <2>1 DEF Care, Shape, Acquainted, RecipientsAreKnown, TypedWordsStand
<1>6. CASE Rejects
  <2>1. /\ UNCHANGED <<window, trusted, vouched, draft, typed, source, cards>>
        /\ shown' = Unreadable /\ order' = NoOrder
    BY <1>6 DEF Rejects
  <2>2. /\ NoOrder = [to |-> NoOrder.to, clear |-> NoOrder.clear,
                      words |-> NoOrder.words]
        /\ NoOrder.clear \in BOOLEAN /\ NoOrder.words \in [Fields -> Words \cup {Nothing}]
    BY DEF NoOrder, NoDraft
  <2>3. QED
    BY <1>s, <2>1, <2>2 DEF Care, Shape, Acquainted, RecipientsAreKnown, TypedWordsStand
<1>7. CASE Edits
  <2>0. PICK revised \in {NoDraft} \cup [Fields -> Words] : CorrectedInto(revised)
    BY <1>s, <1>7, EditParts
  <2>1. PICK new, whose : Corrects(new, revised, whose)
    BY <2>0 DEF CorrectedInto
  <2>2. /\ shown' = Unreadable /\ UNCHANGED <<window, cards>>
        /\ vouched \subseteq vouched' /\ vouched' \subseteq People
        /\ trusted' \subseteq trusted \cup vouched' /\ trusted' \subseteq People
        /\ typed' \in BOOLEAN /\ (typed' => source' = "typed")
    BY <1>s, <1>7, EditParts
  <2>3. /\ order' = [to |-> order'.to, clear |-> order'.clear, words |-> order'.words]
        /\ order'.clear \in BOOLEAN /\ order'.words \in [Fields -> Words \cup {Nothing}]
        /\ draft' \in {NoDraft} \cup [Fields -> Words]
    <3>1. order' = Orders(new, revised) /\ draft' \in {draft, revised}
      BY <2>1 DEF Corrects
    <3>2. draft' \in {NoDraft} \cup [Fields -> Words]
      BY <1>s, <2>0, <3>1 DEF Shape
    <3>3. /\ Orders(new, revised) = [to |-> Orders(new, revised).to,
                                     clear |-> Orders(new, revised).clear,
                                     words |-> Orders(new, revised).words]
          /\ Orders(new, revised).clear = (new # {})
      BY DEF Orders
    <3>4. Orders(new, revised).words \in [Fields -> Words \cup {Nothing}]
      BY <2>1, OrdersShape
    <3>5. QED
      BY <3>1, <3>2, <3>3, <3>4
  <2>4. QED
    BY <1>s, <2>2, <2>3 DEF Care, Shape, Acquainted, RecipientsAreKnown, TypedWordsStand
<1>o. CASE Observes
  <2>1. /\ UNCHANGED <<window, vouched, order, draft, shown, typed, source, cards>>
        /\ \E seen \in SUBSET Mailbox :
             trusted' = trusted \cup seen \cup (window.chips \cap People)
    BY <1>o DEF Observes
  <2>2. trusted' \subseteq Known /\ trusted' \subseteq People
    BY <1>s, <2>1, ComposeConstants DEF Shape, Acquainted, RecipientsAreKnown
  <2>3. QED
    BY <1>s, <2>1, <2>2 DEF Care, Shape, Acquainted, RecipientsAreKnown, TypedWordsStand
<1>8. CASE UNCHANGED vars
  BY <1>s, <1>8 DEF vars, Care, Shape, Acquainted, RecipientsAreKnown, TypedWordsStand
<1>9. QED
  BY <1>1, <1>2, <1>3, <1>4, <1>5, <1>6, <1>7, <1>8, <1>o
     DEF Next, Worker, Human

\* A run starts with the task's recipients and nothing typed.
LEMMA CareAtFirst == Init => Care
<1>1. SUFFICES ASSUME Init PROVE Care
  OBVIOUS
<1>2. window \in Windows /\ window.chips = {}
  <2>1. [f \in Fields |-> Mixed] \in [Fields -> Words]
    BY DEF Words
  <2>2. [open |-> TRUE, chips |-> {}, loose |-> Name,
         words |-> [f \in Fields |-> Mixed]] \in Windows
    BY <2>1 DEF Windows
  <2>3. Closed \in Windows /\ Closed.chips = {}
    BY EmptyIsAWindow DEF Closed, Empty
  <2>4. QED
    BY <1>1, <2>2, <2>3 DEF Init
<1>3. draft \in {NoDraft} \cup [Fields -> Words]
  BY <1>1, DraftsAreWords DEF Init
<1>4. /\ order = [to |-> order.to, clear |-> order.clear, words |-> order.words]
      /\ order.clear \in BOOLEAN /\ order.words \in [Fields -> Words \cup {Nothing}]
  <2>1. order = [to |-> Task, clear |-> FALSE, words |-> draft]
    BY <1>1 DEF Init, FirstOrder
  <2>2. draft \in [Fields -> Words \cup {Nothing}]
    BY <1>3 DEF NoDraft
  <2>3. QED
    BY <2>1, <2>2
<1>5. /\ trusted = Task /\ vouched = Task /\ Task \subseteq People
      /\ shown = Unreadable /\ typed = FALSE /\ cards = 0
  BY <1>1, ComposeConstants DEF Init
<1>6. QED
  BY <1>2, <1>3, <1>4, <1>5 DEF Care, Shape, Acquainted, RecipientsAreKnown,
     TypedWordsStand, Known

-----------------------------------------------------------------------------
(* The promise of module Consent.                                          *)

PromiseStep == Promise!Agree \/ Promise!Leave \/ UNCHANGED <<agreed, left>>

\* Every step keeps the agreement, and is one of module Consent's steps.
LEMMA AgreementStep ==
  ASSUME Care, Agreement, [Next]_vars
  PROVE  Agreement' /\ PromiseStep
<1> USE DEF surface, gate, bounds, PromiseStep
<1>s. Shape /\ Acquainted
  BY DEF Care
<1>w. window \in Windows /\ window' \in Windows /\ Content \in Contents
  <2>1. window \in Windows
    BY <1>s DEF Shape
  <2>2. window' \in Windows
    BY CareStep DEF Care, Shape
  <2>3. QED
    BY <2>1, <2>2, ReadingIsContent DEF Content
<1>a. agreed \subseteq Contents
  BY DEF Agreement
<1>1. CASE CarriesOutWords \/ ClearsRecipients \/ TypesRecipients \/ Slips
  <2>1. pc = "work" /\ UNCHANGED <<pc, agreed, left>>
    BY <1>s, <1>1, WorkerShape DEF CarriesOutWords, ClearsRecipients, TypesRecipients,
       Slips, Works
  <2>2. QED
    BY <2>1, <1>a DEF Agreement
<1>2. CASE Reset \/ Opens \/ Observes
  <2>1. pc' = "work" /\ UNCHANGED <<agreed, left>>
    BY <1>2 DEF Reset, Opens, Observes
  <2>2. QED
    BY <2>1, <1>a DEF Agreement
<1>3. CASE Proposes
  <2>1. /\ pc' = "card" /\ shown' \in {Content, Unreadable}
        /\ UNCHANGED <<window, agreed, left>>
    BY <1>3 DEF Proposes
  <2>2. Content' = Content
    BY <2>1, SameWindowSameContent
  <2>3. QED
    BY <2>1, <2>2, <1>a DEF Agreement
<1>4. CASE Approves
  <2>1. /\ pc = "card" /\ pc' = "approved" /\ UNCHANGED <<window, left>>
        /\ agreed' = agreed \cup {IF shown = Unreadable THEN Content ELSE shown}
    BY <1>4 DEF Approves
  <2>2. Content' = Content
    BY <2>1, SameWindowSameContent
  <2>3. shown = Unreadable \/ shown \in Contents
    BY <1>s DEF Shape
  <2>4. Content \in agreed' /\ agreed' \subseteq Contents
    BY <1>a, <1>w, <2>1, <2>3 DEF Agreement
  <2>5. Promise!Agree
    BY <2>1, <2>4 DEF Promise!Agree
  <2>6. QED
    BY <2>1, <2>2, <2>4, <2>5 DEF Agreement
<1>5. CASE Rejects \/ Edits
  <2>1. pc' = "work" /\ UNCHANGED <<agreed, left>>
    BY <1>5 DEF Rejects, Edits
  <2>2. QED
    BY <2>1, <1>a DEF Agreement
<1>6. CASE Dispatches
  <2>1. /\ pc = "approved" /\ pc' \in {"sending", "work"}
        /\ UNCHANGED <<window, agreed, left>>
    BY <1>6 DEF Dispatches
  <2>2. Content' = Content
    BY <2>1, SameWindowSameContent
  <2>3. QED
    BY <2>1, <2>2, <1>a DEF Agreement
<1>7. CASE Sends
  <2>1. pc = "sending" /\ pc' \in {"done", "work"} /\ Content \in agreed
    BY <1>7 DEF Sends, Agreement
  <2>2. CASE left' = Append(left, Content) /\ agreed' = {}
    <3>1. Promise!Leave
      BY <2>1, <2>2 DEF Promise!Leave
    <3>2. QED
      BY <3>1, <2>1, <2>2 DEF Agreement
  <2>3. CASE UNCHANGED <<agreed, left>>
    BY <2>1, <2>3, <1>a DEF Agreement
  <2>4. QED
    BY <1>7, <2>2, <2>3 DEF Sends, Leaves
<1>8. CASE HandsOn
  <2>1. agreed' = agreed \cup {Reading(window')} /\ UNCHANGED <<pc, shown, left>>
    BY <1>s, <1>8, HandsShape
  <2>2. Content' = Reading(window') /\ Reading(window') \in Contents
    BY <1>w, ReadingIsContent DEF Content
  <2>3. Promise!Agree
    BY <1>a, <2>1, <2>2 DEF Promise!Agree
  <2>4. QED
    BY <1>a, <2>1, <2>2, <2>3 DEF Agreement
<1>9. CASE UNCHANGED vars
  <2>1. UNCHANGED <<pc, shown, window, agreed, left>>
    BY <1>9 DEF vars
  <2>2. Content' = Content
    BY <2>1, SameWindowSameContent
  <2>3. QED
    BY <2>1, <2>2 DEF Agreement
<1>10. QED
  BY <1>1, <1>2, <1>3, <1>4, <1>5, <1>6, <1>7, <1>8, <1>9 DEF Next, Worker, Human

-----------------------------------------------------------------------------
(* A correction on its way: the words.                                     *)

\* Whatever a verb makes of plain text is plain.
LEMMA VerbsWritePlain ==
  ASSUME window.words \in [Fields -> Plain], NEW f \in Fields, NEW text \in Plain
  PROVE  /\ Typed(f, text) \in Plain
         /\ \A got \in {window.words[f], Blank, Mixed, text} : got \in Plain
<1>1. Blank \in Plain /\ Mixed \in Plain
  BY DEF Plain, Words, Blank, Mixed, Placeholder
<1>2. window.words[f] \in Plain
  OBVIOUS
<1>3. QED
  BY <1>1, <1>2 DEF Typed

\* Into an empty field a text is typed as it is.
LEMMA TypedIntoBlank ==
  ASSUME NEW f \in Fields, NEW text, window.words[f] = Blank
  PROVE  Typed(f, text) = text
BY DEF Typed

\* A step that lets the words of window, order and wish alone.
LEMMA WordsRest ==
  ASSUME WordsOnTheirWay, Live' => Live, spoiled \cap Fields \subseteq spoiled',
         order'.words = order.words, window'.words = window.words,
         wanted'.words = wanted.words, cards' = 0 => cards = 0
  PROVE  WordsOnTheirWay'
BY DEF WordsOnTheirWay

\* A field that is written although nobody ordered it, counted as spoiled.
LEMMA WordsSpoiled ==
  ASSUME WordsOnTheirWay, window \in Windows, window.open,
         NEW f \in Fields, NEW text, Writes(f, text),
         spoiled' = spoiled \cup {f}, UNCHANGED <<order, wanted, cards>>
  PROVE  WordsOnTheirWay'
<1>1. window'.words = [window.words EXCEPT ![f] = text]
  BY WritingParts
<1>2. \A g \in Fields : g # f => window'.words[g] = window.words[g]
  BY <1>1, WindowParts
<1>3. QED
  BY <1>2 DEF WordsOnTheirWay, Live

\* An order's text is written, or part of it is (playwright_surface.py,
\* _do_type and _do_replace).
LEMMA CarryingOut ==
  ASSUME Care, OnTheirWay, CarriesOutWords
  PROVE  WordsOnTheirWay' /\ window'.words \in [Fields -> Plain]
         /\ order'.words \in [Fields -> Plain \cup {Nothing}]
         /\ order'.to = order.to /\ order'.clear = order.clear
         /\ Addressed' = Addressed /\ ("to" \in spoiled => "to" \in spoiled')
         /\ spoiled \subseteq spoiled'
<1>s. Shape /\ WordsOnTheirWay
  BY DEF Care, OnTheirWay
<1>w. window \in Windows /\ order.words \in [Fields -> Words \cup {Nothing}]
  BY <1>s DEF Shape
<1>p. /\ window.words \in [Fields -> Plain]
      /\ order.words \in [Fields -> Plain \cup {Nothing}]
  BY DEF OnTheirWay, PlainWords
<1>u. window.open /\ Live /\ UNCHANGED wanted /\ cards' = cards
  BY DEF CarriesOutWords, Works, Writing, Trouble, bounds, Live
<1>1. PICK f \in Fields :
        /\ order.words[f] # Nothing
        /\ \/ /\ Replaces(f, IF cards = 0 THEN Typed(f, order.words[f])
                                          ELSE order.words[f])
              /\ order' = [order EXCEPT !.words[f] = Nothing]
              /\ UNCHANGED spoiled
           \/ /\ PartlyWrites(f, order.words[f])
              /\ spoiled' = IF cards = 0 THEN spoiled \cup {f} ELSE spoiled
              /\ UNCHANGED order
  BY DEF CarriesOutWords
<1>2. order.words[f] \in Plain
  BY <1>1, <1>p
<1>3. CASE /\ Replaces(f, IF cards = 0 THEN Typed(f, order.words[f]) ELSE order.words[f])
           /\ order' = [order EXCEPT !.words[f] = Nothing]
           /\ UNCHANGED spoiled
  <2> DEFINE text == IF cards = 0 THEN Typed(f, order.words[f]) ELSE order.words[f]
  <2>1. text \in Plain
    BY <1>2, <1>p, VerbsWritePlain
  <2>2. Writes(f, text)
    BY <1>3 DEF Replaces
  <2>t. f \notin spoiled => text = wanted.words[f]
    <3>1. SUFFICES ASSUME f \notin spoiled PROVE text = wanted.words[f]
      OBVIOUS
    <3>2. order.words[f] = wanted.words[f] /\ (cards = 0 => window.words[f] = Blank)
      BY <3>1, <1>1, <1>s, <1>u DEF WordsOnTheirWay
    <3>3. QED
      BY <3>2, TypedIntoBlank
  <2> HIDE DEF text
  <2>3. window' = [open |-> window.open, chips |-> window.chips, loose |-> window.loose,
                   words |-> [window.words EXCEPT ![f] = text]]
    BY <2>2, <1>w, WritingParts
  <2>4. /\ window'.words = [window.words EXCEPT ![f] = text]
        /\ window'.chips = window.chips /\ window'.loose = window.loose
    BY <2>3
  <2>5. /\ order'.words = [order.words EXCEPT ![f] = Nothing]
        /\ order'.to = order.to /\ order'.clear = order.clear
    BY <1>s, <1>3, OrderLosesWords
  <2>6. /\ window'.words \in [Fields -> Plain]
        /\ order'.words \in [Fields -> Plain \cup {Nothing}]
    BY <2>1, <2>4, <2>5, <1>p
  <2>7. Addressed' = Addressed
    BY <2>4 DEF Addressed
  <2>8. ASSUME NEW g \in Fields \ spoiled
        PROVE  IF order'.words[g] = Nothing THEN window'.words[g] = wanted.words[g]
               ELSE /\ order'.words[g] = wanted.words[g]
                    /\ cards = 0 => window'.words[g] = Blank
    <3>1. CASE g = f
      <4>1. order'.words[g] = Nothing /\ window'.words[g] = text
        BY <3>1, <2>4, <2>5, <1>p
      <4>2. QED
        BY <4>1, <3>1, <2>8, <2>t
    <3>2. CASE g # f
      <4>1. order'.words[g] = order.words[g] /\ window'.words[g] = window.words[g]
        BY <3>2, <2>4, <2>5, <1>p
      <4>2. QED
        BY <4>1, <1>s, <1>u DEF WordsOnTheirWay
    <3>3. QED
      BY <3>1, <3>2
  <2>9. WordsOnTheirWay'
    BY <2>8, <1>3, <1>u DEF WordsOnTheirWay
  <2>10. QED
    BY <2>5, <2>6, <2>7, <2>9, <1>3
<1>4. CASE /\ PartlyWrites(f, order.words[f])
           /\ spoiled' = IF cards = 0 THEN spoiled \cup {f} ELSE spoiled
           /\ UNCHANGED order
  <2>1. PICK got \in {window.words[f], Blank, Mixed, order.words[f]} : Writes(f, got)
    BY <1>4 DEF PartlyWrites
  <2>2. got \in Plain
    BY <2>1, <1>2, <1>p, VerbsWritePlain
  <2>3. window' = [open |-> window.open, chips |-> window.chips, loose |-> window.loose,
                   words |-> [window.words EXCEPT ![f] = got]]
    BY <2>1, <1>w, WritingParts
  <2>4. /\ window'.words = [window.words EXCEPT ![f] = got]
        /\ window'.chips = window.chips /\ window'.loose = window.loose
    BY <2>3
  <2>5. window'.words \in [Fields -> Plain] /\ Addressed' = Addressed
    BY <2>2, <2>4, <1>p DEF Addressed
  <2>6. WordsOnTheirWay'
    <3>1. ASSUME NEW g \in Fields \ spoiled'
          PROVE  IF order.words[g] = Nothing THEN window'.words[g] = wanted.words[g]
                 ELSE /\ order.words[g] = wanted.words[g]
                      /\ cards = 0 => window'.words[g] = Blank
      <4>1. g \in Fields \ spoiled
        BY <1>4
      <4>2. CASE g = f
        <5>1. cards # 0 /\ order.words[g] = wanted.words[g]
          BY <4>1, <4>2, <3>1, <1>1, <1>4, <1>s, <1>u DEF WordsOnTheirWay
        <5>2. QED
          BY <5>1, <4>2, <1>1
      <4>3. CASE g # f
        <5>1. window'.words[g] = window.words[g]
          BY <4>3, <2>4, <1>p
        <5>2. QED
          BY <5>1, <4>1, <1>s, <1>u DEF WordsOnTheirWay
      <4>4. QED
        BY <4>2, <4>3
    <3>2. QED
      BY <3>1, <1>4, <1>u DEF WordsOnTheirWay
  <2>7. QED
    BY <2>5, <2>6, <1>4, <1>p
<1>5. QED
  BY <1>1, <1>3, <1>4

-----------------------------------------------------------------------------
(* The recipients.                                                         *)

\* A step that lets the recipients of window, order and wish alone, or counts
\* them as spoiled.
LEMMA PeopleRest ==
  ASSUME PeopleOnTheirWay, order'.to = order.to, order'.clear = order.clear,
         wanted'.to = wanted.to, Live' => Live,
         "to" \notin spoiled' => "to" \notin spoiled /\ Addressed' = Addressed
  PROVE  PeopleOnTheirWay'
BY DEF PeopleOnTheirWay

\* Into an empty To field go those people and nobody else, committed.
LEMMA IntoAnEmptyField ==
  ASSUME window \in Windows, Addressed = {}
  PROVE  /\ \A people : TypesTo(people) => Addressed' = people
         /\ TypesName => Addressed' = {Name}
<1>1. window.chips = {} /\ window.loose = Nothing
  BY DEF Addressed
<1>2. ASSUME NEW people, TypesTo(people) PROVE Addressed' = people
  <2>1. window' = [window EXCEPT !.chips = {} \cup people]
    BY <1>1, <1>2 DEF TypesTo, Addressed
  <2>2. window = [open |-> window.open, chips |-> window.chips, loose |-> window.loose,
                  words |-> window.words]
    BY WindowParts
  <2>3. window'.chips = people /\ window'.loose = Nothing
    BY <2>1, <2>2, <1>1
  <2>4. QED
    BY <2>3 DEF Addressed
<1>3. ASSUME TypesName PROVE Addressed' = {Name}
  <2>1. window' = [window EXCEPT !.loose = Name]
    BY <1>1, <1>3 DEF TypesName
  <2>2. window = [open |-> window.open, chips |-> window.chips, loose |-> window.loose,
                  words |-> window.words]
    BY WindowParts
  <2>3. window'.chips = {} /\ window'.loose = Name
    BY <2>1, <2>2, <1>1
  <2>4. Name # Nothing
    BY DEF Name, Nothing
  <2>5. QED
    BY <2>3, <2>4 DEF Addressed
<1>4. QED
  BY <1>2, <1>3

\* Clearing leaves nobody (_clear_recipients).
LEMMA ClearedField ==
  ASSUME window \in Windows, ClearsTo
  PROVE  Addressed' = {}
<1>1. window' = [open |-> window.open, chips |-> {}, loose |-> Nothing,
                 words |-> window.words]
  BY ChipsAndLoose DEF ClearsTo
<1>2. QED
  BY <1>1 DEF Addressed

\* The recipients are cleared and typed as ordered, or the wall falls in it
\* (playwright_surface.py, _do_replace and _do_type of tokens).
LEMMA Readdressing ==
  ASSUME Care, OnTheirWay, ClearsRecipients \/ TypesRecipients
  PROVE  /\ PeopleOnTheirWay' /\ window'.words = window.words
         /\ window'.open = window.open
         /\ order'.words = order.words /\ spoiled \cap Fields \subseteq spoiled'
<1>s. Shape /\ Acquainted /\ PeopleOnTheirWay /\ window \in Windows
  BY DEF Care, OnTheirWay, Shape
<1>u. /\ window.open /\ Live /\ UNCHANGED wanted /\ "to" \notin Fields
  BY DEF ClearsRecipients, TypesRecipients, Works, Writing, Live, Fields
<1>v. ASSUME NEW people \in SUBSET People, Readdressed(people)
      PROVE  window'.words = window.words /\ window'.open = window.open
  BY <1>v, <1>s, ReaddressedParts
<1>1. CASE ClearsRecipients
  <2>1. Readdressed({}) /\ {} \in SUBSET People
    BY <1>1, <1>s, ClearingReaddresses DEF ClearsRecipients
  <2>2. window'.words = window.words /\ window'.open = window.open
    BY <2>1, <1>v
  <2>c. order.clear /\ order.to = wanted.to /\ order.to # {}
    BY <1>1, <1>s DEF ClearsRecipients, PeopleOnTheirWay
  <2>3. CASE ClearsTo /\ order' = [order EXCEPT !.clear = FALSE] /\ spoiled' = spoiled \ {"to"}
    <3>1. order'.to = order.to /\ order'.clear = FALSE /\ order'.words = order.words
      BY <1>s, <2>3, OrderClears
    <3>2. Addressed' = {}
      BY <1>s, <2>3, ClearedField
    <3>3. PeopleOnTheirWay'
      BY <3>1, <3>2, <2>c, <1>u DEF PeopleOnTheirWay
    <3>4. QED
      BY <3>1, <3>3, <2>2, <2>3, <1>u
  <2>4. CASE UNCHANGED <<order, spoiled>>
    <3>1. PeopleOnTheirWay'
      BY <2>4, <2>c, <1>u DEF PeopleOnTheirWay
    <3>2. QED
      BY <3>1, <2>2, <2>4
  <2>5. QED
    BY <1>1, <2>3, <2>4 DEF ClearsRecipients
<1>2. CASE TypesRecipients
  <2>0. ~order.clear /\ order.to # {}
    BY <1>2 DEF TypesRecipients
  <2>1. window'.words = window.words /\ window'.open = window.open
    <3>1. \/ TypesName
          \/ order.to \subseteq trusted /\ (TypesTo(order.to) \/ PartlyTypesTo(order.to))
      BY <1>2 DEF TypesRecipients, Admissible
    <3>2. {} \in SUBSET People /\ (order.to \subseteq trusted => order.to \in SUBSET People)
      BY <1>s DEF Shape
    <3>3. QED
      BY <3>1, <3>2, <1>s, <1>v, NamingReaddresses, TypingReaddresses
  <2>2. CASE /\ (order.to = {Name} /\ TypesName) \/ TypesTo(order.to)
             /\ order' = [order EXCEPT !.to = {}] /\ UNCHANGED spoiled
    <3>1. order'.to = {} /\ order'.clear = order.clear /\ order'.words = order.words
      BY <1>s, <2>2, OrderLosesPeople
    <3>2. ASSUME "to" \notin spoiled PROVE Addressed' = wanted.to
      <4>1. order.to = wanted.to /\ Addressed = {}
        BY <3>2, <2>0, <1>s, <1>u DEF PeopleOnTheirWay
      <4>2. Addressed' = order.to
        BY <4>1, <2>2, <1>s, IntoAnEmptyField
      <4>3. QED
        BY <4>1, <4>2
    <3>3. PeopleOnTheirWay'
      BY <3>1, <3>2, <2>0, <2>2, <1>u DEF PeopleOnTheirWay
    <3>4. QED
      BY <3>1, <3>3, <2>1, <2>2
  <2>3. CASE spoiled' = spoiled \cup {"to"} /\ UNCHANGED order
    <3>1. PeopleOnTheirWay'
      BY <2>0, <2>3 DEF PeopleOnTheirWay
    <3>2. QED
      BY <3>1, <2>1, <2>3
  <2>4. QED
    BY <1>2, <2>2, <2>3 DEF TypesRecipients
<1>3. QED
  BY <1>1, <1>2

\* A slip, or the human's own hands: whatever they touch counts as spoiled.
Meddling ==
  \/ \E f \in Fields, text \in Plain :
       Writes(f, text) /\ spoiled' = spoiled \cup {f}
  \/ \E people \in SUBSET People :
       Readdressed(people) /\ spoiled' = spoiled \cup {"to"}

\* What is touched without an order counts as spoiled; the rest is untouched.
LEMMA MeddlingSpoils ==
  ASSUME OnTheirWay, window \in Windows, window.open, Meddling,
         UNCHANGED <<order, wanted, cards>>
  PROVE  /\ WordsOnTheirWay' /\ PeopleOnTheirWay' /\ window'.open = window.open
         /\ window'.words \in [Fields -> Plain] /\ spoiled \subseteq spoiled'
<1>s. WordsOnTheirWay /\ PeopleOnTheirWay /\ Live /\ window.words \in [Fields -> Plain]
  BY DEF OnTheirWay, PlainWords, Live
<1>1. ASSUME NEW f \in Fields, NEW text \in Plain,
             Writes(f, text) /\ spoiled' = spoiled \cup {f}
      PROVE  /\ WordsOnTheirWay' /\ PeopleOnTheirWay' /\ window'.open = window.open
             /\ window'.words \in [Fields -> Plain] /\ spoiled \subseteq spoiled'
  <2>1. window' = [open |-> window.open, chips |-> window.chips, loose |-> window.loose,
                   words |-> [window.words EXCEPT ![f] = text]]
    BY <1>1, WritingParts
  <2>2. /\ window'.words = [window.words EXCEPT ![f] = text]
        /\ window'.chips = window.chips /\ window'.loose = window.loose
        /\ window'.open = window.open
    BY <2>1
  <2>3. Addressed' = Addressed /\ "to" \notin Fields
    BY <2>2 DEF Addressed, Fields
  <2>4. PeopleOnTheirWay'
    BY <1>1, <1>s, <2>3, PeopleRest
  <2>5. WordsOnTheirWay'
    BY <1>1, <1>s, WordsSpoiled
  <2>6. QED
    BY <1>1, <1>s, <2>2, <2>4, <2>5
<1>2. ASSUME NEW people \in SUBSET People,
             Readdressed(people) /\ spoiled' = spoiled \cup {"to"}
      PROVE  /\ WordsOnTheirWay' /\ PeopleOnTheirWay' /\ window'.open = window.open
             /\ window'.words \in [Fields -> Plain] /\ spoiled \subseteq spoiled'
  <2>1. window'.words = window.words /\ window'.open = window.open
    BY <1>2, ReaddressedParts
  <2>2. WordsOnTheirWay'
    BY <1>2, <1>s, <2>1, WordsRest
  <2>3. PeopleOnTheirWay'
    BY <1>2, <1>s, PeopleRest
  <2>4. QED
    BY <1>2, <1>s, <2>1, <2>2, <2>3
<1>3. QED
  BY <1>1, <1>2 DEF Meddling

\* What an unfaithful worker does to the window is meddling.
LEMMA SlipsMeddle ==
  ASSUME Care, OnTheirWay, Slips PROVE Meddling
<1>w. window \in Windows /\ window.words \in [Fields -> Plain]
  BY DEF Care, Shape, OnTheirWay, PlainWords
<1>1. ASSUME NEW f \in Fields, NEW text \in Texts \cup {Blank},
             Replaces(f, text) \/ Writes(f, Typed(f, text)), spoiled' = spoiled \cup {f}
      PROVE  Meddling
  <2>1. text \in Plain
    BY NothingIsNoWord DEF Plain, Words, Blank, Placeholder
  <2>2. QED
    BY <1>1, <2>1, <1>w, VerbsWritePlain DEF Replaces, Meddling
<1>2. ASSUME NEW p \in People, TypesTo({p}), spoiled' = spoiled \cup {"to"}
      PROVE  Meddling
  BY <1>2, <1>w, TypingReaddresses DEF Meddling
<1>3. ASSUME TypesName \/ ClearsTo, spoiled' = spoiled \cup {"to"}
      PROVE  Meddling
  <2>1. {} \in SUBSET People /\ Readdressed({})
    BY <1>3, <1>w, NamingReaddresses, ClearingReaddresses
  <2>2. QED
    BY <1>3, <2>1 DEF Meddling
<1>4. QED
  BY <1>1, <1>2, <1>3 DEF Slips

\* So is what the human's own hands do.
LEMMA HandsMeddle ==
  ASSUME Care, HandsOn PROVE Meddling
<1>w. window \in Windows
  BY DEF Care, Shape
<1>1. ASSUME NEW f \in Fields, NEW text \in Texts, Writes(f, text),
             spoiled' = spoiled \cup {f}
      PROVE  Meddling
  BY <1>1, NothingIsNoWord DEF Meddling
<1>2. ASSUME NEW p \in People, spoiled' = spoiled \cup {"to"},
             window' = [window EXCEPT !.chips = {p}, !.loose = Nothing]
      PROVE  Meddling
  <2>1. window' = [open |-> window.open, chips |-> {p}, loose |-> Nothing,
                   words |-> window.words]
    BY <1>2, <1>w, ChipsAndLoose
  <2>2. {p} \in SUBSET People /\ Readdressed({p})
    BY <2>1 DEF Readdressed
  <2>3. QED
    BY <1>2, <2>2 DEF Meddling
<1>3. QED
  BY <1>1, <1>2 DEF HandsOn, Named

-----------------------------------------------------------------------------
(* The correction itself, and the rest.                                    *)

\* A plain text means what it says.
LEMMA PlainIsMeant ==
  \A d \in [Fields -> Plain] : Meant(d) = d /\ d # NoDraft
<1>1. SUFFICES ASSUME NEW d \in [Fields -> Plain] PROVE Meant(d) = d /\ d # NoDraft
  OBVIOUS
<1>2. \A f \in Fields : d[f] # Placeholder
  BY DEF Plain
<1>3. Meant(d) = [f \in Fields |-> d[f]]
  BY <1>2 DEF Meant
<1>4. d # NoDraft
  <2>1. d \in [Fields -> Words]
    BY NothingIsNoWord
  <2>2. QED
    BY <2>1, NothingIsNoWord
<1>5. QED
  BY <1>3, <1>4

\* A correction orders whatever the window does not say yet: what it does not
\* order is in the draft as it was, and the draft is in the window.
LEMMA CorrectionOrders ==
  ASSUME ~EditsBlankBody, Care, OnTheirWay, Edits
  PROVE  OnTheirWay'
<1>s. /\ Shape /\ PlainWords /\ WordsOnTheirWay /\ PeopleOnTheirWay
      /\ draft # NoDraft => wanted.words = draft
      /\ ~window.open => window = Closed
      /\ left \in Seq(Contents)
  BY DEF Care, OnTheirWay, Settled
<1>c. /\ pc = "card" /\ pc' = "work" /\ shown' = Unreadable
      /\ UNCHANGED <<window, left, cards>>
  BY <1>s, EditParts
<1>d. Pending \subseteq spoiled /\ cards # 0 /\ window.open /\ Live
  BY <1>c DEF OnTheirWay, Settled, Live
<1>0. PICK revised \in {NoDraft} \cup [Fields -> Plain] : CorrectedInto(revised)
  BY <1>s, EditParts
<1>1. PICK new, whose : Corrects(new, revised, whose)
  BY <1>0 DEF CorrectedInto
<1>2. /\ order' = Orders(new, revised)
      /\ draft' = (IF revised = NoDraft THEN draft ELSE revised)
      /\ wanted'.to = (IF new = {} THEN wanted.to ELSE new)
      /\ wanted'.words = (IF revised = NoDraft THEN wanted.words ELSE Meant(revised))
      /\ spoiled' = spoiled \ {f \in Fields : order'.words[f] # Nothing}
  BY <1>1 DEF Corrects
<1>3. /\ order'.to = new /\ order'.clear = (new # {})
      /\ \A f \in Fields : order'.words[f] =
           IF revised # NoDraft /\ f \in Stale(draft, revised) THEN revised[f] ELSE Nothing
  BY <1>2 DEF Orders
<1>4. order'.words \in [Fields -> Plain \cup {Nothing}]
  BY <1>0, <1>2, OrdersShape
<1>n. revised # NoDraft => Meant(revised) = revised /\ \A f \in Fields : revised[f] # Nothing
  BY <1>0, PlainIsMeant, NothingIsNoWord
<1>5. PlainWords'
  <2>1. draft' \in {NoDraft} \cup [Fields -> Plain]
    BY <1>0, <1>2, <1>s DEF PlainWords
  <2>2. shown'.words["subject"] # Placeholder
    <3>1. shown'.words = NoDraft /\ "subject" \in Fields
      BY <1>c DEF Unreadable, Fields
    <3>2. QED
      BY <3>1 DEF NoDraft, Nothing, Placeholder
  <2>3. QED
    BY <1>4, <1>c, <1>s, <2>1, <2>2 DEF PlainWords
<1>6. WordsOnTheirWay'
  <2>1. ASSUME NEW f \in Fields \ spoiled'
        PROVE  IF order'.words[f] = Nothing THEN window.words[f] = wanted'.words[f]
               ELSE order'.words[f] = wanted'.words[f]
    <3>1. CASE order'.words[f] # Nothing
      <4>1. revised # NoDraft /\ order'.words[f] = revised[f]
        BY <3>1, <1>3
      <4>2. QED
        BY <4>1, <1>2, <1>n
    <3>2. CASE order'.words[f] = Nothing
      <4>1. f \in Fields \ spoiled
        BY <3>2, <1>2
      <4>2. order.words[f] = Nothing
        BY <4>1, <1>d DEF Pending
      <4>3. window.words[f] = wanted.words[f]
        BY <4>1, <4>2, <1>d, <1>s DEF WordsOnTheirWay
      <4>4. CASE revised = NoDraft
        BY <4>3, <4>4, <1>2, <3>2
      <4>5. CASE revised # NoDraft
        <5>1. f \notin Stale(draft, revised)
          BY <3>2, <4>5, <1>3, <1>n
        <5>2. draft # NoDraft /\ draft[f] = revised[f]
          BY <5>1, <4>1 DEF Stale
        <5>3. wanted.words[f] = revised[f]
          BY <5>2, <1>s
        <5>4. QED
          BY <4>3, <4>5, <5>3, <1>2, <1>n, <3>2
      <4>6. QED
        BY <4>4, <4>5
    <3>3. QED
      BY <3>1, <3>2
  <2>2. QED
    BY <2>1, <1>c, <1>d DEF WordsOnTheirWay
<1>7. PeopleOnTheirWay'
  <2>1. "to" \notin Fields
    BY DEF Fields
  <2>2. "to" \notin spoiled' => "to" \notin spoiled /\ Addressed = wanted.to
    <3>1. SUFFICES ASSUME "to" \notin spoiled' PROVE "to" \notin spoiled /\ Addressed = wanted.to
      OBVIOUS
    <3>2. "to" \notin spoiled
      BY <3>1, <2>1, <1>2
    <3>3. order.to = {}
      BY <3>2, <1>d DEF Pending
    <3>4. QED
      BY <3>2, <3>3, <1>d, <1>s DEF PeopleOnTheirWay
  <2>3. Addressed' = Addressed
    BY <1>c DEF Addressed
  <2>4. QED
    BY <2>2, <2>3, <1>2, <1>3 DEF PeopleOnTheirWay
<1>8. Settled'
  <2>1. draft' # NoDraft => wanted'.words = draft'
    BY <1>2, <1>n, <1>s
  <2>2. ~window'.open => window' = Closed'
    BY <1>c, <1>d
  <2>3. QED
    BY <2>1, <2>2, <1>c, <1>s DEF Settled
<1>9. QED
  BY <1>5, <1>6, <1>7, <1>8 DEF OnTheirWay

\* Every step keeps the corrections on their way.
LEMMA OnTheirWayStep ==
  ASSUME ~EditsBlankBody, Care, OnTheirWay, [Next]_vars
  PROVE  OnTheirWay'
<1> USE DEF surface, gate, bounds
<1>s. /\ Shape /\ Acquainted /\ window \in Windows
      /\ PlainWords /\ WordsOnTheirWay /\ PeopleOnTheirWay /\ Settled
  BY DEF Care, Shape, OnTheirWay
<1>b. [f \in Fields |-> Blank] \in [Fields -> Plain]
  BY DEF Plain, Words, Blank, Placeholder
<1>k. Content \in Contents
  BY <1>s, ReadingIsContent DEF Content
<1>1. CASE CarriesOutWords
  <2>1. /\ pc = "work" /\ window.open /\ window'.open = window.open
        /\ UNCHANGED <<pc, wanted, left, draft, shown, cards>>
    BY <1>s, <1>1, WorkerShape DEF CarriesOutWords, Works
  <2>2. /\ WordsOnTheirWay' /\ window'.words \in [Fields -> Plain]
        /\ order'.words \in [Fields -> Plain \cup {Nothing}]
        /\ order'.to = order.to /\ order'.clear = order.clear
        /\ Addressed' = Addressed /\ ("to" \in spoiled => "to" \in spoiled')
    BY <1>1, CarryingOut
  <2>3. PeopleOnTheirWay'
    BY <1>s, <2>1, <2>2, PeopleRest DEF Live
  <2>4. PlainWords'
    BY <1>s, <2>1, <2>2 DEF PlainWords
  <2>5. Settled'
    BY <1>s, <2>1 DEF Settled
  <2>6. QED
    BY <2>2, <2>3, <2>4, <2>5 DEF OnTheirWay
<1>2. CASE ClearsRecipients \/ TypesRecipients
  <2>1. /\ pc = "work" /\ window.open /\ window'.open = window.open
        /\ UNCHANGED <<pc, wanted, left, draft, shown, cards>>
    BY <1>s, <1>2, WorkerShape DEF ClearsRecipients, TypesRecipients, Works
  <2>2. /\ PeopleOnTheirWay' /\ window'.words = window.words
        /\ order'.words = order.words /\ spoiled \cap Fields \subseteq spoiled'
    BY <1>2, Readdressing
  <2>3. WordsOnTheirWay'
    BY <1>s, <2>1, <2>2, WordsRest DEF Live
  <2>4. PlainWords'
    BY <1>s, <2>1, <2>2 DEF PlainWords
  <2>5. Settled'
    BY <1>s, <2>1 DEF Settled
  <2>6. QED
    BY <2>2, <2>3, <2>4, <2>5 DEF OnTheirWay
<1>3. CASE Slips \/ HandsOn
  <2>1. /\ window.open /\ Meddling
        /\ UNCHANGED <<pc, order, wanted, left, draft, shown, cards>>
    <3>1. Meddling
      BY <1>3, SlipsMeddle, HandsMeddle
    <3>2. CASE Slips
      BY <3>1, <3>2 DEF Slips, Works, Writing, Trouble
    <3>3. CASE HandsOn
      BY <3>1, <3>3, <1>s, HandsShape
    <3>4. QED
      BY <1>3, <3>2, <3>3
  <2>2. /\ WordsOnTheirWay' /\ PeopleOnTheirWay' /\ window'.open = window.open
        /\ window'.words \in [Fields -> Plain] /\ spoiled \subseteq spoiled'
    BY <1>s, <2>1, MeddlingSpoils
  <2>3. PlainWords'
    BY <1>s, <2>1, <2>2 DEF PlainWords
  <2>4. Pending' = Pending
    BY <2>1 DEF Pending
  <2>5. Settled'
    BY <1>s, <2>1, <2>2, <2>4 DEF Settled, FirstOrder
  <2>6. QED
    BY <2>2, <2>3, <2>5 DEF OnTheirWay
<1>4. CASE Edits
  BY <1>4, CorrectionOrders
<1>5. CASE Reset
  <2>1. /\ pc = "reset" /\ pc' = "work" /\ cards' = cards
        /\ UNCHANGED <<order, wanted, left, draft, shown>>
        /\ \/ window' = Closed /\ spoiled' = Unwritten
           \/ window.open /\ UNCHANGED <<window, spoiled>>
    BY <1>5 DEF Reset, Trouble
  <2>2. CASE window.open /\ UNCHANGED <<window, spoiled>>
    <3>1. WordsOnTheirWay'
      BY <1>s, <2>1, <2>2, WordsRest DEF Live
    <3>2. PeopleOnTheirWay'
      BY <1>s, <2>1, <2>2, PeopleRest DEF Live, Addressed
    <3>3. PlainWords' /\ Settled'
      BY <1>s, <2>1, <2>2 DEF PlainWords, Settled
    <3>4. QED
      BY <3>1, <3>2, <3>3 DEF OnTheirWay
  <2>3. CASE window' = Closed /\ spoiled' = Unwritten
    <3>1. /\ window'.words = [f \in Fields |-> Blank] /\ window'.chips = {}
          /\ window'.loose = Nothing
      BY <2>3 DEF Closed, Empty
    <3>2. Addressed' = {}
      BY <3>1 DEF Addressed
    <3>3. /\ order.to = Task /\ order.clear = FALSE /\ order.words = draft
          /\ wanted.to = Task /\ wanted.words = draft /\ Task # {}
      BY <1>s, <2>1, ComposeConstants DEF Settled, FirstOrder
    <3>4. WordsOnTheirWay'
      <4>1. CASE draft = NoDraft
        BY <4>1, <2>1, <2>3 DEF WordsOnTheirWay, Unwritten
      <4>2. CASE draft \in [Fields -> Plain]
        <5>1. \A f \in Fields : draft[f] # Nothing /\ window'.words[f] = Blank
          BY <4>2, <3>1, NothingIsNoWord
        <5>2. QED
          BY <5>1, <3>3, <2>1 DEF WordsOnTheirWay
      <4>3. QED
        BY <1>s, <4>1, <4>2 DEF PlainWords
    <3>5. PeopleOnTheirWay'
      BY <3>2, <3>3, <2>1 DEF PeopleOnTheirWay
    <3>6. PlainWords'
      BY <1>s, <1>b, <2>1, <3>1 DEF PlainWords
    <3>7. Settled'
      BY <1>s, <2>1, <2>3 DEF Settled, Closed, Empty
    <3>8. QED
      BY <3>4, <3>5, <3>6, <3>7 DEF OnTheirWay
  <2>4. QED
    BY <2>1, <2>2, <2>3
<1>6. CASE Opens
  <2>1. /\ pc = "work" /\ ~window.open /\ window' = Empty(TRUE)
        /\ spoiled' = (IF left = <<>> THEN spoiled ELSE Parts)
        /\ UNCHANGED <<pc, order, wanted, left, draft, shown, cards>>
    BY <1>6 DEF Opens
  <2>2. window = Empty(FALSE)
    BY <1>s, <2>1 DEF Settled, Closed
  <2>3. /\ window'.words = window.words /\ window'.open = TRUE
        /\ window'.chips = window.chips /\ window'.loose = window.loose
    BY <2>1, <2>2 DEF Empty
  <2>4. Addressed' = Addressed
    BY <2>3 DEF Addressed
  <2>5. CASE left = <<>>
    <3>1. WordsOnTheirWay'
      BY <1>s, <2>1, <2>3, <2>5, WordsRest DEF Live
    <3>2. PeopleOnTheirWay'
      BY <1>s, <2>1, <2>4, <2>5, PeopleRest DEF Live
    <3>3. QED
      BY <3>1, <3>2, <1>s, <2>1, <2>3 DEF OnTheirWay, PlainWords, Settled
  <2>6. CASE left # <<>>
    <3>1. spoiled' = Parts /\ "to" \in Parts /\ Fields \subseteq Parts
      BY <2>1, <2>6 DEF Parts
    <3>2. WordsOnTheirWay'
      BY <3>1 DEF WordsOnTheirWay
    <3>3. PeopleOnTheirWay'
      BY <1>s, <2>1, <3>1 DEF PeopleOnTheirWay
    <3>4. QED
      BY <3>2, <3>3, <1>s, <2>1, <2>3 DEF OnTheirWay, PlainWords, Settled
  <2>7. QED
    BY <2>5, <2>6
<1>7. CASE Proposes
  <2>1. /\ pc' = "card" /\ window.open /\ shown' \in {Content, Unreadable}
        /\ cards' = cards + 1 /\ spoiled' = spoiled \cup Pending
        /\ UNCHANGED <<window, order, wanted, left, draft>>
    BY <1>7 DEF Proposes
  <2>2. cards' # 0 /\ Pending' = Pending
    BY <1>s, <2>1 DEF Shape, Pending
  <2>3. shown'.words["subject"] # Placeholder
    <3>1. "subject" \in Fields
      BY DEF Fields
    <3>2. Content.words["subject"] = window.words["subject"]
      BY <3>1 DEF Content, Reading, Rendered
    <3>3. window.words["subject"] # Placeholder
      BY <1>s, <3>1 DEF PlainWords, Plain
    <3>4. Unreadable.words["subject"] # Placeholder
      BY <3>1 DEF Unreadable, NoDraft, Nothing, Placeholder
    <3>5. QED
      BY <2>1, <3>2, <3>3, <3>4
  <2>4. WordsOnTheirWay'
    BY <1>s, <2>1, <2>2, WordsRest DEF Live
  <2>5. PeopleOnTheirWay'
    BY <1>s, <2>1, PeopleRest DEF Live, Addressed
  <2>6. PlainWords' /\ Settled'
    BY <1>s, <2>1, <2>2, <2>3 DEF PlainWords, Settled
  <2>7. QED
    BY <2>4, <2>5, <2>6 DEF OnTheirWay
<1>8. CASE Dispatches \/ Approves \/ Observes
  <2>1. /\ pc' \in {"sending", "work", "approved"} /\ shown' \in {shown, Unreadable}
        /\ UNCHANGED <<window, order, wanted, left, draft, cards, spoiled>>
    BY <1>8 DEF Dispatches, Approves, Observes, Reads, Trouble
  <2>2. shown'.words["subject"] # Placeholder
    <3>1. Unreadable.words["subject"] # Placeholder
      BY DEF Unreadable, NoDraft, Nothing, Placeholder, Fields
    <3>2. QED
      BY <1>s, <2>1, <3>1 DEF PlainWords
  <2>3. WordsOnTheirWay'
    BY <1>s, <2>1, WordsRest DEF Live
  <2>4. PeopleOnTheirWay'
    BY <1>s, <2>1, PeopleRest DEF Live, Addressed
  <2>5. PlainWords' /\ Settled'
    BY <1>s, <2>1, <2>2 DEF PlainWords, Settled
  <2>6. QED
    BY <2>3, <2>4, <2>5 DEF OnTheirWay
<1>9. CASE Rejects
  <2>1. /\ pc = "card" /\ pc' = "work" /\ shown' = Unreadable /\ order' = NoOrder
        /\ UNCHANGED <<window, wanted, left, draft, cards, spoiled>>
    BY <1>9 DEF Rejects
  <2>2. Pending \subseteq spoiled /\ window.open /\ Live
    BY <1>s, <2>1 DEF Settled, Live
  <2>3. /\ order'.to = {} /\ order'.clear = FALSE /\ order'.words = NoDraft
        /\ \A f \in Fields : order'.words[f] = Nothing
    BY <2>1 DEF NoOrder, NoDraft
  <2>4. WordsOnTheirWay'
    <3>1. ASSUME NEW f \in Fields \ spoiled PROVE window.words[f] = wanted.words[f]
      <4>1. order.words[f] = Nothing
        BY <2>2 DEF Pending
      <4>2. QED
        BY <4>1, <1>s, <2>2 DEF WordsOnTheirWay
    <3>2. QED
      BY <3>1, <2>1, <2>3 DEF WordsOnTheirWay
  <2>5. PeopleOnTheirWay'
    <3>1. "to" \notin spoiled => Addressed = wanted.to
      <4>1. "to" \notin spoiled => order.to = {}
        BY <2>2 DEF Pending
      <4>2. QED
        BY <4>1, <1>s, <2>2 DEF PeopleOnTheirWay
    <3>2. Addressed' = Addressed
      BY <2>1 DEF Addressed
    <3>3. QED
      BY <3>1, <3>2, <2>1, <2>3 DEF PeopleOnTheirWay
  <2>6. PlainWords'
    <3>1. NoDraft \in [Fields -> Plain \cup {Nothing}]
      BY DEF NoDraft
    <3>2. shown'.words["subject"] # Placeholder
      BY <2>1 DEF Unreadable, NoDraft, Nothing, Placeholder, Fields
    <3>3. QED
      BY <1>s, <2>1, <2>3, <3>1, <3>2 DEF PlainWords
  <2>7. Settled'
    BY <1>s, <2>1 DEF Settled
  <2>8. QED
    BY <2>4, <2>5, <2>6, <2>7 DEF OnTheirWay
<1>10. CASE Sends
  <2>1. /\ pc' \in {"done", "work"}
        /\ UNCHANGED <<order, wanted, draft, shown, cards, spoiled>>
        /\ \/ left' = Append(left, Content) /\ window' = Closed
           \/ UNCHANGED <<left, window>>
    BY <1>10 DEF Sends, Leaves, Trouble
  <2>2. CASE UNCHANGED <<left, window>>
    <3>1. WordsOnTheirWay'
      BY <1>s, <2>1, <2>2, WordsRest DEF Live
    <3>2. PeopleOnTheirWay'
      BY <1>s, <2>1, <2>2, PeopleRest DEF Live, Addressed
    <3>3. PlainWords' /\ Settled'
      BY <1>s, <2>1, <2>2 DEF PlainWords, Settled
    <3>4. QED
      BY <3>1, <3>2, <3>3 DEF OnTheirWay
  <2>3. CASE left' = Append(left, Content) /\ window' = Closed
    <3>1. ~Live'
      <4>1. left' # <<>>
        BY <1>s, <2>3 DEF Settled
      <4>2. QED
        BY <4>1, <2>3 DEF Live, Closed, Empty
    <3>2. WordsOnTheirWay' /\ PeopleOnTheirWay'
      BY <3>1, <1>s, <2>1 DEF WordsOnTheirWay, PeopleOnTheirWay
    <3>3. window'.words = [f \in Fields |-> Blank]
      BY <2>3 DEF Closed, Empty
    <3>4. PlainWords' /\ Settled'
      BY <1>s, <1>b, <1>k, <2>1, <2>3, <3>3 DEF PlainWords, Settled, Closed, Empty
    <3>5. QED
      BY <3>2, <3>4 DEF OnTheirWay
  <2>4. QED
    BY <2>1, <2>2, <2>3
<1>11. CASE UNCHANGED vars
  <2>1. UNCHANGED <<pc, window, order, wanted, left, draft, shown, cards, spoiled>>
    BY <1>11 DEF vars
  <2>2. WordsOnTheirWay'
    BY <1>s, <2>1, WordsRest DEF Live
  <2>3. PeopleOnTheirWay'
    BY <1>s, <2>1, PeopleRest DEF Live, Addressed
  <2>4. PlainWords' /\ Settled'
    BY <1>s, <2>1 DEF PlainWords, Settled, Pending, FirstOrder
  <2>5. QED
    BY <2>2, <2>3, <2>4 DEF OnTheirWay
<1>12. QED
  BY <1>1, <1>2, <1>3, <1>4, <1>5, <1>6, <1>7, <1>8, <1>9, <1>10, <1>11
     DEF Next, Worker, Human

\* At first the writer's draft is wanted and ordered; a window a run before
\* left open is no part of this email.
LEMMA OnTheirWayAtFirst == Init => OnTheirWay
<1>1. SUFFICES ASSUME Init PROVE OnTheirWay
  OBVIOUS
<1>2. /\ pc = "reset" /\ left = <<>> /\ cards = 0 /\ shown = Unreadable
      /\ draft \in {NoDraft} \cup [Fields -> Texts]
      /\ wanted.to = Task /\ wanted.words = draft
      /\ order = FirstOrder(draft)
      /\ order.to = Task /\ order.clear = FALSE /\ order.words = draft
      /\ spoiled = (IF window.open THEN Parts ELSE Unwritten)
  BY <1>1 DEF Init, FirstOrder
<1>3. \/ window.open = TRUE /\ window.words = [f \in Fields |-> Mixed]
      \/ window.open = FALSE /\ window = Closed
  BY <1>1 DEF Init, Closed, Empty
<1>4. draft \in {NoDraft} \cup [Fields -> Plain]
  BY <1>2, DraftsAreWords
<1>5. PlainWords
  <2>1. window.words \in [Fields -> Plain]
    <3>1. /\ [f \in Fields |-> Mixed] \in [Fields -> Plain]
          /\ [f \in Fields |-> Blank] \in [Fields -> Plain]
      BY DEF Plain, Words, Mixed, Blank, Placeholder
    <3>2. QED
      BY <1>3, <3>1 DEF Closed, Empty
  <2>2. draft \in [Fields -> Plain \cup {Nothing}]
    BY <1>4 DEF NoDraft
  <2>3. shown.words["subject"] # Placeholder
    BY <1>2 DEF Unreadable, NoDraft, Nothing, Placeholder, Fields
  <2>4. QED
    BY <1>2, <1>4, <2>1, <2>2, <2>3 DEF PlainWords
<1>6. Settled
  BY <1>2, <1>3 DEF Settled
<1>7. CASE window.open
  <2>1. spoiled = Parts /\ "to" \in Parts /\ Fields \subseteq Parts
    BY <1>2, <1>7 DEF Parts
  <2>2. WordsOnTheirWay /\ PeopleOnTheirWay
    BY <1>2, <2>1 DEF WordsOnTheirWay, PeopleOnTheirWay
  <2>3. QED
    BY <1>5, <1>6, <2>2 DEF OnTheirWay
<1>8. CASE ~window.open
  <2>1. /\ spoiled = Unwritten /\ Addressed = {}
        /\ window.words = [f \in Fields |-> Blank]
    BY <1>2, <1>3, <1>8 DEF Closed, Empty, Addressed
  <2>2. WordsOnTheirWay
    <3>1. CASE draft = NoDraft
      BY <3>1, <2>1 DEF WordsOnTheirWay, Unwritten
    <3>2. CASE draft \in [Fields -> Plain]
      <4>1. \A f \in Fields : draft[f] # Nothing /\ window.words[f] = Blank
        BY <3>2, <2>1, NothingIsNoWord
      <4>2. QED
        BY <4>1, <1>2 DEF WordsOnTheirWay
    <3>3. QED
      BY <1>4, <3>1, <3>2
  <2>3. PeopleOnTheirWay
    BY <1>2, <2>1, ComposeConstants DEF PeopleOnTheirWay
  <2>4. QED
    BY <1>5, <1>6, <2>2, <2>3 DEF OnTheirWay
<1>9. QED
  BY <1>7, <1>8

-----------------------------------------------------------------------------
(* The theorems.                                                           *)

\* The state keeps its shape, the vault admits only people the mailbox showed or
\* a human named, and with it the two properties below hold (vault.py; dispatch.py).
THEOREM CareHolds == Spec => []Care
<1>1. Care /\ [Next]_vars => Care'
  BY CareStep
<1>2. QED
  BY <1>1, CareAtFirst, PTL DEF Spec

\* RecipientsAreKnown: whoever stands in the To field was named by the task, a
\* correction or the human's hands, or shown by the mailbox as a correspondent.
\* Nobody gets there from a message's text: no slip of the model types them, no
\* wall that falls half way through a recipient, and no observation of the
\* window makes them addressable (vault.py, the addressable tokens; pipeline.py,
\* what a page teaches; dispatch.py, _resolve_tokens).
THEOREM OnlyKnownRecipients == Spec => []RecipientsAreKnown
<1>1. Care => RecipientsAreKnown
  BY DEF Care, Acquainted
<1>2. QED
  BY <1>1, CareHolds, PTL

\* TypedWordsStand: after a card a human has retyped the draft is theirs,
\* whatever instruction came along with it and whatever the classifier made of
\* that (approval_gate.py, the edit branch).
THEOREM TypedWordsAreKept == Spec => []TypedWordsStand
<1>1. Care => TypedWordsStand
  BY DEF Care
<1>2. QED
  BY <1>1, CareHolds, PTL

\* The window about to be sent holds what a person has agreed to: no step of
\* worker or gate between the verdict and the click changes it unseen, because
\* the gate and act read the window again (approval_gate.py; nodes.py, act).
THEOREM AgreementHolds == Spec => []Agreement
<1>1. Init => Agreement
  BY DEF Init, Agreement
<1>2. Care /\ Agreement /\ [Next]_vars => Agreement'
  BY AgreementStep
<1>3. QED
  BY <1>1, <1>2, CareHolds, PTL DEF Spec

\* ConsentSpec: the gate, the worker, the surface and the human's own hands
\* together implement module Consent, one agreement for one email.
THEOREM GateImplementsConsent == Spec => ConsentSpec
<1>1. Init => Promise!Init
  BY DEF Init, Promise!Init
<1>2. Care /\ Agreement /\ [Next]_vars
        => [Promise!Agree \/ Promise!Leave]_<<agreed, left>>
  BY AgreementStep DEF PromiseStep
<1>3. QED
  BY <1>1, <1>2, CareHolds, AgreementHolds, PTL DEF Spec, ConsentSpec, Promise!Spec

\* What is ordered and not yet written, and what is in the window, are on
\* their way to what the human wants.
THEOREM OnTheirWayHolds == ASSUME ~EditsBlankBody PROVE Spec => []OnTheirWay
<1>1. Care /\ OnTheirWay /\ [Next]_vars => OnTheirWay'
  BY OnTheirWayStep
<1>2. QED
  BY <1>1, OnTheirWayAtFirst, CareHolds, PTL DEF Spec

\* EditLands: when the worker proposes to send again, every part a human has
\* corrected says what they want, unless somebody has changed it since for a
\* reason of their own (approval_gate.py, the order it gives; nodes.py and
\* playwright_surface.py, _do_replace, which carry it out).
THEOREM CorrectionsLand == ASSUME ~EditsBlankBody PROVE Spec => []EditLands
<1>1. OnTheirWay => EditLands
  <2>1. SUFFICES ASSUME OnTheirWay, pc = "card"
                 PROVE  /\ \A f \in Fields \ spoiled : window.words[f] = wanted.words[f]
                        /\ "to" \notin spoiled => Addressed = wanted.to
    BY DEF EditLands
  <2>2. Pending \subseteq spoiled /\ Live
    BY <2>1 DEF OnTheirWay, Settled, Live
  <2>3. \A f \in Fields \ spoiled : order.words[f] = Nothing
    BY <2>2 DEF Pending
  <2>4. "to" \notin spoiled => order.to = {}
    BY <2>2 DEF Pending
  <2>5. QED
    BY <2>1, <2>2, <2>3, <2>4 DEF OnTheirWay, WordsOnTheirWay, PeopleOnTheirWay
<1>2. QED
  BY <1>1, OnTheirWayHolds, PTL

=============================================================================
