------------------------------ MODULE Cards_proofs ------------------------------
(***************************************************************************)
(* Theorems about Cards, for any words, causes and bounds: whoever is      *)
(* asked for an approval or an answer sees the card, and no approval card  *)
(* is left over.                                                           *)
(***************************************************************************)
EXTENDS Cards, FiniteSetTheorems, WellFoundedInduction, TLAPS

-----------------------------------------------------------------------------
(* The invariants.                                                         *)

Questions == [kind : {"question"}, id : Nat]
Approvals == [kind : {"approval_request"}, id : Previews]
OptionCards == [kind : {"options"}, id : Causes \X Nat]
CardsShown == Questions \cup Approvals \cup OptionCards
Notices == [kind : {"reasoning", "approval_result", "run_complete"}]

Typed ==
  /\ pc \in {"work", "acting", "asked", "resumed", "ending", "over"}
  /\ pending \in CardsShown \cup {NoCard} /\ last \in CardsShown \cup {NoCard}
  /\ log \in Seq(CardsShown \cup Notices) /\ answered \subseteq CardsShown
  /\ heard \in 0..Len(log) /\ decided \in Nat /\ asks \in Nat /\ tried \in Nat
  /\ window \in Previews

Logged == {log[i] : i \in DOMAIN log}

\* Every question asked so far bears a number of its own, so that the emitter
\* takes none for a repeat, and the page none for answered.
QuestionsAreNew ==
  \A c \in Logged \cup {last} \cup answered : c.kind = "question" => c.id < asks

\* The emitter holds an approval to be a repeat only while its verdict is out.
RepeatsAreResumes ==
  last.kind = "approval_request" =>
    \/ pc \in {"asked", "resumed"} /\ pending.kind = "approval_request"
    \/ pc = "over"

\* How many approvals the first n events of a log ask for.
AskedIn(events, n) ==
  Cardinality({i \in 1..n : events[i].kind = "approval_request"})

\* The card a run waits on is the last event, and no page has answered it.
AskedIsLast ==
  /\ decided <= AskedIn(log, heard)
  /\ pc = "asked" /\ pending.kind \in {"question", "approval_request"} =>
       /\ log # <<>> /\ log[Len(log)] = pending
       /\ pending.kind = "question" => pending \notin answered
       /\ pending.kind = "approval_request" => decided < AskedIn(log, Len(log))

\* An approval that no result and no end has closed is the pending one.
Closes(event) == event.kind \in {"approval_result", "run_complete"}

OpenIn(events) ==
  \E i \in DOMAIN events :
    /\ events[i].kind = "approval_request"
    /\ \A j \in DOMAIN events : j > i => ~Closes(events[j])

OpenIsPending ==
  OpenIn(log) => pc \in {"asked", "resumed"} /\ pending.kind = "approval_request"

CardsInv ==
  Typed /\ QuestionsAreNew /\ RepeatsAreResumes /\ AskedIsLast /\ OpenIsPending

-----------------------------------------------------------------------------
(* Sets of numbers.                                                        *)

Below == {pair \in Nat \X Nat : pair[1] < pair[2]}

\* The order of the natural numbers is well-founded.
LEMMA BelowIsWellFounded == IsWellFoundedOn(Below, Nat)
<1>1. Below = OpToRel(<, Nat)
  BY DEF Below, OpToRel
<1>2. QED
  BY <1>1, NatLessThanWellFounded

\* A set of natural numbers has a least one.
LEMMA LeastOfMany ==
  ASSUME NEW S \in SUBSET Nat, S # {}
  PROVE  \E x \in S : \A y \in S : x <= y
<1>1. PICK x \in S : \A y \in S : <<y, x>> \notin Below
  BY BelowIsWellFounded, WFMin
<1>2. ASSUME NEW y \in S PROVE x <= y
  <2>1. <<y, x>> \notin Below /\ y \in Nat /\ x \in Nat
    BY <1>1
  <2>2. ~(y < x)
    BY <2>1 DEF Below
  <2>3. QED
    BY <2>1, <2>2
<1>3. QED
  BY <1>2

\* A set of places in a log has a last one.
LEMMA LastOfMany ==
  ASSUME NEW n \in Nat, NEW S \in SUBSET (1..n), S # {}
  PROVE  \E x \in S : \A y \in S : y <= x
<1> DEFINE T == {n - k : k \in S}
<1>1. T \in SUBSET Nat /\ T # {}
  <2>1. \A k \in S : k \in 1..n /\ n - k \in Nat
    OBVIOUS
  <2>2. QED
    BY <2>1
<1>2. PICK t \in T : \A u \in T : t <= u
  BY <1>1, LeastOfMany
<1>3. PICK x \in S : t = n - x
  BY <1>2
<1>4. ASSUME NEW y \in S PROVE y <= x
  <2>1. n - y \in T
    OBVIOUS
  <2>2. n - x <= n - y
    BY <1>2, <1>3, <2>1
  <2>3. x \in 1..n /\ y \in 1..n
    OBVIOUS
  <2>4. QED
    BY <2>2, <2>3
<1>5. QED
  BY <1>4

-----------------------------------------------------------------------------
(* The log.                                                                *)

Events == CardsShown \cup Notices

\* A log with one more event.
LEMMA AppendParts ==
  ASSUME NEW events \in Seq(Events), NEW event \in Events
  PROVE  /\ Append(events, event) \in Seq(Events)
         /\ Len(events) \in Nat /\ Len(Append(events, event)) = Len(events) + 1
         /\ DOMAIN events = 1..Len(events)
         /\ DOMAIN Append(events, event) = 1..(Len(events) + 1)
         /\ \A i \in 1..Len(events) : Append(events, event)[i] = events[i]
         /\ Append(events, event)[Len(events) + 1] = event
OBVIOUS

\* How many approvals a log asks for, first and with one more event.
LEMMA AskedParts ==
  ASSUME NEW events \in Seq(Events), NEW n \in 0..Len(events)
  PROVE  /\ AskedIn(events, n) \in Nat
         /\ AskedIn(events, n) <= AskedIn(events, Len(events))
         /\ \A m \in 0..Len(events) : n <= m => AskedIn(events, n) <= AskedIn(events, m)
<1> DEFINE S(m) == {i \in 1..m : events[i].kind = "approval_request"}
<1>1. ASSUME NEW m \in 0..Len(events)
      PROVE  IsFiniteSet(S(m)) /\ Cardinality(S(m)) \in Nat
  <2>1. IsFiniteSet(1..m)
    BY FS_Interval
  <2>2. S(m) \in SUBSET (1..m)
    OBVIOUS
  <2>3. QED
    BY <2>1, <2>2, FS_Subset, FS_CardinalityType
<1>2. ASSUME NEW m \in 0..Len(events), n <= m
      PROVE  Cardinality(S(n)) <= Cardinality(S(m))
  <2>1. S(n) \in SUBSET S(m)
    BY <1>2
  <2>2. QED
    BY <2>1, <1>1, FS_Subset
<1>3. Len(events) \in 0..Len(events) /\ n <= Len(events)
  OBVIOUS
<1>4. QED
  BY <1>1, <1>2, <1>3 DEF AskedIn

\* One more event changes no count before it, and an approval counts.
LEMMA AskedAppended ==
  ASSUME NEW events \in Seq(Events), NEW event \in Events
  PROVE  /\ \A n \in 0..Len(events) :
              AskedIn(Append(events, event), n) = AskedIn(events, n)
         /\ event.kind = "approval_request" =>
              AskedIn(Append(events, event), Len(events) + 1)
                = AskedIn(events, Len(events)) + 1
<1> DEFINE more == Append(events, event)
           S(n) == {i \in 1..n : events[i].kind = "approval_request"}
           T(n) == {i \in 1..n : more[i].kind = "approval_request"}
<1>0. /\ Len(events) \in Nat
      /\ \A i \in 1..Len(events) : more[i] = events[i]
      /\ more[Len(events) + 1] = event
  BY AppendParts
<1> HIDE DEF more
<1>1. ASSUME NEW n \in 0..Len(events) PROVE T(n) = S(n)
  BY <1>0
<1>2. ASSUME event.kind = "approval_request"
      PROVE  Cardinality(T(Len(events) + 1)) = Cardinality(S(Len(events))) + 1
  <2>1. IsFiniteSet(S(Len(events)))
    <3>1. IsFiniteSet(1..Len(events)) /\ S(Len(events)) \in SUBSET (1..Len(events))
      BY <1>0, FS_Interval
    <3>2. QED
      BY <3>1, FS_Subset
  <2>2. T(Len(events) + 1) = S(Len(events)) \cup {Len(events) + 1}
    BY <1>0, <1>2
  <2>3. Len(events) + 1 \notin S(Len(events))
    BY <1>0
  <2>4. QED
    BY <2>1, <2>2, <2>3, FS_AddElement
<1>3. QED
  BY <1>1, <1>2 DEF AskedIn, more

\* Only an approval opens one, and the result and the end of the run close it.
LEMMA OpenAppended ==
  ASSUME NEW events \in Seq(Events), NEW event \in Events
  PROVE  /\ event.kind # "approval_request" /\ OpenIn(Append(events, event))
              => OpenIn(events)
         /\ Closes(event) => ~OpenIn(Append(events, event))
<1> DEFINE more == Append(events, event)
<1>0. /\ Len(events) \in Nat /\ DOMAIN events = 1..Len(events)
      /\ DOMAIN more = 1..(Len(events) + 1)
      /\ \A i \in 1..Len(events) : more[i] = events[i]
      /\ more[Len(events) + 1] = event
  BY AppendParts
<1> HIDE DEF more
<1>1. ASSUME event.kind # "approval_request", OpenIn(more) PROVE OpenIn(events)
  <2>1. PICK i \in DOMAIN more :
          /\ more[i].kind = "approval_request"
          /\ \A j \in DOMAIN more : j > i => ~Closes(more[j])
    BY <1>1 DEF OpenIn
  <2>2. i \in 1..Len(events)
    BY <1>0, <1>1, <2>1
  <2>3. events[i].kind = "approval_request"
    BY <1>0, <2>1, <2>2
  <2>4. ASSUME NEW j \in DOMAIN events, j > i PROVE ~Closes(events[j])
    BY <1>0, <2>1, <2>4
  <2>5. QED
    BY <1>0, <2>2, <2>3, <2>4 DEF OpenIn
<1>2. ASSUME Closes(event), OpenIn(more) PROVE FALSE
  <2>1. PICK i \in DOMAIN more :
          /\ more[i].kind = "approval_request"
          /\ \A j \in DOMAIN more : j > i => ~Closes(more[j])
    BY <1>2 DEF OpenIn
  <2>2. CASE i = Len(events) + 1
    BY <1>0, <1>2, <2>1, <2>2 DEF Closes
  <2>3. CASE i # Len(events) + 1
    BY <1>0, <1>2, <2>1, <2>3
  <2>4. QED
    BY <2>2, <2>3
<1>3. QED
  BY <1>1, <1>2 DEF more

\* What a page takes for pending it has heard, and nothing has closed it since.
LEMMA LatestIsHeard ==
  ASSUME Typed, NEW kind, NEW closers, Latest(kind, closers) # NoCard
  PROVE  \E i \in 1..heard :
           /\ Latest(kind, closers) = log[i] /\ log[i].kind = kind
           /\ \A j \in 1..heard : log[j].kind \in closers => ~(j > i)
<1> DEFINE opens == {i \in 1..heard : log[i].kind \in {kind}}
           at == CHOOSE i \in opens : \A j \in opens : j <= i
<1>1. opens # {}
  BY DEF Latest
<1>2. heard \in Nat /\ opens \in SUBSET (1..heard)
  BY DEF Typed
<1>3. \E i \in opens : \A j \in opens : j <= i
  BY <1>1, <1>2, LastOfMany
<1>4. at \in opens
  BY <1>3
<1>5. /\ Latest(kind, closers) = log[at]
      /\ ~\E i \in {j \in 1..heard : log[j].kind \in closers} : i > at
  BY <1>1 DEF Latest
<1> HIDE DEF at
<1>6. QED
  BY <1>4, <1>5

\* The last event a page has heard is what it takes for pending.
LEMMA LastIsLatest ==
  ASSUME Typed, heard # 0, NEW kind, log[heard].kind = kind, NEW closers
  PROVE  Latest(kind, closers) = log[heard]
<1> DEFINE opens == {i \in 1..heard : log[i].kind \in {kind}}
           at == CHOOSE i \in opens : \A j \in opens : j <= i
<1>1. heard \in opens /\ \A j \in opens : j <= heard
  BY DEF Typed
<1>2. at \in opens /\ \A j \in opens : j <= at
  BY <1>1
<1>3. at = heard
  <2>1. heard <= at
    BY <1>1, <1>2
  <2>2. at <= heard /\ at \in Nat /\ heard \in Nat
    BY <1>1, <1>2
  <2>3. QED
    BY <2>1, <2>2
<1>4. Latest(kind, closers) =
        IF \E i \in {j \in 1..heard : log[j].kind \in closers} : i > at
          THEN NoCard ELSE log[at]
  BY <1>1 DEF Latest
<1>5. ~\E i \in {j \in 1..heard : log[j].kind \in closers} : i > heard
  BY DEF Typed
<1> HIDE DEF at
<1>6. QED
  BY <1>3, <1>4, <1>5

-----------------------------------------------------------------------------
(* The steps of the run.                                                   *)

\* The log takes one event, and the page hears nothing of it yet.
Appends(event) == log' = Append(log, event) /\ UNCHANGED <<heard, answered, decided>>

\* A log with one more event, seen from the run and from the page.
LEMMA AppendsParts ==
  ASSUME Typed, NEW event \in Events, Appends(event)
  PROVE  /\ log' \in Seq(Events) /\ heard' \in 0..Len(log')
         /\ Logged' = Logged \cup {event}
         /\ log' # <<>> /\ log'[Len(log')] = event
         /\ decided <= AskedIn(log, heard) => (decided <= AskedIn(log, heard))'
         /\ event.kind # "approval_request" /\ OpenIn(log') => OpenIn(log)
         /\ Closes(event) => ~OpenIn(log')
         /\ event.kind = "approval_request" /\ decided <= AskedIn(log, heard)
              => decided' < AskedIn(log', Len(log'))
<1>1. log \in Seq(Events) /\ heard \in 0..Len(log) /\ decided \in Nat
  BY DEF Typed, Events
<1>2. log' = Append(log, event) /\ UNCHANGED <<heard, answered, decided>>
  BY DEF Appends
<1>3. /\ log' \in Seq(Events) /\ Len(log) \in Nat /\ Len(log') = Len(log) + 1
      /\ DOMAIN log = 1..Len(log) /\ DOMAIN log' = 1..(Len(log) + 1)
      /\ \A i \in 1..Len(log) : log'[i] = log[i]
      /\ log'[Len(log) + 1] = event
  BY <1>1, <1>2, AppendParts
<1>4. Logged' = Logged \cup {event}
  BY <1>3 DEF Logged
<1>5. /\ AskedIn(log', heard) = AskedIn(log, heard)
      /\ event.kind = "approval_request" =>
           AskedIn(log', Len(log) + 1) = AskedIn(log, Len(log)) + 1
  BY <1>1, <1>2, AskedAppended
<1>6. /\ AskedIn(log, heard) \in Nat /\ AskedIn(log, Len(log)) \in Nat
      /\ AskedIn(log, heard) <= AskedIn(log, Len(log))
  <2>1. Len(log) \in 0..Len(log)
    BY <1>3
  <2>2. QED
    BY <1>1, <2>1, AskedParts
<1>7. /\ event.kind # "approval_request" /\ OpenIn(log') => OpenIn(log)
      /\ Closes(event) => ~OpenIn(log')
  BY <1>1, <1>2, OpenAppended
<1>8. log' # <<>> /\ heard' \in 0..Len(log')
  BY <1>1, <1>2, <1>3
<1>9. event.kind = "approval_request" /\ decided <= AskedIn(log, heard)
        => decided' < AskedIn(log', Len(log'))
  BY <1>1, <1>2, <1>3, <1>5, <1>6
<1>10. decided <= AskedIn(log, heard) => decided' <= AskedIn(log', heard')
  BY <1>2, <1>5
<1>11. QED
  BY <1>3, <1>4, <1>7, <1>8, <1>9, <1>10

\* A card, and an event that is none.
LEMMA CardParts ==
  /\ NoCard.kind = "none" /\ NoCard \notin CardsShown
  /\ \A c \in CardsShown : c.kind \in Kinds /\ ~Closes(c)
  /\ \A n \in Nat : /\ Card("question", n) \in CardsShown
                    /\ Card("question", n).kind = "question"
                    /\ Card("question", n).id = n
  /\ \A w \in Previews : /\ Card("approval_request", w) \in CardsShown
                         /\ Card("approval_request", w).kind = "approval_request"
  /\ \A o \in Causes \X Nat : /\ Card("options", o) \in CardsShown
                              /\ Card("options", o).kind = "options"
<1>1. NoCard.kind = "none"
  BY DEF NoCard
<1>2. \A c \in CardsShown : c.kind \in Kinds
  BY DEF CardsShown, Questions, Approvals, OptionCards, Kinds
<1>3. \A c \in CardsShown : ~Closes(c)
  BY <1>2 DEF Closes, Kinds
<1>4. \A n \in Nat : /\ Card("question", n) \in CardsShown
                     /\ Card("question", n).kind = "question"
                     /\ Card("question", n).id = n
  BY DEF Card, CardsShown, Questions
<1>5. \A w \in Previews : /\ Card("approval_request", w) \in CardsShown
                          /\ Card("approval_request", w).kind = "approval_request"
  BY DEF Card, CardsShown, Approvals
<1>6. \A o \in Causes \X Nat : /\ Card("options", o) \in CardsShown
                               /\ Card("options", o).kind = "options"
  BY DEF Card, CardsShown, OptionCards
<1>7. NoCard \notin CardsShown
  BY <1>1, <1>2 DEF Kinds
<1>8. QED
  BY <1>1, <1>2, <1>3, <1>4, <1>5, <1>6, <1>7

\* A turn of the model and the end of the run put a notice on the log, which
\* leaves no approval open.
LEMMA NoticeKeeps ==
  ASSUME CardsInv, Reasons \/ Ends
  PROVE  CardsInv'
<1>i. /\ Typed /\ QuestionsAreNew /\ RepeatsAreResumes /\ AskedIsLast /\ OpenIsPending
  BY DEF CardsInv
<1>1. PICK notice \in Notices :
        /\ Appends(notice) /\ UNCHANGED <<last, window, asks, tried>>
        /\ \/ pc = "work" /\ pc' = "acting" /\ UNCHANGED pending
           \/ pc' = "over" /\ pending' = NoCard /\ Closes(notice)
  <2>1. [kind |-> "reasoning"] \in Notices /\ [kind |-> "run_complete"] \in Notices
    BY DEF Notices
  <2>2. Closes([kind |-> "run_complete"])
    BY DEF Closes
  <2>3. CASE Reasons
    BY <2>1, <2>3 DEF Reasons, Emits, Appends, page
  <2>4. CASE Ends
    BY <2>1, <2>2, <2>4 DEF Ends, Emits, Appends, page
  <2>5. QED
    BY <2>3, <2>4
<1>2. notice \in Events /\ notice.kind \notin {"approval_request", "question"}
  BY DEF Events, Notices
<1>3. /\ log' \in Seq(Events) /\ heard' \in 0..Len(log')
      /\ Logged' = Logged \cup {notice}
      /\ decided <= AskedIn(log, heard) => (decided <= AskedIn(log, heard))'
      /\ OpenIn(log') => OpenIn(log)
      /\ Closes(notice) => ~OpenIn(log')
  BY <1>i, <1>1, <1>2, AppendsParts
<1>4. Typed'
  BY <1>i, <1>1, <1>3 DEF Typed, Appends, Events
<1>5. QuestionsAreNew'
  BY <1>i, <1>1, <1>2, <1>3 DEF QuestionsAreNew, Appends
<1>6. RepeatsAreResumes'
  BY <1>i, <1>1 DEF RepeatsAreResumes
<1>7. AskedIsLast'
  BY <1>i, <1>1, <1>3 DEF AskedIsLast
<1>8. OpenIsPending'
  BY <1>i, <1>1, <1>3 DEF OpenIsPending
<1>9. QED
  BY <1>4, <1>5, <1>6, <1>7, <1>8 DEF CardsInv

\* A pause puts its card last on the log, unless the emitter takes it for a
\* repeat.
LEMMA PauseEmits ==
  ASSUME CardsInv, NEW card \in CardsShown, Pauses(card)
  PROVE  /\ asks' = asks + 1 /\ pc' = "asked" /\ pending' = card /\ last' = card
         /\ UNCHANGED <<window, tried, heard, answered, decided>>
         /\ \/ card # last /\ Appends(card)
            \/ card = last /\ UNCHANGED log
BY DEF Pauses, EmitsCard, Appends, wire, page

\* A question is no repeat, and an approval neither, as the verdict on the one
\* before is in; so both are the last event while the run waits.
LEMMA PauseKeeps ==
  ASSUME CardsInv, AsksQuestion \/ AsksApproval \/ AsksOptions
  PROVE  CardsInv'
<1>i. /\ Typed /\ QuestionsAreNew /\ RepeatsAreResumes /\ AskedIsLast /\ OpenIsPending
  BY DEF CardsInv
<1>t. asks \in Nat /\ tried \in Nat /\ window \in Previews
  BY <1>i DEF Typed
<1>1. PICK card \in CardsShown :
        /\ Pauses(card) /\ pc \in {"work", "acting"}
        /\ \/ card = Card("question", asks) /\ card.kind = "question"
           \/ card.kind = "approval_request"
           \/ card.kind = "options"
  <2>1. CASE AsksQuestion
    BY <2>1, <1>t, CardParts DEF AsksQuestion
  <2>2. CASE AsksApproval
    BY <2>2, <1>t, CardParts DEF AsksApproval
  <2>3. CASE AsksOptions
    <3>1. PICK c \in Causes : Pauses(Card("options", OptionsId(c)))
      BY <2>3 DEF AsksOptions
    <3>2. OptionsId(c) \in Causes \X Nat
      BY <1>t DEF OptionsId
    <3>3. QED
      BY <2>3, <3>1, <3>2, CardParts DEF AsksOptions
  <2>4. QED
    BY <2>1, <2>2, <2>3
<1>2. /\ asks' = asks + 1 /\ pc' = "asked" /\ pending' = card /\ last' = card
      /\ UNCHANGED <<window, tried, heard, answered, decided>>
      /\ \/ card # last /\ Appends(card)
         \/ card = last /\ UNCHANGED log
  BY <1>1, PauseEmits
<1>3. last.kind # "approval_request"
  BY <1>i, <1>1 DEF RepeatsAreResumes
<1>4. card.kind = "question" => card.id = asks /\ card \notin Logged \cup {last} \cup answered
  <2>1. SUFFICES ASSUME card.kind = "question" PROVE card.id = asks /\ card \notin Logged \cup {last} \cup answered
    OBVIOUS
  <2>2. card.id = asks
    BY <1>1, <1>t, <2>1, CardParts
  <2>3. QED
    BY <2>1, <2>2, <1>i, <1>t DEF QuestionsAreNew
<1>5. ~OpenIn(log)
  BY <1>i, <1>1 DEF OpenIsPending
<1>6. card \in Events
  BY DEF Events
<1>7. CASE card = last /\ UNCHANGED log
  <2>1. card.kind = "options"
    BY <1>1, <1>3, <1>4, <1>7
  <2>2. Typed'
    BY <1>i, <1>2, <1>7 DEF Typed
  <2>3. QuestionsAreNew'
    <3>1. ASSUME NEW c \in Logged \cup {last} \cup answered, c.kind = "question"
          PROVE  c.id < asks + 1
      <4>1. c \in CardsShown \cup Notices \cup {NoCard}
        BY <1>i DEF Typed, Logged
      <4>2. c \in Questions
        BY <4>1, <3>1 DEF CardsShown, Approvals, OptionCards, Notices, NoCard
      <4>3. c.id \in Nat /\ c.id < asks
        BY <4>2, <3>1, <1>i DEF Questions, QuestionsAreNew
      <4>4. QED
        BY <4>3, <1>t
    <3>2. QED
      BY <3>1, <1>2, <1>7 DEF QuestionsAreNew, Logged
  <2>4. RepeatsAreResumes'
    BY <1>2, <2>1 DEF RepeatsAreResumes
  <2>5. AskedIsLast'
    BY <1>i, <1>2, <1>7, <2>1 DEF AskedIsLast
  <2>6. OpenIsPending'
    BY <1>5, <1>7 DEF OpenIsPending
  <2>7. QED
    BY <2>2, <2>3, <2>4, <2>5, <2>6 DEF CardsInv
<1>8. CASE Appends(card)
  <2>1. /\ log' \in Seq(Events) /\ heard' \in 0..Len(log')
        /\ Logged' = Logged \cup {card} /\ log' # <<>> /\ log'[Len(log')] = card
        /\ decided <= AskedIn(log, heard) => (decided <= AskedIn(log, heard))'
        /\ card.kind # "approval_request" /\ OpenIn(log') => OpenIn(log)
        /\ card.kind = "approval_request" /\ decided <= AskedIn(log, heard)
             => decided' < AskedIn(log', Len(log'))
    BY <1>i, <1>6, <1>8, AppendsParts
  <2>2. Typed'
    BY <1>i, <1>t, <1>2, <2>1 DEF Typed, Events
  <2>3. QuestionsAreNew'
    <3>1. ASSUME NEW c \in Logged \cup {last} \cup answered \cup {card}, c.kind = "question"
          PROVE  c.id < asks + 1
      <4>1. c \in CardsShown \cup Notices \cup {NoCard}
        BY <1>i DEF Typed, Logged
      <4>2. c \in Questions
        BY <4>1, <3>1 DEF CardsShown, Approvals, OptionCards, Notices, NoCard
      <4>3. c.id \in Nat /\ (c.id < asks \/ c.id = asks)
        BY <4>2, <3>1, <1>4, <1>i DEF Questions, QuestionsAreNew
      <4>4. QED
        BY <4>3, <1>t
    <3>2. QED
      BY <3>1, <1>2, <2>1 DEF QuestionsAreNew
  <2>4. RepeatsAreResumes'
    BY <1>2 DEF RepeatsAreResumes
  <2>5. AskedIsLast'
    BY <1>i, <1>2, <1>4, <2>1 DEF AskedIsLast
  <2>6. OpenIsPending'
    BY <1>1, <1>2, <1>5, <2>1 DEF OpenIsPending
  <2>7. QED
    BY <2>2, <2>3, <2>4, <2>5, <2>6 DEF CardsInv
<1>9. QED
  BY <1>2, <1>7, <1>8

\* The resumed gate: the request again, if the words have changed meanwhile,
\* then the result, which closes it and makes room for the same words anew.
LEMMA VerdictKeeps ==
  ASSUME CardsInv, VerdictTaken
  PROVE  CardsInv'
<1>i. /\ Typed /\ QuestionsAreNew /\ RepeatsAreResumes /\ AskedIsLast /\ OpenIsPending
  BY DEF CardsInv
<1> DEFINE card == Card("approval_request", window)
           result == [kind |-> "approval_result"]
           mid == IF card = last THEN log ELSE Append(log, card)
<1>1. /\ log' = mid \o <<result>> /\ last' = NoCard
      /\ pc' \in {"acting", "work", "ending"} /\ pending' = NoCard
      /\ UNCHANGED <<window, tried, asks, heard, answered, decided>>
  BY DEF VerdictTaken, Continues, EmitsResult, page
<1>2. card \in Events /\ card.kind = "approval_request" /\ result \in Events
      /\ result.kind = "approval_result" /\ Closes(result)
  BY <1>i, CardParts DEF Typed, Events, Notices, Closes
<1>3. /\ log \in Seq(Events) /\ heard \in 0..Len(log) /\ Len(log) \in Nat
      /\ DOMAIN log = 1..Len(log)
  BY <1>i DEF Typed, Events
<1> HIDE DEF card, result
<1>4. /\ mid \in Seq(Events) /\ Len(mid) \in Nat /\ Len(log) <= Len(mid)
      /\ \A i \in DOMAIN mid : mid[i] \in Logged \cup {card}
      /\ AskedIn(mid, heard) = AskedIn(log, heard)
  <2>1. CASE card = last
    BY <2>1, <1>3 DEF Logged
  <2>2. CASE card # last
    <3>1. mid = Append(log, card)
      BY <2>2
    <3> HIDE DEF mid
    <3>2. /\ mid \in Seq(Events) /\ Len(mid) = Len(log) + 1
          /\ DOMAIN mid = 1..(Len(log) + 1)
          /\ \A i \in 1..Len(log) : mid[i] = log[i]
          /\ mid[Len(log) + 1] = card
      BY <1>2, <1>3, <3>1, AppendParts
    <3>3. AskedIn(mid, heard) = AskedIn(log, heard)
      BY <1>2, <1>3, <3>1, AskedAppended
    <3>4. QED
      BY <1>3, <3>2, <3>3 DEF Logged
  <2>3. QED
    BY <2>1, <2>2
<1> HIDE DEF mid
<1>5. log' = Append(mid, result)
  BY <1>1, <1>2, <1>4
<1>6. /\ log' \in Seq(Events) /\ Len(log') = Len(mid) + 1
      /\ DOMAIN log' = 1..(Len(mid) + 1) /\ DOMAIN mid = 1..Len(mid)
      /\ \A i \in 1..Len(mid) : log'[i] = mid[i]
      /\ log'[Len(mid) + 1] = result
  BY <1>2, <1>4, <1>5, AppendParts
<1>7. \A c \in Logged' : c \in Logged \cup {card, result}
  BY <1>4, <1>6 DEF Logged
<1>8. AskedIn(log', heard') = AskedIn(log, heard)
  <2>1. heard \in 0..Len(mid)
    BY <1>3, <1>4
  <2>2. AskedIn(log', heard) = AskedIn(mid, heard)
    BY <2>1, <1>2, <1>4, <1>5, AskedAppended
  <2>3. QED
    BY <2>2, <1>1, <1>4
<1>9. ~OpenIn(log')
  BY <1>2, <1>4, <1>5, OpenAppended
<1>10. Typed'
  BY <1>i, <1>1, <1>3, <1>4, <1>6 DEF Typed, Events
<1>11. QuestionsAreNew'
  BY <1>i, <1>1, <1>2, <1>7, CardParts DEF QuestionsAreNew
<1>12. RepeatsAreResumes'
  BY <1>1, CardParts DEF RepeatsAreResumes
<1>13. AskedIsLast'
  BY <1>i, <1>1, <1>8 DEF AskedIsLast
<1>14. OpenIsPending'
  BY <1>9 DEF OpenIsPending
<1>15. QED
  BY <1>10, <1>11, <1>12, <1>13, <1>14 DEF CardsInv

\* A choice: the card of the remedy once more, and the run goes on without a
\* card.  An answer joins the state and leaves no trace in the log.
LEMMA ReplyKeeps ==
  ASSUME CardsInv, ChoiceTaken \/ AnswerTaken
  PROVE  CardsInv'
<1>i. /\ Typed /\ QuestionsAreNew /\ RepeatsAreResumes /\ AskedIsLast /\ OpenIsPending
  BY DEF CardsInv
<1>1. /\ pc = "resumed" /\ pending.kind \in {"question", "options"}
      /\ pending' = NoCard /\ pc' \in {"work", "ending"} /\ tried' \in {tried, tried + 1}
      /\ UNCHANGED <<window, asks, heard, answered, decided>>
  BY DEF ChoiceTaken, AnswerTaken, Continues, page
<1>2. ~OpenIn(log) /\ last.kind # "approval_request"
  BY <1>i, <1>1 DEF OpenIsPending, RepeatsAreResumes
<1>3. \/ UNCHANGED <<log, last>>
      \/ \E card \in CardsShown : card.kind = "options" /\ Appends(card) /\ last' = card
  <2>1. CASE AnswerTaken
    BY <2>1 DEF AnswerTaken, wire
  <2>2. CASE ChoiceTaken
    <3>1. EmitsCard(Card("options", OptionsId(pending.id[1])))
      BY <2>2 DEF ChoiceTaken
    <3>2. OptionsId(pending.id[1]) \in Causes \X Nat
      <4>1. pending \in OptionCards
        BY <2>2, <1>i DEF ChoiceTaken, Typed, CardsShown, Questions, Approvals, NoCard
      <4>2. pending.id \in Causes \X Nat
        BY <4>1 DEF OptionCards
      <4>3. QED
        BY <4>2, <1>i DEF OptionsId, Typed
    <3>3. /\ Card("options", OptionsId(pending.id[1])) \in CardsShown
          /\ Card("options", OptionsId(pending.id[1])).kind = "options"
      BY <3>2, CardParts
    <3>4. QED
      BY <1>1, <3>1, <3>3 DEF EmitsCard, Appends, wire
  <2>3. QED
    BY <2>1, <2>2
<1>4. tried' \in Nat
  BY <1>1, <1>i DEF Typed
<1>5. CASE UNCHANGED <<log, last>>
  <2>1. Typed'
    BY <1>i, <1>1, <1>4, <1>5 DEF Typed
  <2>2. QuestionsAreNew' /\ RepeatsAreResumes'
    BY <1>i, <1>1, <1>2, <1>5 DEF QuestionsAreNew, RepeatsAreResumes, Logged
  <2>3. AskedIsLast' /\ OpenIsPending'
    BY <1>i, <1>1, <1>2, <1>5 DEF AskedIsLast, OpenIsPending
  <2>4. QED
    BY <2>1, <2>2, <2>3 DEF CardsInv
<1>6. ASSUME NEW card \in CardsShown, card.kind = "options", Appends(card), last' = card
      PROVE  CardsInv'
  <2>1. /\ log' \in Seq(Events) /\ heard' \in 0..Len(log')
        /\ Logged' = Logged \cup {card}
        /\ decided <= AskedIn(log, heard) => (decided <= AskedIn(log, heard))'
        /\ card.kind # "approval_request" /\ OpenIn(log') => OpenIn(log)
    <3>1. card \in Events
      BY DEF Events
    <3>2. QED
      BY <3>1, <1>i, <1>6, AppendsParts
  <2>2. Typed'
    BY <1>i, <1>1, <1>4, <1>6, <2>1 DEF Typed, Events
  <2>3. QuestionsAreNew'
    BY <1>i, <1>1, <1>6, <2>1 DEF QuestionsAreNew
  <2>4. RepeatsAreResumes'
    BY <1>6 DEF RepeatsAreResumes
  <2>5. AskedIsLast' /\ OpenIsPending'
    BY <1>i, <1>1, <1>2, <1>6, <2>1 DEF AskedIsLast, OpenIsPending
  <2>6. QED
    BY <2>2, <2>3, <2>4, <2>5 DEF CardsInv
<1>7. QED
  BY <1>3, <1>5, <1>6

\* A step of the run that logs nothing and asks for nothing new.
LEMMA QuietKeeps ==
  ASSUME CardsInv, Acts \/ WindowChanges \/ Expires \/ UNCHANGED vars
  PROVE  CardsInv'
<1>i. /\ Typed /\ QuestionsAreNew /\ RepeatsAreResumes /\ AskedIsLast /\ OpenIsPending
  BY DEF CardsInv
<1>1. /\ UNCHANGED <<pending, tried, asks, log, last, heard, answered, decided>>
      /\ window' \in Previews
      /\ \/ pc = "acting" /\ pc' = "work"
         \/ pc = "asked" /\ pc' = "resumed"
         \/ pc' = pc
  BY <1>i DEF Acts, WindowChanges, Expires, Resolves, vars, run, wire, page, Typed
<1>2. Typed'
  BY <1>i, <1>1 DEF Typed
<1>3. QuestionsAreNew'
  BY <1>i, <1>1 DEF QuestionsAreNew, Logged
<1>4. RepeatsAreResumes'
  BY <1>i, <1>1 DEF RepeatsAreResumes
<1>5. AskedIsLast'
  BY <1>i, <1>1 DEF AskedIsLast
<1>6. OpenIsPending'
  BY <1>i, <1>1 DEF OpenIsPending
<1>7. QED
  BY <1>2, <1>3, <1>4, <1>5, <1>6 DEF CardsInv

-----------------------------------------------------------------------------
(* The steps of the page.                                                  *)

\* What a page shows, it has heard.
LEMMA VisibleIsHeard ==
  ASSUME Typed, NEW c \in Visible
  PROVE  c \in CardsShown /\ c \in Logged
<1>1. c # NoCard /\ c \in {LatestQuestion, LatestOptions, LatestApproval}
  BY DEF Visible
<1>2. PICK kind \in Kinds, i \in 1..heard : c = log[i] /\ log[i].kind = kind
  <2>1. CASE c = LatestQuestion
    BY <1>1, <2>1, LatestIsHeard DEF LatestQuestion, Kinds
  <2>2. CASE c = LatestOptions
    BY <1>1, <2>2, LatestIsHeard DEF LatestOptions, Kinds
  <2>3. CASE c = LatestApproval
    BY <1>1, <2>3, LatestIsHeard DEF LatestApproval, Kinds
  <2>4. QED
    BY <1>1, <2>1, <2>2, <2>3
<1>3. i \in DOMAIN log /\ log[i] \in CardsShown \cup Notices
  BY DEF Typed
<1>4. log[i] \notin Notices
  BY <1>2 DEF Notices, Kinds
<1>5. QED
  BY <1>2, <1>3, <1>4 DEF Logged

\* Hearing an event, clicking a card, opening the page again: the page never
\* runs ahead of the log.
LEMMA PageKeeps ==
  ASSUME CardsInv, Hears \/ Clicks \/ Reload
  PROVE  CardsInv'
<1>i. /\ Typed /\ QuestionsAreNew /\ RepeatsAreResumes /\ AskedIsLast /\ OpenIsPending
  BY DEF CardsInv
<1>t. /\ log \in Seq(Events) /\ heard \in 0..Len(log) /\ decided \in Nat
      /\ Len(log) \in Nat
  BY <1>i DEF Typed, Events
<1>n. \A n \in 0..Len(log) : AskedIn(log, n) \in Nat
  BY <1>t, AskedParts
<1>1. /\ UNCHANGED <<pending, window, tried, asks, log, last>>
      /\ \/ UNCHANGED pc
         \/ pc = "asked" /\ pc' = "resumed"
  BY DEF Hears, Clicks, Reload, Resolves, run, wire
<1>2. QuestionsAreNew' /\ answered' \subseteq CardsShown
  <2>1. answered' \subseteq answered \cup Visible
    BY DEF Hears, Clicks, Reload
  <2>2. \A c \in Visible : c \in CardsShown /\ c \in Logged
    BY <1>i, VisibleIsHeard
  <2>3. answered' \subseteq answered \cup Logged
    BY <2>1, <2>2
  <2>4. QuestionsAreNew'
    BY <1>i, <1>1, <2>3 DEF QuestionsAreNew, Logged
  <2>5. QED
    BY <1>i, <2>1, <2>2, <2>4 DEF Typed
<1>3. RepeatsAreResumes' /\ OpenIsPending'
  BY <1>i, <1>1 DEF RepeatsAreResumes, OpenIsPending
<1>4. CASE Hears
  <2>1. heard' = heard + 1 /\ heard < Len(log) /\ UNCHANGED <<pc, answered, decided>>
    BY <1>4 DEF Hears, run
  <2>2. heard + 1 \in 0..Len(log) /\ heard <= heard + 1
    BY <1>t, <2>1
  <2>3. AskedIn(log, heard) <= AskedIn(log, heard + 1)
    BY <1>t, <2>2, AskedParts
  <2>4. decided <= AskedIn(log, heard + 1)
    BY <1>i, <1>n, <1>t, <2>2, <2>3 DEF AskedIsLast
  <2>5. AskedIsLast'
    BY <1>i, <1>1, <2>1, <2>4 DEF AskedIsLast
  <2>6. Typed'
    BY <1>i, <1>1, <2>1, <2>2 DEF Typed
  <2>7. QED
    BY <1>2, <1>3, <2>5, <2>6 DEF CardsInv
<1>5. CASE Clicks
  <2>1. /\ heard' = heard /\ pc' # "asked"
        /\ decided' = Ask \/ decided' = decided
    BY <1>5 DEF Clicks, Resolves
  <2>2. Ask = AskedIn(log, heard)
    BY DEF Ask, AskedIn
  <2>3. AskedIn(log, heard) \in Nat /\ decided <= AskedIn(log, heard)
    BY <1>i, <1>n, <1>t DEF AskedIsLast
  <2>4. decided' \in Nat /\ decided' <= AskedIn(log, heard)
    BY <1>t, <2>1, <2>2, <2>3
  <2>5. AskedIsLast'
    BY <1>1, <2>1, <2>4 DEF AskedIsLast
  <2>6. Typed'
    BY <1>i, <1>1, <1>2, <2>1, <2>4 DEF Typed
  <2>7. QED
    BY <1>2, <1>3, <2>5, <2>6 DEF CardsInv
<1>6. CASE Reload
  <2>1. heard' = 0 /\ answered' = {} /\ decided' = 0 /\ UNCHANGED pc
    BY <1>6 DEF Reload, run
  <2>2. 0 \in 0..Len(log) /\ Len(log) \in 0..Len(log)
    BY <1>t
  <2>3. AskedIn(log, 0) \in Nat /\ AskedIn(log, Len(log)) \in Nat
    BY <1>n, <2>2
  <2>4. decided < AskedIn(log, Len(log)) => 0 < AskedIn(log, Len(log))
    BY <1>t, <2>3
  <2>5. AskedIsLast'
    BY <1>i, <1>1, <2>1, <2>3, <2>4 DEF AskedIsLast
  <2>6. Typed'
    BY <1>i, <1>1, <2>1, <2>2 DEF Typed
  <2>7. QED
    BY <1>2, <1>3, <2>5, <2>6 DEF CardsInv
<1>7. QED
  BY <1>4, <1>5, <1>6

-----------------------------------------------------------------------------
(* The theorems.                                                           *)

\* At first nothing is asked and nothing heard.
LEMMA CardsAtFirst == Init => CardsInv
<1>1. SUFFICES ASSUME Init PROVE CardsInv
  OBVIOUS
<1>2. /\ pc = "work" /\ pending = NoCard /\ window \in Previews /\ tried = 0
      /\ last = NoCard /\ log = <<>> /\ heard = 0 /\ answered = {}
      /\ decided = 0 /\ asks = 0
  BY <1>1 DEF Init
<1>3. Typed
  BY <1>2 DEF Typed
<1>4. QuestionsAreNew /\ RepeatsAreResumes /\ OpenIsPending
  BY <1>2, CardParts DEF QuestionsAreNew, RepeatsAreResumes, OpenIsPending, OpenIn, Logged
<1>5. AskedIsLast
  <2>1. log \in Seq(Events) /\ 0 \in 0..Len(log)
    BY <1>2
  <2>2. AskedIn(log, 0) \in Nat
    BY <2>1, AskedParts
  <2>3. pc # "asked" /\ heard = 0 /\ decided = 0
    BY <1>2
  <2>4. QED
    BY <2>2, <2>3 DEF AskedIsLast
<1>6. QED
  BY <1>3, <1>4, <1>5 DEF CardsInv

\* The card a run waits on is the last event, and an approval that is open is
\* the pending one.
THEOREM CardsAreInOrder == Spec => []CardsInv
<1>1. CardsInv /\ [Next]_vars => CardsInv'
  BY NoticeKeeps, PauseKeeps, VerdictKeeps, ReplyKeeps, QuietKeeps, PageKeeps
     DEF Next, Run, Cockpit
<1>2. QED
  BY <1>1, CardsAtFirst, PTL DEF Spec

\* AskedIsSeen: while a run waits for an approval or an answer, a page that
\* has heard everything shows the card.  The emitter's dropping of repeats
\* (emitter.py, _emit) and the page's hiding of answered cards
\* (useAgentRun.ts) swallow no decision somebody is still waited for.
THEOREM WhoIsAskedSeesIt == Spec => []AskedIsSeen
<1>1. CardsInv => AskedIsSeen
  <2>1. SUFFICES ASSUME CardsInv, pc = "asked", CaughtUp,
                        pending.kind \in {"question", "approval_request"}
                 PROVE  \E c \in Visible : c.kind = pending.kind
    BY DEF AskedIsSeen
  <2>2. Typed /\ AskedIsLast
    BY <2>1 DEF CardsInv
  <2>3. /\ heard = Len(log) /\ heard # 0 /\ log[heard] = pending
        /\ pending.kind = "question" => pending \notin answered
        /\ pending.kind = "approval_request" => decided < AskedIn(log, heard)
    BY <2>1, <2>2 DEF AskedIsLast, CaughtUp, Typed
  <2>4. pending # NoCard
    BY <2>1, CardParts
  <2>5. CASE pending.kind = "question"
    <3>1. LatestQuestion = pending
      BY <2>2, <2>3, <2>5, LastIsLatest DEF LatestQuestion
    <3>2. QED
      BY <2>3, <2>4, <2>5, <3>1 DEF Visible
  <2>6. CASE pending.kind = "approval_request"
    <3>1. LatestApproval = pending
      BY <2>2, <2>3, <2>6, LastIsLatest DEF LatestApproval
    <3>2. Ask = AskedIn(log, heard)
      BY DEF Ask, AskedIn
    <3>3. Ask > decided
      <4>1. AskedIn(log, heard) \in Nat /\ decided \in Nat
        BY <2>2, AskedParts DEF Typed, Events
      <4>2. QED
        BY <2>3, <2>6, <3>2, <4>1
    <3>4. QED
      BY <2>4, <2>6, <3>1, <3>3 DEF Visible
  <2>7. QED
    BY <2>1, <2>5, <2>6
<1>2. QED
  BY <1>1, CardsAreInOrder, PTL

\* NoLeftoverApproval: a page that has heard everything shows an approval card
\* only while the run waits for its verdict or takes it (useAgentRun.ts, the
\* pending approval; emitter.py, approval_result and run_complete).
THEOREM NoApprovalIsLeftOver == Spec => []NoLeftoverApproval
<1>1. CardsInv => NoLeftoverApproval
  <2>1. SUFFICES ASSUME CardsInv, CaughtUp,
                        NEW c \in Visible, c.kind = "approval_request"
                 PROVE  pc \in {"asked", "resumed"} /\ pending.kind = "approval_request"
    BY DEF NoLeftoverApproval
  <2>2. Typed /\ OpenIsPending
    BY <2>1 DEF CardsInv
  <2>3. /\ LatestQuestion # NoCard => LatestQuestion.kind = "question"
        /\ LatestOptions # NoCard => LatestOptions.kind = "options"
    BY <2>2, LatestIsHeard DEF LatestQuestion, LatestOptions
  <2>4. LatestApproval # NoCard
    BY <2>1, <2>3 DEF Visible
  <2>5. PICK i \in 1..heard :
          /\ log[i].kind = "approval_request"
          /\ \A j \in 1..heard :
               log[j].kind \in {"approval_result", "run_complete"} => ~(j > i)
    BY <2>2, <2>4, LatestIsHeard DEF LatestApproval
  <2>6. DOMAIN log = 1..heard
    BY <2>1, <2>2 DEF CaughtUp, Typed
  <2>7. OpenIn(log)
    BY <2>5, <2>6 DEF OpenIn, Closes
  <2>8. QED
    BY <2>2, <2>7 DEF OpenIsPending
<1>2. QED
  BY <1>1, CardsAreInOrder, PTL

=============================================================================
