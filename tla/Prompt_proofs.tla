----------------------------- MODULE Prompt_proofs -----------------------------
(***************************************************************************)
(* Theorems about what a turn's prompt holds.  Steering: no correction is  *)
(* crossed off unread, for any number of runs, providers and things said.  *)
(* Prompt: what the list, the map and the history say of the page and of   *)
(* the run's work, for any pages, words, budgets and bounds.               *)
(***************************************************************************)
EXTENDS Steering, Prompt, FiniteSetTheorems, WellFoundedInduction, TLAPS

-----------------------------------------------------------------------------
(* The invariant.                                                          *)

Entries == [run : Runs, kind : Kinds, applied : BOOLEAN]

Typed ==
  /\ store \in Seq(Entries)
  /\ turn \in [Runs -> {"idle", "first", "again", "failed", "over"}]
  /\ prompt \in [Runs -> SUBSET DOMAIN store]
  /\ shown \subseteq DOMAIN store /\ late \subseteq DOMAIN store

\* While a run's call is out, what it has pending was quoted in the call's
\* prompt or came in after it: applying all that is pending applies no more.
PendingIsQuoted ==
  \A r \in Runs : turn[r] \in {"first", "again"} => Pending(r) \subseteq prompt[r] \cup late

Heard == Typed /\ PendingIsQuoted /\ AppliedWasShownOrLate

-----------------------------------------------------------------------------
(* The store.                                                              *)

\* An entry, part by part.
LEMMA EntryParts ==
  ASSUME Typed, NEW i \in DOMAIN store
  PROVE  /\ store[i] \in Entries /\ store[i].run \in Runs
         /\ store[i].kind \in Kinds /\ store[i].applied \in BOOLEAN
<1>1. store[i] \in Entries
  BY DEF Typed
<1>2. QED
  BY <1>1 DEF Entries

\* mark_applied crosses off what one run has pending and leaves the rest: the
\* other runs' entries, and what each entry is (feedback/store.py).
LEMMA MarkingParts ==
  ASSUME Typed, NEW r \in Runs, Marks(r)
  PROVE  /\ store' \in Seq(Entries) /\ DOMAIN store' = DOMAIN store
         /\ \A i \in DOMAIN store :
              /\ store'[i].run = store[i].run /\ store'[i].kind = store[i].kind
              /\ i \notin Pending(r) => store'[i].applied = store[i].applied
              /\ i \in Pending(r) => store'[i].applied = TRUE
<1>1. store' = [i \in DOMAIN store |->
                  IF i \in Pending(r) THEN [store[i] EXCEPT !.applied = TRUE]
                                      ELSE store[i]]
  BY DEF Marks
<1>2. ASSUME NEW i \in DOMAIN store
      PROVE  /\ store'[i] \in Entries
             /\ store'[i].run = store[i].run /\ store'[i].kind = store[i].kind
             /\ i \notin Pending(r) => store'[i].applied = store[i].applied
             /\ i \in Pending(r) => store'[i].applied = TRUE
  <2>1. store[i] \in Entries
    BY EntryParts
  <2>2. CASE i \in Pending(r)
    <3>1. store'[i] = [store[i] EXCEPT !.applied = TRUE]
      BY <1>1, <2>2
    <3>2. [store[i] EXCEPT !.applied = TRUE] \in Entries
      BY <2>1 DEF Entries
    <3>3. /\ store'[i].run = store[i].run /\ store'[i].kind = store[i].kind
          /\ store'[i].applied = TRUE
      BY <3>1, <2>1 DEF Entries
    <3>4. QED
      BY <2>2, <3>1, <3>2, <3>3
  <2>3. CASE i \notin Pending(r)
    BY <1>1, <2>1, <2>3
  <2>4. QED
    BY <2>2, <2>3
<1>3. DOMAIN store' = DOMAIN store
  BY <1>1
<1>4. store' \in Seq(Entries)
  <2>1. Len(store) \in Nat /\ DOMAIN store = 1..Len(store)
    BY DEF Typed
  <2>2. store' \in [1..Len(store) -> Entries]
    BY <1>1, <1>2, <2>1
  <2>3. QED
    BY <2>1, <2>2
<1>5. QED
  BY <1>2, <1>3, <1>4

\* What is recorded comes last and changes nothing before it.
LEMMA RecordingParts ==
  ASSUME Typed, NEW r \in Runs, NEW kind \in Kinds, Records(r, kind)
  PROVE  /\ store' \in Seq(Entries) /\ DOMAIN store \subseteq DOMAIN store'
         /\ \A i \in DOMAIN store : store'[i] = store[i]
         /\ \A i \in DOMAIN store' \ DOMAIN store :
              /\ i = Len(store) + 1
              /\ store'[i].run = r /\ store'[i].kind = kind
              /\ store'[i].applied = (kind # "correction")
         /\ Len(store) + 1 \in DOMAIN store'
<1> DEFINE entry == [run |-> r, kind |-> kind, applied |-> kind # "correction"]
<1>1. entry \in Entries
  BY DEF Entries
<1>2. store' = Append(store, entry) /\ store \in Seq(Entries)
  BY DEF Records, Typed
<1>3. entry.run = r /\ entry.kind = kind /\ entry.applied = (kind # "correction")
  OBVIOUS
<1> HIDE DEF entry
<1>4. /\ Len(store) \in Nat /\ DOMAIN store = 1..Len(store)
      /\ DOMAIN store' = 1..(Len(store) + 1)
      /\ \A i \in 1..Len(store) : store'[i] = store[i]
      /\ store'[Len(store) + 1] = entry
  BY <1>1, <1>2
<1>5. store' \in Seq(Entries)
  BY <1>1, <1>2
<1>6. QED
  BY <1>3, <1>4, <1>5

\* A step that leaves the store alone, and the turns and prompts of the runs
\* whose call is out, keeps what is pending quoted.
LEMMA QuotedRest ==
  ASSUME PendingIsQuoted, UNCHANGED <<store, late>>,
         \A r \in Runs : turn'[r] \in {"first", "again"} =>
           \/ turn[r] \in {"first", "again"} /\ prompt'[r] = prompt[r]
           \/ prompt'[r] = Pending(r)
  PROVE  PendingIsQuoted'
<1>1. ASSUME NEW r \in Runs PROVE Pending(r)' = Pending(r)
  BY DEF Pending
<1>2. QED
  BY <1>1 DEF PendingIsQuoted

-----------------------------------------------------------------------------
(* The steps.                                                              *)

\* The verdict of a cockpit or of the gate, or a correction.
LEMMA RecordingIsHeard ==
  ASSUME Heard, NEW r \in Runs, NEW kind \in Kinds, Records(r, kind)
  PROVE  Heard'
<1>h. Typed /\ PendingIsQuoted /\ AppliedWasShownOrLate
  BY DEF Heard
<1>1. UNCHANGED <<turn, prompt, shown>>
  BY DEF Records
<1>2. late' = IF kind = "correction" /\ turn[r] \in {"first", "again"}
                THEN late \cup {Len(store) + 1} ELSE late
  BY DEF Records
<1>3. /\ store' \in Seq(Entries) /\ DOMAIN store \subseteq DOMAIN store'
      /\ \A i \in DOMAIN store : store'[i] = store[i]
      /\ \A i \in DOMAIN store' \ DOMAIN store :
           /\ i = Len(store) + 1
           /\ store'[i].run = r /\ store'[i].kind = kind
           /\ store'[i].applied = (kind # "correction")
      /\ Len(store) + 1 \in DOMAIN store'
  BY <1>h, RecordingParts
<1>4. Typed'
  <2>1. prompt' \in [Runs -> SUBSET DOMAIN store']
    BY <1>h, <1>1, <1>3 DEF Typed
  <2>2. shown' \subseteq DOMAIN store' /\ late' \subseteq DOMAIN store'
    BY <1>h, <1>1, <1>2, <1>3 DEF Typed
  <2>3. QED
    BY <1>h, <1>1, <1>3, <2>1, <2>2 DEF Typed
<1>5. PendingIsQuoted'
  <2>1. ASSUME NEW q \in Runs, turn[q] \in {"first", "again"}, NEW i \in Pending(q)'
        PROVE  i \in prompt[q] \cup late'
    <3>1. i \in DOMAIN store' /\ store'[i].run = q /\ ~store'[i].applied
      BY <2>1 DEF Pending
    <3>2. CASE i \in DOMAIN store
      <4>1. i \in Pending(q)
        BY <3>1, <3>2, <1>3 DEF Pending
      <4>2. QED
        BY <4>1, <2>1, <1>h, <1>2 DEF PendingIsQuoted
    <3>3. CASE i \notin DOMAIN store
      <4>1. q = r /\ i = Len(store) + 1 /\ kind = "correction"
        BY <3>1, <3>3, <1>3
      <4>2. QED
        BY <4>1, <2>1, <1>2
    <3>4. QED
      BY <3>2, <3>3
  <2>2. QED
    BY <2>1, <1>1 DEF PendingIsQuoted
<1>6. AppliedWasShownOrLate'
  <2>1. ASSUME NEW i \in DOMAIN store', store'[i].kind = "correction", store'[i].applied
        PROVE  i \in shown \cup late
    <3>1. i \in DOMAIN store
      BY <2>1, <1>3
    <3>2. Correction(i) /\ store[i].applied
      BY <2>1, <3>1, <1>3 DEF Correction
    <3>3. QED
      BY <3>1, <3>2, <1>h DEF AppliedWasShownOrLate
  <2>2. late \subseteq late'
    BY <1>2
  <2>3. QED
    BY <2>1, <2>2, <1>1 DEF AppliedWasShownOrLate, Correction
<1>7. QED
  BY <1>4, <1>5, <1>6 DEF Heard

\* A run comes back with an explained answer, and what it had pending is
\* crossed off: it was quoted in the prompt, or came in late (loop.py, reason).
LEMMA ExplainedIsHeard ==
  ASSUME Heard, NEW r \in Runs, Explained(r)
  PROVE  Heard'
<1>h. Typed /\ PendingIsQuoted /\ AppliedWasShownOrLate
  BY DEF Heard
<1>1. /\ turn[r] \in {"first", "again"} /\ late' = late
      /\ shown' = shown \cup prompt[r]
      /\ prompt' = [prompt EXCEPT ![r] = {}]
      /\ turn' = [turn EXCEPT ![r] = "idle"] \/ turn' = [turn EXCEPT ![r] = "over"]
  BY DEF Explained, Returned, Turns, Hangs
<1>2. Marks(r) \/ UNCHANGED store
  BY DEF Explained
<1>3. /\ store' \in Seq(Entries) /\ DOMAIN store' = DOMAIN store
      /\ \A i \in DOMAIN store :
           /\ store'[i].run = store[i].run /\ store'[i].kind = store[i].kind
           /\ i \notin Pending(r) => store'[i].applied = store[i].applied
           /\ store[i].applied => store'[i].applied
  <2>1. CASE UNCHANGED store
    BY <2>1, <1>h DEF Typed
  <2>2. CASE Marks(r)
    <3>1. \A i \in Pending(r) : ~store[i].applied
      BY DEF Pending
    <3>2. QED
      BY <2>2, <3>1, <1>h, MarkingParts
  <2>3. QED
    BY <1>2, <2>1, <2>2
<1>4. Typed'
  <2>1. prompt[r] \subseteq DOMAIN store
    BY <1>h DEF Typed
  <2>2. prompt' \in [Runs -> SUBSET DOMAIN store']
    BY <1>h, <1>1, <1>3 DEF Typed
  <2>3. turn' \in [Runs -> {"idle", "first", "again", "failed", "over"}]
    BY <1>h, <1>1 DEF Typed
  <2>4. shown' \subseteq DOMAIN store' /\ late' \subseteq DOMAIN store'
    BY <1>h, <1>1, <1>3, <2>1 DEF Typed
  <2>5. QED
    BY <1>3, <2>2, <2>3, <2>4 DEF Typed
<1>5. PendingIsQuoted'
  <2>1. ASSUME NEW q \in Runs, turn'[q] \in {"first", "again"}, NEW i \in Pending(q)'
        PROVE  i \in prompt'[q] \cup late
    <3>1. q # r /\ turn[q] \in {"first", "again"} /\ prompt'[q] = prompt[q]
      BY <2>1, <1>1, <1>h DEF Typed
    <3>2. i \in DOMAIN store /\ store[i].run = q /\ ~store'[i].applied
      BY <2>1, <1>3 DEF Pending
    <3>3. i \in Pending(q)
      BY <3>2, <1>3 DEF Pending
    <3>4. QED
      BY <3>1, <3>3, <1>h DEF PendingIsQuoted
  <2>2. QED
    BY <2>1, <1>1 DEF PendingIsQuoted
<1>6. AppliedWasShownOrLate'
  <2>1. ASSUME NEW i \in DOMAIN store, store[i].kind = "correction", store'[i].applied
        PROVE  i \in shown \cup prompt[r] \cup late
    <3>1. CASE i \in Pending(r)
      BY <3>1, <1>1, <1>h DEF PendingIsQuoted
    <3>2. CASE i \notin Pending(r)
      BY <3>2, <2>1, <1>3, <1>h DEF AppliedWasShownOrLate, Correction
    <3>3. QED
      BY <3>1, <3>2
  <2>2. QED
    BY <2>1, <1>1, <1>3 DEF AppliedWasShownOrLate, Correction
<1>7. QED
  BY <1>4, <1>5, <1>6 DEF Heard

\* A step that leaves store and late alone, shows no less, and leaves every
\* prompt that is out as it was, or quotes in it what is pending.
LEMMA QuietlyHeard ==
  ASSUME Heard, UNCHANGED <<store, late>>,
         turn' \in [Runs -> {"idle", "first", "again", "failed", "over"}],
         prompt' \in [Runs -> SUBSET DOMAIN store],
         shown \subseteq shown', shown' \subseteq DOMAIN store,
         \A r \in Runs : turn'[r] \in {"first", "again"} =>
           \/ turn[r] \in {"first", "again"} /\ prompt'[r] = prompt[r]
           \/ prompt'[r] = Pending(r)
  PROVE  Heard'
<1>1. Typed /\ PendingIsQuoted /\ AppliedWasShownOrLate
  BY DEF Heard
<1>2. PendingIsQuoted'
  BY <1>1, QuotedRest
<1>3. Typed'
  BY <1>1 DEF Typed
<1>4. AppliedWasShownOrLate'
  BY <1>1 DEF AppliedWasShownOrLate, Correction
<1>5. QED
  BY <1>2, <1>3, <1>4 DEF Heard

\* Every step keeps the invariant.
LEMMA HeardStep == Heard /\ [Next]_vars => Heard'
<1> SUFFICES ASSUME Heard, [Next]_vars PROVE Heard'
  OBVIOUS
<1> USE DEF feedbackVars
<1>t. /\ turn \in [Runs -> {"idle", "first", "again", "failed", "over"}]
      /\ prompt \in [Runs -> SUBSET DOMAIN store] /\ shown \subseteq DOMAIN store
  BY DEF Heard, Typed
<1>1. ASSUME NEW r \in Runs, Says(r) \/ GateRecords(r) PROVE Heard'
  BY <1>1, RecordingIsHeard DEF Says, GateRecords, Kinds
<1>2. ASSUME NEW r \in Runs, Explained(r) PROVE Heard'
  BY <1>2, ExplainedIsHeard
<1>3. ASSUME NEW r \in Runs, Begins(r) PROVE Heard'
  <2>1. /\ UNCHANGED <<store, late, shown>>
        /\ turn' = [turn EXCEPT ![r] = "first"]
        /\ prompt' = [prompt EXCEPT ![r] = Pending(r)]
    BY <1>3 DEF Begins, Turns
  <2>2. Pending(r) \subseteq DOMAIN store
    BY DEF Pending
  <2>3. prompt' \in [Runs -> SUBSET DOMAIN store]
    BY <1>t, <2>1, <2>2
  <2>4. ASSUME NEW q \in Runs, turn'[q] \in {"first", "again"}
        PROVE  \/ turn[q] \in {"first", "again"} /\ prompt'[q] = prompt[q]
               \/ prompt'[q] = Pending(q)
    <3>1. CASE q = r
      BY <3>1, <2>1, <1>t
    <3>2. CASE q # r
      BY <3>2, <2>1, <2>4, <1>t
    <3>3. QED
      BY <3>1, <3>2
  <2>5. QED
    BY <1>t, <2>1, <2>3, <2>4, QuietlyHeard
<1>4. ASSUME NEW r \in Runs, Unexplained(r) \/ Raises(r) \/ Recovers(r) PROVE Heard'
  <2>1. /\ UNCHANGED <<store, late>>
        /\ shown' = shown \/ shown' = shown \cup prompt[r]
        /\ \/ /\ turn[r] = "first" /\ turn' = [turn EXCEPT ![r] = "again"]
              /\ prompt' = prompt
           \/ /\ \E at \in {"failed", "over", "idle"} : turn' = [turn EXCEPT ![r] = at]
              /\ prompt' = prompt \/ prompt' = [prompt EXCEPT ![r] = {}]
    BY <1>4 DEF Unexplained, Raises, Recovers, Returned, Turns, Hangs
  <2>2. /\ turn' \in [Runs -> {"idle", "first", "again", "failed", "over"}]
        /\ prompt' \in [Runs -> SUBSET DOMAIN store]
        /\ shown \subseteq shown' /\ shown' \subseteq DOMAIN store
    BY <1>t, <2>1
  <2>3. ASSUME NEW q \in Runs, turn'[q] \in {"first", "again"}
        PROVE  turn[q] \in {"first", "again"} /\ prompt'[q] = prompt[q]
    BY <2>1, <2>3, <1>t
  <2>4. QED
    BY <2>1, <2>2, <2>3, QuietlyHeard
<1>5. CASE UNCHANGED <<store, turn, prompt, shown, late>>
  BY <1>5, <1>t, QuietlyHeard, QuotedRest DEF Heard, Typed
<1>6. QED
  BY <1>1, <1>2, <1>3, <1>4, <1>5 DEF Next, Run, Chain, vars

-----------------------------------------------------------------------------
(* The theorems.                                                           *)

\* What is pending was quoted, what is crossed off was heard.
THEOREM HeardAlways == Spec => []Heard
<1>1. Init => Heard
  <2>1. SUFFICES ASSUME Init PROVE Heard
    OBVIOUS
  <2>2. /\ store = <<>> /\ shown = {} /\ late = {}
        /\ turn = [r \in Runs |-> "idle"] /\ prompt = [r \in Runs |-> {}]
    BY <2>1 DEF Init
  <2>3. Typed
    BY <2>2 DEF Typed
  <2>4. PendingIsQuoted /\ AppliedWasShownOrLate
    BY <2>2 DEF PendingIsQuoted, AppliedWasShownOrLate
  <2>5. QED
    BY <2>3, <2>4 DEF Heard
<1>2. QED
  BY <1>1, HeardStep, PTL DEF Spec

\* AppliedWasShownOrLate: a correction the store counts as applied was quoted
\* to a model that answered, or arrived while the call that applied it was
\* out.  Other runs' turns, calls that fail or are repeated, and an exhausted
\* chain cross nothing off (loop.py, reason; feedback/store.py, mark_applied).
THEOREM NothingIsCrossedOffUnread == Spec => []AppliedWasShownOrLate
<1>1. Heard => AppliedWasShownOrLate
  BY DEF Heard
<1>2. QED
  BY <1>1, HeardAlways, PTL

-----------------------------------------------------------------------------
(* Orders of finitely many things.                                         *)

\* A nonempty set of naturals has a least element.
LEMMA LeastNat ==
  ASSUME NEW N \in SUBSET Nat, N # {}
  PROVE  \E n \in N : \A m \in N : n <= m
<1>1. IsWellFoundedOn(OpToRel(<, Nat), Nat)
  BY NatLessThanWellFounded
<1>2. PICK n \in N : \A m \in N : ~(<<m, n>> \in OpToRel(<, Nat))
  BY <1>1, WFMin
<1>3. ASSUME NEW m \in N PROVE n <= m
  <2>1. m \in Nat /\ n \in Nat
    OBVIOUS
  <2>2. ~(m < n)
    BY <1>2, <2>1 DEF OpToRel
  <2>3. QED
    BY <2>1, <2>2
<1>4. QED
  BY <1>3

\* R orders T strictly.
Orders(R, T) ==
  /\ \A e \in T : <<e, e>> \notin R
  /\ \A e, f, g \in T : <<e, f>> \in R /\ <<f, g>> \in R => <<e, g>> \in R

Before(R, T, e) == {f \in T : <<f, e>> \in R}

\* What comes before an element is fewer than the whole.
LEMMA BeforeParts ==
  ASSUME NEW T, IsFiniteSet(T), NEW R, Orders(R, T), NEW e \in T
  PROVE  /\ Cardinality(Before(R, T, e)) \in 0..(Cardinality(T) - 1)
         /\ \A f \in T : <<f, e>> \in R =>
              Cardinality(Before(R, T, f)) < Cardinality(Before(R, T, e))
<1>1. ASSUME NEW S \in SUBSET T, NEW f \in T, f \notin S
      PROVE  Cardinality(S) \in Nat /\ IsFiniteSet(S) /\ Cardinality(S) < Cardinality(T)
  <2>1. IsFiniteSet(S) /\ Cardinality(S) <= Cardinality(T)
    BY FS_Subset
  <2>2. Cardinality(S) # Cardinality(T)
    BY <1>1, FS_Subset
  <2>3. Cardinality(S) \in Nat /\ Cardinality(T) \in Nat
    BY <2>1, FS_CardinalityType
  <2>4. QED
    BY <2>1, <2>2, <2>3
<1>2. Cardinality(Before(R, T, e)) \in 0..(Cardinality(T) - 1)
  <2>1. Before(R, T, e) \in SUBSET T /\ e \notin Before(R, T, e)
    BY DEF Before, Orders
  <2>2. Cardinality(Before(R, T, e)) \in Nat
        /\ Cardinality(Before(R, T, e)) < Cardinality(T)
    BY <1>1, <2>1
  <2>3. Cardinality(T) \in Nat
    BY FS_CardinalityType
  <2>4. QED
    BY <2>2, <2>3
<1>3. ASSUME NEW f \in T, <<f, e>> \in R
      PROVE  Cardinality(Before(R, T, f)) < Cardinality(Before(R, T, e))
  <2>1. Before(R, T, f) \in SUBSET Before(R, T, e)
    BY <1>3 DEF Before, Orders
  <2>2. f \in Before(R, T, e) /\ f \notin Before(R, T, f)
    BY <1>3 DEF Before, Orders
  <2>3. IsFiniteSet(Before(R, T, e))
    BY FS_Subset DEF Before
  <2>4. Cardinality(Before(R, T, f)) <= Cardinality(Before(R, T, e))
        /\ Cardinality(Before(R, T, f)) # Cardinality(Before(R, T, e))
    BY <2>1, <2>2, <2>3, FS_Subset
  <2>5. Cardinality(Before(R, T, f)) \in Nat /\ Cardinality(Before(R, T, e)) \in Nat
    BY <2>1, <2>3, FS_Subset, FS_CardinalityType
  <2>6. QED
    BY <2>4, <2>5
<1>4. QED
  BY <1>2, <1>3

\* Some element has nothing before it.
LEMMA FirstOfOrder ==
  ASSUME NEW T, IsFiniteSet(T), T # {}, NEW R, Orders(R, T)
  PROVE  \E e \in T : \A f \in T : <<f, e>> \notin R
<1> DEFINE N == {Cardinality(Before(R, T, e)) : e \in T}
<1>1. \A e \in T : Cardinality(Before(R, T, e)) \in Nat
  BY BeforeParts
<1>2. N \in SUBSET Nat /\ N # {}
  BY <1>1
<1>3. PICK n \in N : \A m \in N : n <= m
  BY <1>2, LeastNat
<1>4. PICK e \in T : n = Cardinality(Before(R, T, e))
  BY <1>3
<1>5. ASSUME NEW f \in T, <<f, e>> \in R PROVE FALSE
  <2>1. Cardinality(Before(R, T, f)) < Cardinality(Before(R, T, e))
    BY <1>5, BeforeParts
  <2>2. Cardinality(Before(R, T, e)) <= Cardinality(Before(R, T, f))
    BY <1>3, <1>4
  <2>3. QED
    BY <1>1, <2>1, <2>2
<1>6. QED
  BY <1>5

\* In a total order every place from first to last is some element's, and
\* no two elements share one.
LEMMA PlacesAreTaken ==
  ASSUME NEW T, IsFiniteSet(T), NEW R, Orders(R, T),
         \A e, f \in T : e = f \/ <<e, f>> \in R \/ <<f, e>> \in R
  PROVE  /\ \A n \in 1..Cardinality(T) : \E e \in T : Cardinality(Before(R, T, e)) = n - 1
         /\ \A e, f \in T :
              Cardinality(Before(R, T, e)) = Cardinality(Before(R, T, f)) => e = f
<1> DEFINE place == [e \in T |-> Cardinality(Before(R, T, e))]
           last == Cardinality(T) - 1
<1>1. Cardinality(T) \in Nat
  BY FS_CardinalityType
<1>2. \A e \in T : place[e] \in 0..last
  BY BeforeParts
<1>3. ASSUME NEW e \in T, NEW f \in T, place[e] = place[f] PROVE e = f
  <2>1. \A d, g \in T : <<d, g>> \in R => place[d] < place[g]
    BY BeforeParts
  <2>2. place[e] \in Int /\ place[f] \in Int
    BY <1>1, <1>2
  <2>3. ~(place[e] < place[f]) /\ ~(place[f] < place[e])
    BY <1>3, <2>2
  <2>4. QED
    BY <2>1, <2>3
<1>4. place \in Injection(T, 0..last)
  BY <1>2, <1>3 DEF Injection, IsInjective
<1>5. IsFiniteSet(0..last) /\ Cardinality(0..last) = Cardinality(T)
  <2>1. 0 \in Int /\ last \in Int /\ last >= -1 /\ Cardinality(T) = last + 1
    BY <1>1
  <2> HIDE DEF last
  <2>2. IsFiniteSet(0..last) /\ Cardinality(0..last) = IF 0 > last THEN 0 ELSE last - 0 + 1
    BY <2>1, FS_Interval
  <2>3. QED
    BY <2>1, <2>2
<1>6. place \in Surjection(T, 0..last)
  BY <1>4, <1>5, FS_Injection
<1>7. ASSUME NEW n \in 1..Cardinality(T)
      PROVE  \E e \in T : Cardinality(Before(R, T, e)) = n - 1
  <2>1. n - 1 \in 0..last
    BY <1>1
  <2>2. PICK e \in T : place[e] = n - 1
    BY <1>6, <2>1 DEF Surjection
  <2>3. QED
    BY <2>2
<1>8. QED
  BY <1>3, <1>7

\* K is what a greedy choice over D keeps: the elements that fit, F, after the
\* kept ones that come before them.
Greedy(R, F, D, K) == K = {i \in D : <<i, Before(R, K, i)>> \in F}

\* D holds what comes before each of its elements.
Starts(R, S, D) == \A i \in D, j \in S : <<j, i>> \in R => j \in D

\* What greedy choice describes exists: some set holds exactly the elements
\* that fit, F, after those of the set that come before them.
LEMMA GreedyExists ==
  ASSUME NEW S, IsFiniteSet(S), NEW R, Orders(R, S), NEW F
  PROVE  \E K \in SUBSET S : Greedy(R, F, S, K)
<1> DEFINE Dones == {D \in SUBSET S : Starts(R, S, D)
                                         /\ \E K \in SUBSET D : Greedy(R, F, D, K)}
           left == {Cardinality(S \ D) : D \in Dones}
<1>1. \A D \in Dones : Cardinality(S \ D) \in Nat /\ IsFiniteSet(S \ D)
  BY FS_Difference, FS_CardinalityType
<1>2. {} \in Dones
  <2>1. Starts(R, S, {}) /\ Greedy(R, F, {}, {}) /\ {} \in SUBSET {} /\ {} \in SUBSET S
    BY DEF Starts, Greedy
  <2>2. QED
    BY <2>1
<1>3. left \in SUBSET Nat /\ left # {}
  BY <1>1, <1>2
<1>4. PICK n \in left : \A m \in left : n <= m
  BY <1>3, LeastNat
<1>5. PICK D \in Dones : n = Cardinality(S \ D)
  BY <1>4
<1>6. PICK K \in SUBSET D : Greedy(R, F, D, K)
  BY <1>5
<1>7. ASSUME D # S PROVE FALSE
  <2>1. S \ D # {} /\ IsFiniteSet(S \ D) /\ Orders(R, S \ D)
    BY <1>1, <1>7 DEF Orders
  <2>2. PICK e \in S \ D : \A f \in S \ D : <<f, e>> \notin R
    BY <2>1, FirstOfOrder
  <2>3. PICK L \in SUBSET (D \cup {e}) :
          L = IF <<e, Before(R, K, e)>> \in F THEN K \cup {e} ELSE K
    OBVIOUS
  <2>4. \A i \in D \cup {e} : <<e, i>> \notin R
    BY <1>5, <2>2 DEF Orders, Starts
  <2>5. \A i \in D \cup {e} : Before(R, L, i) = Before(R, K, i)
    BY <2>3, <2>4 DEF Before
  <2>6. e \notin K /\ K = {i \in D : <<i, Before(R, K, i)>> \in F}
    BY <1>6, <2>2 DEF Greedy
  <2>7. L = {i \in D \cup {e} : <<i, Before(R, K, i)>> \in F}
    BY <2>3, <2>6
  <2>8. Greedy(R, F, D \cup {e}, L)
    <3>1. {i \in D \cup {e} : <<i, Before(R, K, i)>> \in F}
            = {i \in D \cup {e} : <<i, Before(R, L, i)>> \in F}
      BY <2>5
    <3>2. QED
      BY <2>7, <3>1 DEF Greedy
  <2>9. Starts(R, S, D \cup {e})
    BY <2>2, <1>5 DEF Starts
  <2>10. D \cup {e} \in Dones
    BY <1>5, <2>8, <2>9
  <2>11. Cardinality(S \ (D \cup {e})) < Cardinality(S \ D)
    <3>1. S \ (D \cup {e}) = (S \ D) \ {e}
      OBVIOUS
    <3>2. IsFiniteSet(S \ D) /\ Cardinality(S \ D) \in Nat
      BY <2>1, FS_CardinalityType
    <3>3. Cardinality((S \ D) \ {e}) =
            IF e \in S \ D THEN Cardinality(S \ D) - 1 ELSE Cardinality(S \ D)
      BY <3>2, FS_RemoveElement
    <3>4. e \in S \ D
      BY <2>2
    <3>5. Cardinality((S \ D) \ {e}) < Cardinality(S \ D)
      BY <3>2, <3>3, <3>4
    <3>6. QED
      BY <3>1, <3>5
  <2>12. Cardinality(S \ D) <= Cardinality(S \ (D \cup {e}))
    <3>1. Cardinality(S \ (D \cup {e})) \in left
      BY <2>10
    <3> HIDE DEF left
    <3>2. QED
      BY <1>4, <1>5, <3>1
  <2>13. Cardinality(S \ D) \in Nat /\ Cardinality(S \ (D \cup {e})) \in Nat
    BY <1>1, <1>5, <2>10
  <2>14. QED
    BY <2>11, <2>12, <2>13
<1>8. QED
  BY <1>6, <1>7

\* And is one: the first element two such sets differ in would have the same
\* before it in both.
LEMMA GreedyIsOne ==
  ASSUME NEW S, IsFiniteSet(S), NEW R, Orders(R, S), NEW F,
         NEW K \in SUBSET S, Greedy(R, F, S, K), NEW L \in SUBSET S, Greedy(R, F, S, L)
  PROVE  K = L
<1> DEFINE D == (K \ L) \cup (L \ K)
<1>1. SUFFICES ASSUME K # L PROVE FALSE
  OBVIOUS
<1>2. D \in SUBSET S /\ D # {}
  BY <1>1
<1>3. IsFiniteSet(D) /\ Orders(R, D)
  BY <1>2, FS_Subset DEF Orders
<1>4. PICK e \in D : \A f \in D : <<f, e>> \notin R
  BY <1>2, <1>3, FirstOfOrder
<1>5. Before(R, K, e) = Before(R, L, e)
  BY <1>4 DEF Before
<1>6. e \in K <=> e \in L
  BY <1>2, <1>4, <1>5 DEF Greedy
<1>7. QED
  BY <1>4, <1>6

-----------------------------------------------------------------------------
(* Prompt: the page (surface/funnel, observation/funnel).                  *)

IsPage(els) ==
  /\ IsFiniteSet(els) /\ els \subseteq Elements
  /\ \A e \in els : e.parent < e.id
  /\ \A e, f \in els : e.id = f.id => e = f

\* An element, part by part.
LEMMA ElementParts ==
  ASSUME NEW e \in Elements
  PROVE  /\ e.id \in Nat /\ e.parent \in Nat /\ e.box \in Nat /\ e.row \in Nat
         /\ e.interactive \in BOOLEAN /\ e.text \subseteq Words
         /\ e.place \in {"in", "above", "below", "aside"}
BY DEF Elements

\* Part of a page is a page.
LEMMA PartOfPage ==
  ASSUME NEW els, IsPage(els), NEW part \in SUBSET els
  PROVE  IsPage(part)
BY FS_Subset DEF IsPage

\* Of two elements of a page the one further down the document is painted later.
LEMMA PaintingOrders ==
  ASSUME NEW els, IsPage(els)
  PROVE  Orders({p \in els \X els : p[2].id < p[1].id}, els)
<1>1. \A e \in els : e.id \in Nat
  BY ElementParts DEF IsPage
<1>2. QED
  BY <1>1 DEF Orders

\* What is left on top is what was not covered by what is left above it, and no
\* other set of elements is that (occlusion.py, from the top down).
LEMMA TopParts ==
  ASSUME NEW els, IsPage(els), Cardinality(els) >= 2, NEW top \in SUBSET els
  PROVE  /\ Unoccluded(els) \in SUBSET els
         /\ top = {e \in els : Reached(e, {c \in top : e.id < c.id})}
              <=> top = Unoccluded(els)
<1> DEFINE R == {p \in els \X els : p[2].id < p[1].id}
           F == {p \in els \X SUBSET els : Reached(p[1], p[2])}
           IsTop(K) == K = {e \in els : Reached(e, {c \in K : e.id < c.id})}
<1>1. IsFiniteSet(els) /\ Orders(R, els)
  BY PaintingOrders DEF IsPage
<1>2. ASSUME NEW K \in SUBSET els PROVE IsTop(K) <=> Greedy(R, F, els, K)
  <2>1. ASSUME NEW e \in els
        PROVE  <<e, Before(R, K, e)>> \in F <=> Reached(e, {c \in K : e.id < c.id})
    <3>1. Before(R, K, e) = {c \in K : e.id < c.id}
      BY DEF Before
    <3>2. {c \in K : e.id < c.id} \in SUBSET els
      OBVIOUS
    <3>3. QED
      BY <3>1, <3>2
  <2> HIDE DEF F, R
  <2>2. QED
    BY <2>1 DEF Greedy
<1> HIDE DEF F, R, IsTop
<1>3. \E K \in SUBSET els : IsTop(K)
  <2>1. PICK K \in SUBSET els : Greedy(R, F, els, K)
    BY <1>1, GreedyExists
  <2>2. QED
    BY <1>2, <2>1
<1>4. Unoccluded(els) = CHOOSE K \in SUBSET els : IsTop(K)
  <2>1. Cardinality(els) \in Nat
    BY <1>1, FS_CardinalityType
  <2>2. ~(Cardinality(els) < 2)
    BY <2>1
  <2>3. QED
    BY <2>2 DEF Unoccluded, IsTop
<1>5. Unoccluded(els) \in SUBSET els /\ IsTop(Unoccluded(els))
  BY <1>3, <1>4
<1>6. IsTop(top) => top = Unoccluded(els)
  <2>1. SUFFICES ASSUME IsTop(top) PROVE top = Unoccluded(els)
    OBVIOUS
  <2>2. Greedy(R, F, els, top) /\ Greedy(R, F, els, Unoccluded(els))
    BY <1>2, <1>5, <2>1
  <2>3. QED
    BY <1>1, <1>5, <2>2, GreedyIsOne
<1>7. IsTop(top) <=> top = Unoccluded(els)
  BY <1>5, <1>6
<1>8. QED
  BY <1>5, <1>7 DEF IsTop

\* What the browser itself says the pointer reaches is never taken for covered.
LEMMA ReachedStay ==
  ASSUME NEW els, IsPage(els)
  PROVE  /\ Unoccluded(els) \in SUBSET els
         /\ \A e \in els : e.pointer = "yes" => e \in Unoccluded(els)
<1>1. CASE Cardinality(els) < 2
  BY <1>1 DEF Unoccluded
<1>2. CASE ~(Cardinality(els) < 2)
  <2>1. Cardinality(els) \in Nat /\ Cardinality(els) >= 2
    BY <1>2, FS_CardinalityType DEF IsPage
  <2>2. Unoccluded(els) \in SUBSET els
    <3>1. {} \in SUBSET els
      OBVIOUS
    <3>2. QED
      BY <2>1, <3>1, TopParts
  <2>3. Unoccluded(els)
          = {e \in els : Reached(e, {c \in Unoccluded(els) : e.id < c.id})}
    BY <2>1, <2>2, TopParts
  <2>4. QED
    BY <2>2, <2>3 DEF Reached
<1>3. QED
  BY <1>1, <1>2

\* The elements the numbering is made over.
Listable(els) == {e \in els : e.interactive \/ e.text # {}}

\* Every entry has a number, every number an entry.
LEMMA IndexedParts ==
  ASSUME NEW els, IsFiniteSet(els),
         \A e \in els : e.id \in Nat /\ e.row \in Nat,
         \A e, f \in els : e.id = f.id => e = f
  PROVE  /\ Cardinality(Listable(els)) \in Nat
         /\ DOMAIN Indexed(els) = 1..Cardinality(Listable(els))
         /\ \A n \in DOMAIN Indexed(els) : Indexed(els)[n] \in Listable(els)
         /\ \A e \in Listable(els) : \E n \in DOMAIN Indexed(els) : Indexed(els)[n] = e
<1> DEFINE T == Listable(els)
           R == {p \in T \X T : ReadsBefore(p[1], p[2])}
           before(e) == {f \in T : ReadsBefore(f, e)}
           placed(n) == CHOOSE e \in T : Cardinality(before(e)) = n - 1
<1>1. T \in SUBSET els /\ IsFiniteSet(T) /\ Cardinality(T) \in Nat
  BY FS_Subset, FS_CardinalityType DEF Listable
<1>2. Indexed(els) = [n \in 1..Cardinality(T) |-> placed(n)]
  BY DEF Indexed, Listable
<1>3. \A e \in T : e.id \in Nat /\ e.row \in Nat
  BY <1>1
<1>4. Orders(R, T) /\ \A e, f \in T : e = f \/ <<e, f>> \in R \/ <<f, e>> \in R
  <2>1. \A e \in T : ~ReadsBefore(e, e)
    BY <1>3 DEF ReadsBefore
  <2>2. \A e, f, g \in T : ReadsBefore(e, f) /\ ReadsBefore(f, g) => ReadsBefore(e, g)
    BY <1>3 DEF ReadsBefore
  <2>3. \A e, f \in T : e = f \/ ReadsBefore(e, f) \/ ReadsBefore(f, e)
    BY <1>1, <1>3 DEF ReadsBefore
  <2> HIDE DEF T
  <2>4. QED
    BY <2>1, <2>2, <2>3 DEF Orders
<1>5. \A e \in T : Before(R, T, e) = before(e)
  BY DEF Before
<1> HIDE DEF T, R, before
<1>6. /\ \A n \in 1..Cardinality(T) : \E e \in T : Cardinality(before(e)) = n - 1
      /\ \A e, f \in T : Cardinality(before(e)) = Cardinality(before(f)) => e = f
  BY <1>1, <1>4, <1>5, PlacesAreTaken
<1>7. \A n \in 1..Cardinality(T) :
        placed(n) \in T /\ Cardinality(before(placed(n))) = n - 1
  BY <1>6
<1>8. ASSUME NEW e \in T
      PROVE  \E n \in 1..Cardinality(T) : placed(n) = e
  <2>1. Cardinality(before(e)) \in 0..(Cardinality(T) - 1)
    BY <1>1, <1>4, <1>5, BeforeParts
  <2> DEFINE n == Cardinality(before(e)) + 1
  <2>2. n \in 1..Cardinality(T) /\ Cardinality(before(e)) = n - 1
    BY <1>1, <2>1
  <2>3. placed(n) \in T /\ Cardinality(before(placed(n))) = Cardinality(before(e))
    BY <1>7, <2>2
  <2>4. placed(n) = e
    BY <1>6, <2>3
  <2>5. QED
    BY <2>2, <2>4
<1> HIDE DEF placed
<1>9. QED
  BY <1>1, <1>2, <1>7, <1>8 DEF T

\* No word is lost with a wrapper or a redundant text: something else on the
\* page that says it is kept.
LEMMA WordsAreKept ==
  ASSUME NEW els, IsPage(els), NEW e \in els, NEW w \in e.text
  PROVE  \E f \in Collapsed(els) : w \in f.text
<1> DEFINE W == {f \in els : w \in f.text}
           R == {p \in W \X W : p[2].id < p[1].id}
<1>1. W \in SUBSET els /\ W # {} /\ IsFiniteSet(W)
  BY FS_Subset DEF IsPage
<1>2. \A f \in els : f.id \in Nat /\ f.parent \in Nat /\ f.parent < f.id
  BY ElementParts DEF IsPage
<1>3. Orders(R, W)
  BY <1>1, <1>2 DEF Orders
<1>4. PICK f \in W : \A g \in W : <<g, f>> \notin R
  BY <1>1, <1>3, FirstOfOrder
<1>5. \A g \in W : ~(f.id < g.id)
  BY <1>4
<1>6. ~IsWrapper(f, els)
  <2>1. SUFFICES ASSUME IsWrapper(f, els) PROVE FALSE
    OBVIOUS
  <2>2. PICK child \in els : {g \in els : g.parent = f.id} = {child} /\ Wraps(f, child)
    BY <2>1 DEF IsWrapper
  <2>3. child.parent = f.id /\ f.text = child.text
    BY <2>2 DEF Wraps
  <2>4. child \in W /\ f.id < child.id
    BY <1>2, <2>3
  <2>5. QED
    BY <1>5, <2>4
<1>7. CASE IsRedundantChild(f, els)
  <2>1. PICK p \in els : p.interactive /\ f.text \subseteq p.text
    BY <1>7 DEF IsRedundantChild
  <2>2. p \in Collapsed(els)
    BY <2>1 DEF Collapsed, IsWrapper, IsRedundantChild
  <2>3. QED
    BY <2>1, <2>2
<1>8. CASE ~IsRedundantChild(f, els)
  BY <1>6, <1>8 DEF Collapsed
<1>9. QED
  BY <1>7, <1>8

\* An element as the list shows it.
Worded(e, names) == [e EXCEPT !.text = Spoken(e.text, names)]

\* The tokenizer changes an element's text and nothing else (funnel/pipeline.py).
LEMMA WordedParts ==
  ASSUME NEW e \in Elements, NEW names
  PROVE  /\ Worded(e, names).id = e.id /\ Worded(e, names).row = e.row
         /\ Worded(e, names).interactive = e.interactive
         /\ Worded(e, names).text = Spoken(e.text, names)
BY DEF Worded, Elements

\* A text that says something still does.
LEMMA SpokenParts ==
  ASSUME NEW text \in SUBSET Words, NEW names
  PROVE  /\ Spoken(text, names) \subseteq {"word", "token"} \X Words
         /\ \A w \in text : {<<"word", w>>, <<"token", w>>} \cap Spoken(text, names) # {}
         /\ \A w : <<"word", w>> \in Spoken(text, names) =>
              w \in text /\ \A n \in names : n \subseteq text => w \notin n
         /\ text # {} => Spoken(text, names) # {}
<1> DEFINE tag(w) == IF w \in Mentioned(text, names) THEN "token" ELSE "word"
<1>1. Spoken(text, names) = {<<tag(w), w>> : w \in text}
  BY DEF Spoken
<1>2. \A w : tag(w) \in {"word", "token"}
  OBVIOUS
<1>3. \A w : tag(w) = "word" => w \notin Mentioned(text, names)
  OBVIOUS
<1> HIDE DEF tag
<1>4. \A w \in text : <<tag(w), w>> \in Spoken(text, names)
  BY <1>1
<1>5. \A w : <<"word", w>> \in Spoken(text, names) => w \in text /\ tag(w) = "word"
  BY <1>1
<1>6. ASSUME NEW w \in text
      PROVE  {<<"word", w>>, <<"token", w>>} \cap Spoken(text, names) # {}
  <2>1. tag(w) = "word" \/ tag(w) = "token"
    BY <1>2
  <2>2. QED
    BY <1>4, <2>1
<1>7. Spoken(text, names) \subseteq {"word", "token"} \X Words
  BY <1>1, <1>2
<1>8. \A w : w \notin Mentioned(text, names) =>
             \A n \in names : n \subseteq text => w \notin n
  BY DEF Mentioned
<1>9. text # {} => Spoken(text, names) # {}
  BY <1>4
<1>10. QED
  BY <1>3, <1>5, <1>6, <1>7, <1>8, <1>9

\* Every stage returns a part of the page it was given.
LEMMA PrunedParts ==
  ASSUME NEW els, IsPage(els)
  PROVE  IsPage(Visible(els)) /\ IsPage(Unoccluded(Visible(els))) /\ IsPage(Pruned(els))
<1>1. IsPage(Visible(els))
  BY PartOfPage DEF Visible, Rendered
<1>2. IsPage(Unoccluded(Visible(els)))
  BY <1>1, ReachedStay, PartOfPage
<1>3. QED
  BY <1>1, <1>2, PartOfPage DEF Pruned, Collapsed

\* The list before it is cut: the numbers are 1 to some n, and stand for what
\* was left of the page.
LEMMA NumberedParts ==
  ASSUME NEW els, IsPage(els), NEW names
  PROVE  /\ \E n \in Nat : DOMAIN Numbered(els, names) = 1..n
         /\ \A i \in DOMAIN Numbered(els, names) :
              \E e \in Pruned(els) : Numbered(els, names)[i] = Worded(e, names)
         /\ \A e \in Pruned(els) : e.interactive \/ e.text # {} =>
              \E i \in DOMAIN Numbered(els, names) :
                Numbered(els, names)[i] = Worded(e, names)
<1> DEFINE kept == Pruned(els)
           listing == Tokenized(kept, names)
<1>1. IsPage(kept) /\ \A e \in kept : e \in Elements
  BY PrunedParts DEF IsPage
<1>2. listing = {Worded(e, names) : e \in kept}
  BY DEF Tokenized, Worded
<1>3. IsFiniteSet(listing)
  <2>1. [e \in kept |-> Worded(e, names)] \in Surjection(kept, listing)
    BY <1>2 DEF Surjection
  <2>2. QED
    BY <1>1, <2>1, FS_Surjection DEF IsPage
<1>4. \A s \in listing : s.id \in Nat /\ s.row \in Nat
  <2>1. \A e \in kept : Worded(e, names).id \in Nat /\ Worded(e, names).row \in Nat
    BY <1>1, ElementParts, WordedParts
  <2>2. QED
    BY <1>2, <2>1
<1>5. \A s, t \in listing : s.id = t.id => s = t
  <2>1. \A e, f \in kept : Worded(e, names).id = Worded(f, names).id => e = f
    BY <1>1, WordedParts DEF IsPage
  <2>2. QED
    BY <1>2, <2>1
<1>6. Numbered(els, names) = Indexed(listing)
  BY DEF Numbered
<1>7. \A e \in kept : e.interactive \/ e.text # {} => Worded(e, names) \in Listable(listing)
  <2>1. ASSUME NEW e \in kept, e.interactive \/ e.text # {}
        PROVE  Worded(e, names).interactive \/ Worded(e, names).text # {}
    <3>1. e \in Elements /\ e.text \in SUBSET Words
      BY <1>1, ElementParts
    <3>2. e.text # {} => Spoken(e.text, names) # {}
      BY <3>1, SpokenParts
    <3>3. QED
      BY <2>1, <3>1, <3>2, WordedParts
  <2>2. QED
    BY <1>2, <2>1 DEF Listable
<1>8. \A s \in Listable(listing) : \E e \in kept : s = Worded(e, names)
  BY <1>2 DEF Listable
<1> HIDE DEF listing, kept
<1>9. /\ Cardinality(Listable(listing)) \in Nat
      /\ DOMAIN Indexed(listing) = 1..Cardinality(Listable(listing))
      /\ \A n \in DOMAIN Indexed(listing) : Indexed(listing)[n] \in Listable(listing)
      /\ \A e \in Listable(listing) : \E n \in DOMAIN Indexed(listing) : Indexed(listing)[n] = e
  BY <1>3, <1>4, <1>5, IndexedParts
<1>10. QED
  BY <1>6, <1>7, <1>8, <1>9 DEF kept

\* Inside a dialog and outside never tie.
LEMMA PriorityParts ==
  ASSUME NEW e
  PROVE  /\ Priority(e) \in 0..5
         /\ e.inside => Priority(e) >= 4
         /\ ~e.inside => Priority(e) <= 3
BY DEF Priority

\* Priority first, then the smaller number: a strict order of the entries.
LEMMA RanksOrder ==
  ASSUME NEW n \in Nat, NEW entries
  PROVE  Orders({p \in (1..n) \X (1..n) : Outranks(entries, p[1], p[2])}, 1..n)
<1> DEFINE S == 1..n
           R == {p \in S \X S : Outranks(entries, p[1], p[2])}
<1>1. Orders(R, S)
  <2>1. \A i \in S : Priority(entries[i]) \in Int /\ i \in Int
    BY PriorityParts
  <2>2. \A i \in S : ~Outranks(entries, i, i)
    BY <2>1 DEF Outranks
  <2>3. \A i, j, k \in S : Outranks(entries, i, j) /\ Outranks(entries, j, k)
                             => Outranks(entries, i, k)
    BY <2>1 DEF Outranks
  <2> HIDE DEF S
  <2>4. QED
    BY <2>2, <2>3 DEF Orders
<1>2. QED
  BY <1>1

\* The list that is kept holds exactly what fits after what outranks it.
LEMMA KeptParts ==
  ASSUME NEW n \in Nat, NEW entries, DOMAIN entries = 1..n, NEW focused
  PROVE  /\ Kept(entries, focused) \in SUBSET (1..n)
         /\ \A i \in 1..n :
              i \in Kept(entries, focused) <=>
                Fits(entries, focused, i,
                     {j \in Kept(entries, focused) : Outranks(entries, j, i)})
<1> DEFINE S == 1..n
           R == {p \in S \X S : Outranks(entries, p[1], p[2])}
           after(K, i) == {j \in K : Outranks(entries, j, i)}
           F == {p \in S \X SUBSET S : Fits(entries, focused, p[1], p[2])}
           IsKept(K) == K = {i \in S : Fits(entries, focused, i, after(K, i))}
<1>1. IsFiniteSet(S)
  BY FS_Interval
<1>2. Orders(R, S)
  BY RanksOrder
<1> HIDE DEF S
<1>3. PICK K \in SUBSET S : Greedy(R, F, S, K)
  BY <1>1, <1>2, GreedyExists
<1>4. ASSUME NEW i \in S
      PROVE  <<i, Before(R, K, i)>> \in F <=> Fits(entries, focused, i, after(K, i))
  <2>1. Before(R, K, i) = after(K, i)
    BY DEF Before
  <2>2. after(K, i) \in SUBSET S
    OBVIOUS
  <2> HIDE DEF after
  <2>3. QED
    BY <2>1, <2>2
<1> HIDE DEF F, R
<1>5. IsKept(K)
  BY <1>3, <1>4 DEF Greedy
<1>6. Kept(entries, focused) = CHOOSE K0 \in SUBSET S : IsKept(K0)
  BY DEF Kept, S
<1>7. Kept(entries, focused) \in SUBSET S /\ IsKept(Kept(entries, focused))
  <2> HIDE DEF IsKept
  <2>1. QED
    BY <1>5, <1>6
<1>8. QED
  BY <1>7 DEF S

\* The budget's loop leaves no choice: any list of entries that holds exactly
\* what fits after what outranks it is the one apply returns
\* (ReadingOrderFormatter.apply).
THEOREM TheListIsOne ==
  ASSUME NEW n \in Nat, NEW entries, DOMAIN entries = 1..n, NEW focused,
         NEW K \in SUBSET (1..n),
         K = {i \in 1..n : Fits(entries, focused, i,
                                {j \in K : Outranks(entries, j, i)})}
  PROVE  K = Kept(entries, focused)
<1> DEFINE S == 1..n
           R == {p \in S \X S : Outranks(entries, p[1], p[2])}
           F == {p \in S \X SUBSET S : Fits(entries, focused, p[1], p[2])}
           L == Kept(entries, focused)
<1>1. IsFiniteSet(S) /\ Orders(R, S)
  <2>1. IsFiniteSet(S)
    BY FS_Interval
  <2>2. Orders(R, S)
    BY RanksOrder
  <2>3. QED
    BY <2>1, <2>2
<1>2. L \in SUBSET S
      /\ \A i \in S : i \in L <=> Fits(entries, focused, i, {j \in L : Outranks(entries, j, i)})
  BY KeptParts
<1> HIDE DEF L
<1>3. ASSUME NEW M \in SUBSET S, NEW i \in S
      PROVE  <<i, Before(R, M, i)>> \in F
               <=> Fits(entries, focused, i, {j \in M : Outranks(entries, j, i)})
  <2>1. Before(R, M, i) = {j \in M : Outranks(entries, j, i)}
    BY DEF Before
  <2>2. {j \in M : Outranks(entries, j, i)} \in SUBSET S
    OBVIOUS
  <2>3. QED
    BY <2>1, <2>2
<1> HIDE DEF F, R
<1>4. Greedy(R, F, S, K) /\ Greedy(R, F, S, L)
  BY <1>2, <1>3 DEF Greedy
<1> HIDE DEF S
<1>5. K = L
  BY <1>1, <1>2, <1>4, GreedyIsOne DEF S
<1>6. QED
  BY <1>5 DEF L

\* A list costs no more than one that holds it.
LEMMA SpentGrows ==
  ASSUME NEW n \in Nat, NEW entries, DOMAIN entries = 1..n,
         \A i \in 1..n : entries[i].text \subseteq {"word", "token"} \X Words,
         NEW more \in SUBSET (1..n), NEW less \in SUBSET more
  PROVE  Spent(entries, less) <= Spent(entries, more) /\ Spent(entries, more) \in Nat
<1> DEFINE spent(S) == UNION {{i} \X entries[i].text : i \in S}
           all == (1..n) \X ({"word", "token"} \X Words)
<1>1. IsFiniteSet(1..n) /\ IsFiniteSet(more)
  <2>1. IsFiniteSet(1..n)
    BY FS_Interval
  <2>2. QED
    BY <2>1, FS_Subset
<1>2. IsFiniteSet(all)
  <2>1. IsFiniteSet({"word", "token"})
    <3>1. IsFiniteSet({"word"}) /\ {"word", "token"} = {"word"} \cup {"token"}
      BY FS_Singleton
    <3>2. IsFiniteSet({"word"} \cup {"token"})
      BY <3>1, FS_AddElement
    <3>3. QED
      BY <3>1, <3>2
  <2>2. IsFiniteSet({"word", "token"} \X Words)
    BY <2>1, FS_Product, FunnelConstants
  <2>3. QED
    BY <1>1, <2>2, FS_Product
<1>3. spent(more) \in SUBSET all
  <2>1. \A i \in more : {i} \X entries[i].text \subseteq all
    OBVIOUS
  <2>2. QED
    BY <2>1
<1>4. spent(less) \in SUBSET spent(more)
  OBVIOUS
<1> HIDE DEF spent, all
<1>5. /\ Cardinality(less) <= Cardinality(more)
      /\ Cardinality(less) \in Nat /\ Cardinality(more) \in Nat
  BY <1>1, FS_Subset, FS_CardinalityType
<1>6. IsFiniteSet(spent(more)) /\ IsFiniteSet(spent(less))
  BY <1>2, <1>3, <1>4, FS_Subset
<1>7. /\ Cardinality(spent(less)) <= Cardinality(spent(more))
      /\ Cardinality(spent(less)) \in Nat /\ Cardinality(spent(more)) \in Nat
  BY <1>4, <1>6, FS_Subset, FS_CardinalityType
<1>8. /\ Spent(entries, less) = Cardinality(less) + Cardinality(spent(less))
      /\ Spent(entries, more) = Cardinality(more) + Cardinality(spent(more))
  BY DEF Spent, spent
<1>9. QED
  BY <1>5, <1>7, <1>8

-----------------------------------------------------------------------------
(* Prompt: what was seen, and what follows from it.                        *)

\* What the model is about to decide on is the last page that was observed.
Seen ==
  pc \in {"reason", "gate"} =>
    LET listed == Listed(page.els, numbered)
    IN  /\ IsPage(page.els)
        /\ NamesIn(page.els) \subseteq known
        /\ numbered = Numbered(page.els, known)
        /\ observation.list = [i \in listed |-> numbered[i]]
        /\ observation.told = DroppedCount(page.els, numbered, listed)

\* The list that was seen, part by part.
LEMMA SeenParts ==
  ASSUME Seen, pc = "reason"
  PROVE  /\ IsPage(Els) /\ Indexes = Listed(Els, numbered)
         /\ \E n \in Nat : DOMAIN numbered = 1..n
         /\ Indexes \in SUBSET DOMAIN numbered
         /\ \A i \in Indexes : observation.list[i] = numbered[i]
         /\ \A i \in DOMAIN numbered :
              \E e \in Pruned(Els) : e \in Elements /\ numbered[i] = Worded(e, known)
         /\ \A e \in Pruned(Els) : e.interactive \/ e.text # {} =>
              \E i \in DOMAIN numbered : numbered[i] = Worded(e, known)
<1> DEFINE listed == Listed(Els, numbered)
<1>1. /\ IsPage(Els) /\ numbered = Numbered(Els, known)
      /\ observation.list = [i \in listed |-> numbered[i]]
  BY DEF Seen, Els
<1>2. PICK n \in Nat : DOMAIN numbered = 1..n
  BY <1>1, NumberedParts
<1>3. listed \in SUBSET (1..n)
  BY <1>2, KeptParts DEF Listed
<1>4. \A e \in Pruned(Els) : e \in Elements
  BY <1>1, PrunedParts DEF IsPage
<1> HIDE DEF listed
<1>5. Indexes = listed /\ \A i \in Indexes : observation.list[i] = numbered[i]
  BY <1>1 DEF Indexes
<1>6. /\ \A i \in DOMAIN numbered : \E e \in Pruned(Els) : numbered[i] = Worded(e, known)
      /\ \A e \in Pruned(Els) : e.interactive \/ e.text # {} =>
           \E i \in DOMAIN numbered : numbered[i] = Worded(e, known)
  BY <1>1, NumberedParts
<1>7. \A i \in DOMAIN numbered :
        \E e \in Pruned(Els) : e \in Elements /\ numbered[i] = Worded(e, known)
  BY <1>4, <1>6
<1>8. Indexes = Listed(Els, numbered) /\ Indexes \in SUBSET DOMAIN numbered
  BY <1>2, <1>3, <1>5 DEF listed
<1>9. QED
  BY <1>1, <1>2, <1>5, <1>6, <1>7, <1>8

\* The dialog's elements are tried before anything behind it, so only what
\* was taken of the dialog stands in the way of one that was cut.
LEMMA SeenDialogFirst == Seen => DialogComesFirst
<1> SUFFICES ASSUME Seen, pc = "reason",
                    NEW i \in DOMAIN numbered, numbered[i].inside, i \notin Indexes
             PROVE  Spent(numbered, ({j \in DOMAIN numbered : numbered[j].inside}
                                       \cap Indexes) \cup {i}) > TokenBudget
  BY DEF DialogComesFirst
<1> DEFINE inside == {j \in DOMAIN numbered : numbered[j].inside}
           taken == {j \in Indexes : Outranks(numbered, j, i)}
<1>1. PICK n \in Nat : DOMAIN numbered = 1..n
  BY SeenParts
<1>2. Indexes = Kept(numbered, Focused(Els)) /\ Indexes \in SUBSET (1..n)
  BY <1>1, SeenParts DEF Listed
<1>3. ~Fits(numbered, Focused(Els), i, taken)
  BY <1>1, <1>2, KeptParts
<1>4. ~(Spent(numbered, taken \cup {i}) <= TokenBudget)
  BY <1>3 DEF Fits
<1>5. taken \in SUBSET (inside \cap Indexes)
  <2>1. ASSUME NEW j \in taken PROVE numbered[j].inside
    <3>1. Priority(numbered[j]) >= Priority(numbered[i])
      BY PriorityParts DEF Outranks
    <3>2. Priority(numbered[i]) >= 4 /\ Priority(numbered[i]) \in Int
          /\ Priority(numbered[j]) \in Int
      BY PriorityParts
    <3>3. ~(Priority(numbered[j]) <= 3)
      BY <3>1, <3>2
    <3>4. QED
      BY <3>3, PriorityParts
  <2>2. QED
    BY <1>1, <1>2, <2>1
<1>6. \A j \in 1..n : numbered[j].text \subseteq {"word", "token"} \X Words
  <2>1. ASSUME NEW j \in 1..n
        PROVE  numbered[j].text \subseteq {"word", "token"} \X Words
    <3>1. PICK e \in Elements : numbered[j] = Worded(e, known)
      BY <1>1, SeenParts
    <3>2. e.text \in SUBSET Words /\ numbered[j].text = Spoken(e.text, known)
      BY <3>1, ElementParts, WordedParts
    <3>3. QED
      BY <3>2, SpokenParts
  <2>2. QED
    BY <2>1
<1> DEFINE more == (inside \cap Indexes) \cup {i}
           less == taken \cup {i}
<1>7. more \in SUBSET (1..n) /\ less \in SUBSET more
  BY <1>1, <1>2, <1>5
<1> HIDE DEF more, less
<1>8. Spent(numbered, less) <= Spent(numbered, more)
      /\ Spent(numbered, less) \in Nat /\ Spent(numbered, more) \in Nat
  <2>1. more \in SUBSET more /\ less \in SUBSET less /\ less \in SUBSET (1..n)
    BY <1>7
  <2>2. QED
    BY <1>1, <1>6, <1>7, <2>1, SpentGrows
<1>9. ~(Spent(numbered, less) <= TokenBudget)
  BY <1>4 DEF less
<1>10. Spent(numbered, more) > TokenBudget
  BY <1>8, <1>9, FunnelConstants
<1>11. QED
  BY <1>10 DEF more

\* Every name on the page is known by the time a text is listing.
LEMMA SeenNamesAreTokens == Seen => NamesAreTokens
<1> SUFFICES ASSUME Seen, pc = "reason", NEW i \in Indexes, NEW name \in NamesIn(Els),
                    {<<"word", w>> : w \in name} \subseteq observation.list[i].text
             PROVE  FALSE
  BY DEF NamesAreTokens
<1>1. name \in known /\ name # {}
  BY DEF Seen, Els, NamesIn
<1>2. PICK t \in SUBSET Words : observation.list[i].text = Spoken(t, known)
  <2>1. PICK e \in Elements : numbered[i] = Worded(e, known)
    BY SeenParts
  <2>2. e.text \in SUBSET Words /\ observation.list[i].text = Spoken(e.text, known)
    BY <2>1, SeenParts, ElementParts, WordedParts
  <2>3. QED
    BY <2>2
<1>3. \A w : <<"word", w>> \in Spoken(t, known) =>
               w \in t /\ \A m \in known : m \subseteq t => w \notin m
  BY SpokenParts
<1>4. \A w \in name : <<"word", w>> \in Spoken(t, known)
  BY <1>2
<1>5. name \subseteq t
  BY <1>3, <1>4
<1>6. \A w \in name : w \notin name
  BY <1>1, <1>3, <1>4, <1>5
<1>7. QED
  BY <1>1, <1>6

\* What the pointer reaches survives every stage, its words in its own entry
\* or in another; what scrolled away is counted on each side.
LEMMA SeenNothingLost == Seen => NothingIsLostSilently
<1> SUFFICES ASSUME Seen, pc = "reason" PROVE NothingIsLostSilently
  BY DEF NothingIsLostSilently
<1> DEFINE top == Unoccluded(InView)
           cut == Cardinality(DOMAIN numbered \ Indexes)
<1>1. IsPage(Els) /\ IsPage(InView) /\ IsPage(top) /\ Pruned(Els) = Collapsed(top)
  BY SeenParts, PrunedParts DEF InView, Pruned
<1>2. ASSUME NEW e \in InView, e.pointer = "yes" PROVE e \in top
  BY <1>1, <1>2, ReachedStay
<1> HIDE DEF top
<1>3. ASSUME NEW e \in top, e.interactive
      PROVE  \E i \in DOMAIN numbered : numbered[i].id = e.id
  <2>1. e \in Pruned(Els) /\ e \in Elements
    BY <1>1, <1>3 DEF Collapsed, IsWrapper, IsRedundantChild, IsPage
  <2>2. PICK i \in DOMAIN numbered : numbered[i] = Worded(e, known)
    BY <1>3, <2>1, SeenParts
  <2>3. QED
    BY <2>1, <2>2, WordedParts
<1>4. ASSUME NEW e \in top, NEW w \in e.text
      PROVE  \E i \in DOMAIN numbered :
               {<<"word", w>>, <<"token", w>>} \cap numbered[i].text # {}
  <2>1. PICK f \in Pruned(Els) : w \in f.text
    BY <1>1, WordsAreKept
  <2>2. f \in Elements /\ f.text \in SUBSET Words
    BY <1>1, PrunedParts, ElementParts DEF IsPage
  <2>3. PICK i \in DOMAIN numbered : numbered[i] = Worded(f, known)
    BY <2>1, SeenParts
  <2>4. numbered[i].text = Spoken(f.text, known)
    BY <2>2, <2>3, WordedParts
  <2>5. {<<"word", w>>, <<"token", w>>} \cap Spoken(f.text, known) # {}
    BY <2>1, <2>2, SpokenParts
  <2>6. QED
    BY <2>4, <2>5
<1>5. observation.told = cut + Cardinality({e \in Els : e.rendered /\ e.place # "in"})
  <2> DEFINE away == {e \in Els : e.rendered /\ e.place # "in"}
  <2>1. \A e \in Els : e.place \in {"in", "above", "below", "aside"}
    BY <1>1, ElementParts DEF IsPage
  <2>2. away = Above(Els) \cup Below(Els) /\ Above(Els) \cap Below(Els) = {}
    BY <2>1 DEF Above, Below, Rendered
  <2>3. Above(Els) \in SUBSET Els /\ Below(Els) \in SUBSET Els
    BY DEF Above, Below, Rendered
  <2>4. IsFiniteSet(Above(Els)) /\ IsFiniteSet(Below(Els))
    BY <1>1, <2>3, FS_Subset DEF IsPage
  <2> HIDE DEF away, cut
  <2>5. /\ Cardinality(Above(Els)) \in Nat /\ Cardinality(Below(Els)) \in Nat
        /\ Cardinality({}) = 0
    BY <2>4, FS_CardinalityType, FS_EmptySet
  <2>6. Cardinality(away) = Cardinality(Above(Els)) + Cardinality(Below(Els))
    <3>1. Cardinality(Above(Els) \cup Below(Els)) =
            Cardinality(Above(Els)) + Cardinality(Below(Els))
              - Cardinality(Above(Els) \cap Below(Els))
      BY <2>4, FS_Union
    <3>2. Cardinality(Above(Els) \cap Below(Els)) = 0
      BY <2>2, <2>5
    <3>3. QED
      BY <2>2, <2>5, <3>1, <3>2
  <2>7. cut \in Nat
    <3>1. PICK n \in Nat : DOMAIN numbered = 1..n
      BY SeenParts
    <3>2. IsFiniteSet(1..n)
      BY FS_Interval
    <3>3. IsFiniteSet(DOMAIN numbered \ Indexes)
      BY <3>1, <3>2, FS_Difference
    <3>4. QED
      BY <3>3, FS_CardinalityType DEF cut
  <2>8. observation.told = Cardinality(Above(Els)) + Cardinality(Below(Els)) + cut
    BY SeenParts DEF Seen, Els, DroppedCount, cut
  <2>9. observation.told = cut + Cardinality(away)
    BY <2>5, <2>6, <2>7, <2>8
  <2>10. QED
    BY <2>9 DEF away, cut
<1>6. QED
  BY <1>2, <1>3, <1>4, <1>5 DEF NothingIsLostSilently

\* Whatever kinds of elements a page is made of, it is a page.
LEMMA PagesAreMade ==
  ASSUME NEW n \in Nat, NEW kinds \in [1..n -> ElementKinds],
         NEW parents \in [1..n -> 0..n], \A i \in 1..n : parents[i] < i
  PROVE  IsPage({[kinds[i] EXCEPT !.id = i, !.parent = parents[i]] : i \in 1..n})
<1> DEFINE made(i) == [kinds[i] EXCEPT !.id = i, !.parent = parents[i]]
           els == {made(i) : i \in 1..n}
<1>1. ASSUME NEW i \in 1..n
      PROVE  made(i) \in Elements /\ made(i).id = i /\ made(i).parent = parents[i]
  <2>1. kinds[i] \in Elements
    BY PromptConstants
  <2>2. i \in Nat /\ parents[i] \in Nat
    OBVIOUS
  <2>3. QED
    BY <2>1, <2>2 DEF Elements
<1> HIDE DEF made
<1>2. IsFiniteSet(els)
  <2>1. IsFiniteSet(1..n)
    BY FS_Interval
  <2>2. [i \in 1..n |-> made(i)] \in Surjection(1..n, els)
    BY DEF Surjection
  <2>3. QED
    BY <2>1, <2>2, FS_Surjection
<1>3. \A e \in els : e \in Elements /\ e.parent < e.id
  BY <1>1
<1>4. \A e, f \in els : e.id = f.id => e = f
  BY <1>1
<1>5. QED
  BY <1>2, <1>3, <1>4 DEF IsPage, made

\* A new look makes the list, the count and the map of one page.
LEMMA LooksAreSeen ==
  ASSUME NEW p, IsPage(p.els), Observes(p)
  PROVE  Seen' /\ OnlyListedIsTouched'
<1> DEFINE listed == Listed(page'.els, numbered')
<1>1. page' = p /\ known' = Learnt(page'.els, known) /\ numbered' = Numbered(page'.els, known')
  BY DEF Observes
<1>2. /\ observation' = [list |-> [i \in listed |-> numbered'[i]],
                         told |-> DroppedCount(page'.els, numbered', listed),
                         field |-> FieldIndex(numbered', listed, page'.field)]
      /\ geometry' = [i \in listed |-> numbered'[i].id]
  BY DEF Observes, Dispatchable
<1>3. NamesIn(page'.els) \subseteq known'
  BY <1>1 DEF Learnt
<1> HIDE DEF listed
<1>4. /\ observation'.list = [i \in listed |-> numbered'[i]]
      /\ observation'.told = DroppedCount(page'.els, numbered', listed)
      /\ observation'.field = FieldIndex(numbered', listed, page'.field)
  BY <1>2
<1>5. Seen'
  BY <1>1, <1>3, <1>4 DEF Seen, listed
<1>6. DOMAIN observation'.list = listed /\ \A i \in listed : observation'.list[i] = numbered'[i]
  BY <1>4
<1>7. geometry' = [i \in DOMAIN observation'.list |-> observation'.list[i].id]
  BY <1>2, <1>6
<1>8. observation'.field # 0 =>
        observation'.field \in listed /\ numbered'[observation'.field].id = page'.field
  BY <1>4 DEF FieldIndex
<1>9. OnlyListedIsTouched'
  BY <1>2, <1>6, <1>7, <1>8 DEF OnlyListedIsTouched, Indexes
<1>10. QED
  BY <1>5, <1>9

-----------------------------------------------------------------------------
(* Prompt: the history (agent/compaction.py).                              *)

\* Later messages are part of later turns, and a result of its call's.
LEMMA TurnParts ==
  ASSUME NEW ms, NEW i \in Nat
  PROVE  /\ Turn(ms, i) \in Nat
         /\ \A k \in Nat : i <= k => Turn(ms, i) <= Turn(ms, k)
         /\ Joins(ms, i + 1) => Turn(ms, i + 1) = Turn(ms, i)
<1> DEFINE heads(k) == {j \in 1..k : ~Joins(ms, j)}
<1>1. ASSUME NEW k \in Nat PROVE IsFiniteSet(heads(k)) /\ Cardinality(heads(k)) \in Nat
  <2>1. IsFiniteSet(1..k) /\ heads(k) \in SUBSET (1..k)
    BY FS_Interval
  <2> HIDE DEF heads
  <2>2. IsFiniteSet(heads(k))
    BY <2>1, FS_Subset
  <2>3. QED
    BY <2>2, FS_CardinalityType
<1>2. ASSUME NEW k \in Nat, i <= k PROVE heads(i) \in SUBSET heads(k)
  BY <1>2
<1>3. Joins(ms, i + 1) => heads(i + 1) = heads(i)
  OBVIOUS
<1>4. \A k \in Nat : Turn(ms, k) = Cardinality(heads(k))
  BY DEF Turn
<1> HIDE DEF heads
<1>5. \A k \in Nat : i <= k => Cardinality(heads(i)) <= Cardinality(heads(k))
  BY <1>1, <1>2, FS_Subset
<1>6. QED
  BY <1>1, <1>3, <1>4, <1>5

\* The first g turns are the messages up to their end.
LEMMA EndParts ==
  ASSUME NEW n \in Nat, NEW ms, DOMAIN ms = 1..n, NEW g \in Int
  PROVE  /\ End(ms, g) \in 0..n
         /\ \A i \in 1..n : i <= End(ms, g) <=> Turn(ms, i) <= g
<1> DEFINE P == {i \in 1..n : Turn(ms, i) <= g}
           after == {m \in 0..n : \A i \in P : i <= m}
<1>1. End(ms, g) = Cardinality(P)
  BY DEF End
<1>2. after \in SUBSET Nat /\ after # {}
  <2>1. n \in after
    OBVIOUS
  <2>2. QED
    BY <2>1
<1>3. PICK x \in after : \A m \in after : x <= m
  BY <1>2, LeastNat
<1>4. P = 1..x
  <2>1. CASE x = 0
    BY <2>1
  <2>2. CASE x # 0
    <3>1. x \in 1..n /\ \A i \in P : i <= x
      BY <2>2
    <3>2. x \in P
      <4>1. SUFFICES ASSUME x \notin P PROVE FALSE
        OBVIOUS
      <4>2. x - 1 \in 0..n /\ \A i \in P : i <= x - 1
        BY <3>1, <4>1
      <4>3. x - 1 \in after
        BY <4>2
      <4>4. QED
        BY <1>3, <3>1, <4>3
    <3>3. ASSUME NEW i \in 1..x PROVE i \in P
      <4>1. i \in 1..n /\ i \in Nat /\ x \in Nat /\ i <= x
        BY <3>1
      <4>2. Turn(ms, i) <= Turn(ms, x) /\ Turn(ms, x) <= g
        BY <3>2, <4>1, TurnParts
      <4>3. Turn(ms, i) \in Nat /\ Turn(ms, x) \in Nat
        BY <4>1, TurnParts
      <4>4. QED
        BY <4>1, <4>2, <4>3
    <3>4. QED
      BY <3>1, <3>3
  <2>3. QED
    BY <2>1, <2>2
<1>5. Cardinality(1..x) = x
  BY FS_Interval
<1>6. End(ms, g) = x /\ x \in 0..n
  BY <1>1, <1>4, <1>5
<1>7. \A i \in 1..n : i <= x <=> i \in P
  BY <1>4
<1>8. QED
  BY <1>6, <1>7

\* No turn ends between a call and its result.
LEMMA PairsAreNotCut ==
  ASSUME NEW n \in Nat, NEW ms, DOMAIN ms = 1..n, NEW g \in Int,
         NEW i \in 1..n, i + 1 \in 1..n,
         ms[i].role = "assistant", ms[i + 1].role = "tool"
  PROVE  i <= End(ms, g) <=> i + 1 <= End(ms, g)
<1>1. Joins(ms, i + 1)
  BY DEF Joins
<1>2. Turn(ms, i + 1) = Turn(ms, i)
  BY <1>1, TurnParts
<1>3. QED
  BY <1>2, EndParts

Roles == {"assistant", "user", "tool"}
HistoryMessages ==
  [role : Roles, call : Verbs \cup {NoVerb}, size : Nat, at : Nat, tells : {{}}]

\* The same turns, what they say cut short.
Shortened(ms, history) ==
  /\ DOMAIN history = DOMAIN ms
  /\ \A i \in DOMAIN ms : /\ history[i].role = ms[i].role
                          /\ history[i].call = ms[i].call
                          /\ history[i].at = ms[i].at

\* One line in the place of the messages after from, to to.
Summed(ms, from, to, line) ==
  SubSeq(ms, 1, from) \o <<line>> \o SubSeq(ms, to + 1, Len(ms))

StandsFor(line, ms, from, to) ==
  /\ line.role = "user" /\ line.call = NoVerb
  /\ \A i \in (from + 1)..to : IsCall(ms[i]) => ms[i].at \in line.tells

\* What a history becomes: what it was, shorter, or with a line for its middle.
LEMMA CompactParts ==
  ASSUME NEW ms \in Seq(HistoryMessages)
  PROVE  \/ Shortened(ms, Compact(ms))
         \/ \E g \in Int : \E line :
              /\ StandsFor(line, ms, End(ms, KeepHead), End(ms, g))
              /\ Compact(ms) = Summed(ms, End(ms, KeepHead), End(ms, g), line)
<1> DEFINE n == Len(ms)
           last == Turn(ms, n) - KeepTail
           from == End(ms, KeepHead)
           to == End(ms, last)
           middle == (from + 1)..to
           trimmed == [i \in DOMAIN ms |->
                         IF i \in middle THEN TrimTool(ms[i]) ELSE ms[i]]
           stripped == [i \in DOMAIN ms |->
                         IF i \in middle THEN StripReasoning(trimmed[i]) ELSE ms[i]]
           line == Summarise(stripped, middle)
<1>1. n \in Nat /\ DOMAIN ms = 1..n /\ KeepHead \in Int /\ KeepTail \in Int
  BY CompactionConstants
<1>2. last \in Int
  BY <1>1, TurnParts
<1>3. from \in 0..n /\ to \in 0..n
  BY <1>1, <1>2, EndParts
<1>4. ASSUME NEW m \in HistoryMessages
      PROVE  /\ TrimTool(m) \in HistoryMessages /\ StripReasoning(m) \in HistoryMessages
             /\ TrimTool(m).role = m.role /\ StripReasoning(m).role = m.role
             /\ TrimTool(m).call = m.call /\ StripReasoning(m).call = m.call
             /\ TrimTool(m).at = m.at /\ StripReasoning(m).at = m.at
  BY DEF TrimTool, StripReasoning, HistoryMessages
<1>5. \A i \in DOMAIN ms : ms[i] \in HistoryMessages
  OBVIOUS
<1> HIDE DEF middle
<1>6. /\ DOMAIN trimmed = DOMAIN ms
      /\ \A i \in DOMAIN ms : trimmed[i] = TrimTool(ms[i]) \/ trimmed[i] = ms[i]
  OBVIOUS
<1>7. /\ DOMAIN stripped = DOMAIN ms
      /\ \A i \in DOMAIN ms : stripped[i] = StripReasoning(trimmed[i]) \/ stripped[i] = ms[i]
  OBVIOUS
<1>8. Compact(ms) \in {ms, trimmed, stripped, Summed(ms, from, to, line)}
  BY DEF Compact, Summed, middle
<1> HIDE DEF trimmed, stripped
<1>9. Shortened(ms, ms) /\ Shortened(ms, trimmed) /\ Shortened(ms, stripped)
  <2>1. Shortened(ms, ms)
    BY DEF Shortened
  <2>2. Shortened(ms, trimmed)
    BY <1>4, <1>5, <1>6 DEF Shortened
  <2>3. \A i \in DOMAIN ms : trimmed[i] \in HistoryMessages
    BY <1>4, <1>5, <1>6
  <2>4. Shortened(ms, stripped)
    BY <1>4, <1>5, <1>7, <2>2, <2>3 DEF Shortened
  <2>5. QED
    BY <2>1, <2>2, <2>4
<1>10. StandsFor(line, ms, from, to)
  <2>1. /\ line.role = "user" /\ line.call = NoVerb
        /\ line.tells = {stripped[i].at : i \in {j \in middle : IsCall(stripped[j])}}
    BY DEF Summarise, Message
  <2>2. ASSUME NEW i \in middle, IsCall(ms[i]) PROVE ms[i].at \in line.tells
    <3>1. i \in DOMAIN ms
      BY <1>1, <1>3 DEF middle
    <3>2. stripped[i].at = ms[i].at /\ IsCall(stripped[i])
      BY <1>9, <2>2, <3>1 DEF Shortened, IsCall
    <3>3. QED
      BY <2>1, <3>2
  <2> HIDE DEF line
  <2>3. QED
    BY <2>1, <2>2 DEF StandsFor, middle
<1> HIDE DEF line, last
<1>11. QED
  BY <1>2, <1>8, <1>9, <1>10

\* Three parts of a history one after the other, place by place.
JoinedShape(h, a, b, c) ==
  /\ DOMAIN h = 1..Len(h)
  /\ Len(h) = Len(a) + 1 + Len(c)
  /\ \A i \in 1..Len(a) : h[i] = a[i]
  /\ h[Len(a) + 1] = b
  /\ \A i \in 1..Len(c) : h[Len(a) + 1 + i] = c[i]

\* compact assembles head, line and tail in this order (agent/compaction.py).
LEMMA JoinedParts ==
  ASSUME NEW S, NEW a \in Seq(S), NEW b \in S, NEW c \in Seq(S)
  PROVE  JoinedShape(a \o <<b>> \o c, a, b, c)
BY DEF JoinedShape

\* A history with a line for its middle, place by place.
SummedShape(history, ms, from, to, line) ==
  /\ DOMAIN history = 1..Len(history)
  /\ Len(history) = from + 1 + Len(ms) - to
  /\ \A i \in 1..from : history[i] = ms[i]
  /\ history[from + 1] = line
  /\ \A i \in (to + 1)..Len(ms) : history[i - to + from + 1] = ms[i]

\* The same for the parts compact cuts out of a history of any length.
LEMMA SummedParts ==
  ASSUME NEW ms \in Seq(HistoryMessages), NEW line,
         NEW from \in 0..Len(ms), NEW to \in 0..Len(ms)
  PROVE  SummedShape(Summed(ms, from, to, line), ms, from, to, line)
<1> DEFINE head == SubSeq(ms, 1, from)
           tail == SubSeq(ms, to + 1, Len(ms))
           history == Summed(ms, from, to, line)
           S == HistoryMessages \cup {line}
<1>1. head \in Seq(S) /\ Len(head) = from /\ \A i \in 1..from : head[i] = ms[i]
  OBVIOUS
<1>2. /\ tail \in Seq(S) /\ Len(tail) = Len(ms) - to
      /\ \A i \in (to + 1)..Len(ms) : tail[i - to] = ms[i]
  <2>1. Len(ms) \in Nat /\ to \in Nat /\ to <= Len(ms)
    OBVIOUS
  <2>2. /\ tail \in Seq(HistoryMessages) /\ Len(tail) = Len(ms) - to
        /\ \A k \in 1..(Len(ms) - to) : tail[k] = ms[to + k]
    BY <2>1
  <2> HIDE DEF tail
  <2>3. ASSUME NEW i \in (to + 1)..Len(ms) PROVE tail[i - to] = ms[i]
    <3>1. i - to \in 1..(Len(ms) - to) /\ to + (i - to) = i
      BY <2>1
    <3>2. QED
      BY <2>2, <3>1
  <2>4. tail \in Seq(S)
    BY <2>2
  <2>5. QED
    BY <2>2, <2>3, <2>4
<1>3. history = head \o <<line>> \o tail /\ line \in S
  BY DEF Summed
<1> HIDE DEF head, tail, history, S
<1>4. /\ DOMAIN history = 1..Len(history)
      /\ Len(history) = Len(head) + 1 + Len(tail)
      /\ \A i \in 1..Len(head) : history[i] = head[i]
      /\ history[Len(head) + 1] = line
      /\ \A i \in 1..Len(tail) : history[Len(head) + 1 + i] = tail[i]
  <2>1. head \in Seq(S) /\ tail \in Seq(S)
    BY <1>1, <1>2
  <2>2. JoinedShape(history, head, line, tail)
    BY <1>3, <2>1, JoinedParts
  <2>3. QED
    BY <2>2 DEF JoinedShape
<1>5. ASSUME NEW i \in (to + 1)..Len(ms)
      PROVE  history[i - to + from + 1] = ms[i]
  <2>1. i - to \in 1..Len(tail) /\ from + 1 + (i - to) = i - to + from + 1
    BY <1>2
  <2>2. history[from + 1 + (i - to)] = tail[i - to]
    BY <1>1, <1>4, <2>1
  <2>3. QED
    BY <1>2, <2>1, <2>2
<1>6. Len(history) = from + 1 + Len(ms) - to
  BY <1>1, <1>2, <1>4
<1>7. SummedShape(history, ms, from, to, line)
  BY <1>1, <1>4, <1>5, <1>6 DEF SummedShape
<1>8. QED
  BY <1>7 DEF history

TurnTyped ==
  /\ pc \in {"observe", "reason", "gate", "act", "remedy", "done"}
  /\ messages \in Seq(HistoryMessages)
  /\ choice \in [verb : Verbs \cup {NoVerb}, index : Nat]

\* A call waits for its answer only as the last message, while it is carried
\* out or after the surface was lost in it.
Waiting(i) ==
  i = Len(messages) /\ pc \in {"act", "done"} /\ choice.verb = messages[i].call

UngatedArePaired ==
  \A i \in DOMAIN messages : messages[i].call \notin Gated =>
    /\ IsCall(messages[i]) => AnsweredNext(messages, i) \/ Waiting(i)
    /\ messages[i].role = "tool" => CalledBefore(messages, i)

\* What is carried out is the call the history ends with, or one a human saw.
ChosenIsLast ==
  /\ pc = "gate" => choice.verb \in Gated
  /\ pc = "act" /\ choice.verb \notin Gated =>
       /\ Len(messages) > 0 /\ IsCall(messages[Len(messages)])
       /\ messages[Len(messages)].call = choice.verb

\* However a history is compacted, each of its calls is in it or in its line.
LEMMA CompactRemembers ==
  ASSUME TurnTyped, NEW m \in ToSet(messages), IsCall(m)
  PROVE  \E h \in ToSet(History) : (h.at = m.at /\ IsCall(h)) \/ m.at \in h.tells
<1>1. messages \in Seq(HistoryMessages)
  BY DEF TurnTyped
<1>2. PICK i \in DOMAIN messages : messages[i] = m
  BY DEF ToSet
<1>3. CASE Shortened(messages, History)
  <2>1. i \in DOMAIN History /\ History[i].at = m.at /\ IsCall(History[i])
    BY <1>2, <1>3 DEF Shortened, IsCall
  <2>2. QED
    BY <2>1 DEF ToSet
<1>4. ASSUME NEW g \in Int, NEW line,
             StandsFor(line, messages, End(messages, KeepHead), End(messages, g)),
             History = Summed(messages, End(messages, KeepHead), End(messages, g), line)
      PROVE  \E h \in ToSet(History) : (h.at = m.at /\ IsCall(h)) \/ m.at \in h.tells
  <2> DEFINE from == End(messages, KeepHead)
             to == End(messages, g)
             n == Len(messages)
  <2>1. n \in Nat /\ DOMAIN messages = 1..n /\ KeepHead \in Int
    BY <1>1, CompactionConstants
  <2>2. from \in 0..n /\ to \in 0..n
    BY <2>1, EndParts
  <2>3. /\ DOMAIN History = 1..Len(History)
        /\ Len(History) = from + 1 + n - to
        /\ \A k \in 1..from : History[k] = messages[k]
        /\ History[from + 1] = line
        /\ \A k \in (to + 1)..n : History[k - to + from + 1] = messages[k]
    <3> HIDE DEF from, to
    <3>1. History = Summed(messages, from, to, line)
      BY <1>4 DEF from, to
    <3>2. messages \in Seq(HistoryMessages)
      BY <1>1
    <3>3. from \in 0..Len(messages) /\ to \in 0..Len(messages)
      BY <2>2
    <3>4. SummedShape(History, messages, from, to, line)
      BY <3>1, <3>2, <3>3, SummedParts
    <3>5. QED
      BY <3>4 DEF SummedShape
  <2>4. from + 1 \in DOMAIN History
    BY <2>1, <2>2, <2>3
  <2>5. StandsFor(line, messages, from, to)
    BY <1>4
  <2> HIDE DEF from, to, n
  <2>6. CASE i <= from
    <3>1. i \in DOMAIN History /\ History[i] = m
      BY <1>2, <2>1, <2>2, <2>3, <2>6
    <3>2. QED
      BY <3>1 DEF ToSet
  <2>7. CASE i > to
    <3>1. i - to + from + 1 \in DOMAIN History /\ History[i - to + from + 1] = m
      BY <1>2, <2>1, <2>2, <2>3, <2>7
    <3>2. QED
      BY <3>1 DEF ToSet
  <2>8. CASE i > from /\ i <= to
    <3>1. i \in (from + 1)..to
      BY <2>1, <2>2, <2>8
    <3>2. m.at \in line.tells
      BY <1>2, <2>5, <3>1 DEF StandsFor
    <3>3. QED
      BY <2>3, <2>4, <3>2 DEF ToSet
  <2>9. QED
    BY <2>1, <2>2, <2>6, <2>7, <2>8
<1>5. QED
  BY <1>1, <1>3, <1>4, CompactParts DEF History

\* Whatever the history, its compacted form keeps or names every call.
LEMMA WorkIsRememberedHere == TurnTyped => WorkIsRemembered
BY CompactRemembers DEF WorkIsRemembered

\* No compaction comes between a call and its result.
LEMMA CompactKeepsPairs ==
  ASSUME TurnTyped, UngatedArePaired, pc = "reason",
         NEW i \in DOMAIN History, History[i].call \notin Gated
  PROVE  /\ IsCall(History[i]) => AnsweredNext(History, i)
         /\ History[i].role = "tool" => CalledBefore(History, i)
<1> DEFINE n == Len(messages)
           Paired(history, k) ==
             /\ IsCall(history[k]) => AnsweredNext(history, k)
             /\ history[k].role = "tool" => CalledBefore(history, k)
<1>1. messages \in Seq(HistoryMessages) /\ n \in Nat /\ DOMAIN messages = 1..n
  BY DEF TurnTyped
<1>2. \A k \in 1..n : messages[k].call \notin Gated => Paired(messages, k)
  BY <1>1 DEF UngatedArePaired, Waiting
<1>3. CASE Shortened(messages, History)
  <2>1. /\ DOMAIN History = 1..n
        /\ \A k \in 1..n : /\ History[k].role = messages[k].role
                           /\ History[k].call = messages[k].call
    BY <1>1, <1>3 DEF Shortened
  <2>2. i \in 1..n /\ messages[i].call \notin Gated
    BY <2>1
  <2>3. IsCall(History[i]) => AnsweredNext(History, i)
    <3>1. SUFFICES ASSUME IsCall(History[i]) PROVE AnsweredNext(History, i)
      OBVIOUS
    <3>2. AnsweredNext(messages, i)
      BY <1>2, <2>1, <2>2, <3>1 DEF IsCall
    <3>3. i + 1 \in 1..n
      BY <1>1, <2>2, <3>2 DEF AnsweredNext
    <3>4. i < Len(History)
      BY <1>1, <2>1, <2>2, <3>3 DEF Shortened
    <3>5. QED
      BY <2>1, <2>2, <3>2, <3>3, <3>4 DEF AnsweredNext
  <2>4. History[i].role = "tool" => CalledBefore(History, i)
    <3>1. SUFFICES ASSUME History[i].role = "tool" PROVE CalledBefore(History, i)
      OBVIOUS
    <3>2. CalledBefore(messages, i)
      BY <1>2, <2>1, <2>2, <3>1
    <3>3. i - 1 \in 1..n
      BY <1>1, <2>2, <3>2 DEF CalledBefore
    <3>4. QED
      BY <2>1, <2>2, <3>2, <3>3 DEF CalledBefore, IsCall
  <2>5. QED
    BY <2>3, <2>4
<1>4. ASSUME NEW g \in Int, NEW line,
             StandsFor(line, messages, End(messages, KeepHead), End(messages, g)),
             History = Summed(messages, End(messages, KeepHead), End(messages, g), line)
      PROVE  Paired(History, i)
  <2> DEFINE from == End(messages, KeepHead)
             to == End(messages, g)
  <2>1. KeepHead \in Int
    BY CompactionConstants
  <2>2. from \in 0..n /\ to \in 0..n
    BY <1>1, <2>1, EndParts
  <2>3. /\ DOMAIN History = 1..Len(History)
        /\ Len(History) = from + 1 + n - to
        /\ \A k \in 1..from : History[k] = messages[k]
        /\ History[from + 1] = line
        /\ \A k \in (to + 1)..n : History[k - to + from + 1] = messages[k]
    <3> HIDE DEF from, to
    <3>1. History = Summed(messages, from, to, line)
      BY <1>4 DEF from, to
    <3>2. messages \in Seq(HistoryMessages)
      BY <1>1
    <3>3. from \in 0..Len(messages) /\ to \in 0..Len(messages)
      BY <2>2
    <3>4. SummedShape(History, messages, from, to, line)
      BY <3>1, <3>2, <3>3, SummedParts
    <3>5. QED
      BY <3>4 DEF SummedShape
  <2>4. \A k \in 1..n : k + 1 \in 1..n /\ messages[k].role = "assistant"
                          /\ messages[k + 1].role = "tool" =>
          (k <= from <=> k + 1 <= from) /\ (k <= to <=> k + 1 <= to)
    BY <1>1, <2>1, PairsAreNotCut
  <2>5. ~IsCall(line) /\ line.role # "tool"
    BY <1>4 DEF StandsFor, IsCall
  <2> HIDE DEF from, to
  <2>6. CASE i <= from
    <3>1. i \in 1..n /\ History[i] = messages[i] /\ i < Len(History)
      BY <1>1, <2>2, <2>3, <2>6
    <3>2. ASSUME IsCall(History[i]) PROVE AnsweredNext(History, i)
      <4>1. AnsweredNext(messages, i)
        BY <1>2, <3>1, <3>2
      <4>2. i + 1 \in 1..n /\ i + 1 <= from
        BY <1>1, <2>4, <2>6, <3>1, <3>2, <4>1 DEF AnsweredNext, IsCall
      <4>3. History[i + 1] = messages[i + 1]
        BY <2>2, <2>3, <4>2
      <4>4. QED
        BY <3>1, <4>1, <4>3 DEF AnsweredNext
    <3>3. ASSUME History[i].role = "tool" PROVE CalledBefore(History, i)
      <4>1. CalledBefore(messages, i)
        BY <1>2, <3>1, <3>3
      <4>2. History[i - 1] = messages[i - 1]
        <5>1. i > 1
          BY <4>1 DEF CalledBefore
        <5>2. i - 1 \in 1..from
          BY <1>1, <2>2, <2>6, <3>1, <5>1
        <5>3. QED
          BY <2>3, <5>2
      <4>3. QED
        BY <3>1, <4>1, <4>2 DEF CalledBefore
    <3>4. QED
      BY <3>2, <3>3
  <2>7. CASE i = from + 1
    BY <2>3, <2>5, <2>7
  <2>8. CASE i > from + 1
    <3>1. /\ n \in Nat /\ from \in Nat /\ to \in Nat /\ to <= n /\ i \in Nat
          /\ Len(History) = from + 1 + n - to /\ i <= from + 1 + n - to
      BY <1>1, <2>2, <2>3
    <3> HIDE DEF n
    <3>2. i - from - 1 + to \in 1..n /\ i - from - 1 + to > to
          /\ (i - from - 1 + to) - to + from + 1 = i
      BY <2>8, <3>1
    <3>3. PICK k \in 1..n : k > to /\ k - to + from + 1 = i
      BY <3>2
    <3>4. k \in (to + 1)..n /\ History[i] = messages[k]
      BY <2>3, <3>1, <3>3
    <3>5. ASSUME IsCall(History[i]) PROVE AnsweredNext(History, i)
      <4>1. AnsweredNext(messages, k)
        BY <1>2, <3>4, <3>3, <3>5
      <4>2. k < n
        BY <4>1 DEF AnsweredNext, n
      <4>3. k + 1 \in (to + 1)..n /\ (k + 1) - to + from + 1 = i + 1
        BY <3>1, <3>3, <4>2
      <4>4. History[i + 1] = messages[k + 1]
        BY <2>3, <4>3
      <4>5. i < Len(History)
        BY <3>1, <3>3, <4>2
      <4>6. QED
        BY <3>4, <4>1, <4>4, <4>5 DEF AnsweredNext
    <3>6. ASSUME History[i].role = "tool" PROVE CalledBefore(History, i)
      <4>1. CalledBefore(messages, k) /\ messages[k].role = "tool"
        BY <1>2, <3>3, <3>4, <3>6
      <4>2. k > 1 /\ messages[k - 1].role = "assistant"
        BY <4>1 DEF CalledBefore, IsCall
      <4>3. k - 1 \in 1..n /\ (k - 1) + 1 = k
        <5>1. k \in Nat /\ k <= n /\ k > 1 /\ n \in Nat
          BY <3>1, <3>3, <4>2
        <5>2. QED
          BY <5>1
      <4>4. k - 1 <= to <=> k <= to
        BY <2>4, <3>3, <4>1, <4>2, <4>3
      <4>5. k - 1 \in (to + 1)..n /\ (k - 1) - to + from + 1 = i - 1
        BY <3>1, <3>3, <4>3, <4>4
      <4>6. History[i - 1] = messages[k - 1]
        BY <2>3, <4>5
      <4>7. i > 1
        BY <2>8, <3>1
      <4>8. QED
        BY <3>4, <4>1, <4>6, <4>7 DEF CalledBefore
    <3>7. QED
      BY <3>5, <3>6
  <2>9. i \in Int /\ from \in Int
    BY <2>2, <2>3
  <2>10. QED
    BY <2>6, <2>7, <2>8, <2>9
<1>5. QED
  BY <1>1, <1>3, <1>4, CompactParts DEF History

-----------------------------------------------------------------------------
(* Prompt: the steps of a turn.                                            *)

Grounded == TurnTyped /\ UngatedArePaired /\ ChosenIsLast /\ Seen /\ OnlyListedIsTouched

\* A history with so many more messages.
Longer(more) ==
  /\ messages' \in Seq(HistoryMessages) /\ Len(messages') = Len(messages) + more
  /\ \A i \in 1..Len(messages) : messages'[i] = messages[i]

\* A history and what is added to it, place by place.
AddedShape(h, a, n, f, S) ==
  /\ h \in Seq(S) /\ Len(h) = Len(a) + n
  /\ \A i \in 1..Len(a) : h[i] = a[i]
  /\ \A i \in 1..n : h[Len(a) + i] = f[i]

\* What is appended to a history stands behind it.
LEMMA AddedParts ==
  ASSUME NEW S, NEW a \in Seq(S), NEW n \in Nat, NEW f \in [1..n -> S]
  PROVE  AddedShape(a \o f, a, n, f, S)
<1>1. f \in Seq(S) /\ Len(f) = n
  OBVIOUS
<1>2. QED
  BY <1>1 DEF AddedShape

\* What Adds adds, message by message.
LEMMA AddsParts ==
  ASSUME TurnTyped, NEW new \in Seq(Roles \X (Verbs \cup {NoVerb}) \X Nat), Adds(new)
  PROVE  /\ Longer(Len(new))
         /\ \A i \in 1..Len(new) : /\ messages'[Len(messages) + i].role = new[i][1]
                                   /\ messages'[Len(messages) + i].call = new[i][2]
<1> DEFINE message(i) == Message(new[i][1], new[i][2], new[i][3], Len(messages) + i)
           added == [i \in DOMAIN new |-> message(i)]
<1>1. messages \in Seq(HistoryMessages)
  BY DEF TurnTyped
<1>2. ASSUME NEW i \in DOMAIN new
      PROVE  /\ message(i) \in HistoryMessages
             /\ message(i).role = new[i][1] /\ message(i).call = new[i][2]
  <2>1. new[i] \in Roles \X (Verbs \cup {NoVerb}) \X Nat /\ Len(messages) + i \in Nat
    BY <1>1
  <2>2. /\ new[i][1] \in Roles /\ new[i][2] \in Verbs \cup {NoVerb} /\ new[i][3] \in Nat
    BY <2>1
  <2>3. QED
    BY <2>1, <2>2 DEF Message, HistoryMessages
<1> HIDE DEF message
<1>3. Len(new) \in Nat /\ DOMAIN new = 1..Len(new)
  OBVIOUS
<1>4. added \in [1..Len(new) -> HistoryMessages] /\ messages' = messages \o added
  BY <1>2, <1>3 DEF Adds, message
<1>5. \A i \in 1..Len(new) : added[i] = message(i)
  BY <1>3
<1> HIDE DEF added
<1>6. /\ messages' \in Seq(HistoryMessages) /\ Len(messages') = Len(messages) + Len(new)
      /\ \A i \in 1..Len(messages) : messages'[i] = messages[i]
      /\ \A i \in 1..Len(new) : messages'[Len(messages) + i] = added[i]
  <2>1. Len(new) \in Nat /\ added \in [1..Len(new) -> HistoryMessages]
    BY <1>3, <1>4
  <2>2. AddedShape(messages', messages, Len(new), added, HistoryMessages)
    BY <1>1, <1>4, <2>1, AddedParts
  <2>3. QED
    BY <2>2 DEF AddedShape
<1>7. Longer(Len(new))
  BY <1>6 DEF Longer
<1>8. ASSUME NEW i \in 1..Len(new)
      PROVE  /\ messages'[Len(messages) + i].role = new[i][1]
             /\ messages'[Len(messages) + i].call = new[i][2]
  <2>1. messages'[Len(messages) + i] = message(i)
    BY <1>5, <1>6
  <2>2. QED
    BY <1>2, <1>3, <2>1
<1>9. QED
  BY <1>7, <1>8

\* What was answered stays so, whatever is added.
LEMMA OldStayPaired ==
  ASSUME TurnTyped, UngatedArePaired, NEW more \in Nat, Longer(more),
         NEW i \in 1..Len(messages), messages'[i].call \notin Gated
  PROVE  /\ IsCall(messages'[i]) /\ ~Waiting(i) => AnsweredNext(messages', i)
         /\ messages'[i].role = "tool" => CalledBefore(messages', i)
<1> DEFINE n == Len(messages)
<1>1. /\ n \in Nat /\ DOMAIN messages = 1..n /\ Len(messages') = n + more
      /\ \A k \in 1..n : messages'[k] = messages[k]
  BY DEF TurnTyped, Longer
<1>2. /\ IsCall(messages[i]) /\ ~Waiting(i) => AnsweredNext(messages, i)
      /\ messages[i].role = "tool" => CalledBefore(messages, i)
  BY <1>1 DEF UngatedArePaired
<1>3. AnsweredNext(messages, i) => AnsweredNext(messages', i)
  <2>1. SUFFICES ASSUME AnsweredNext(messages, i) PROVE AnsweredNext(messages', i)
    OBVIOUS
  <2>2. i < n /\ i + 1 \in 1..n
    BY <1>1, <2>1 DEF AnsweredNext
  <2>3. i < Len(messages')
    BY <1>1, <2>2
  <2>4. QED
    BY <1>1, <2>1, <2>2, <2>3 DEF AnsweredNext
<1>4. CalledBefore(messages, i) => CalledBefore(messages', i)
  <2>1. SUFFICES ASSUME CalledBefore(messages, i) PROVE CalledBefore(messages', i)
    OBVIOUS
  <2>2. i - 1 \in 1..n
    BY <1>1, <2>1 DEF CalledBefore
  <2>3. QED
    BY <1>1, <2>1, <2>2 DEF CalledBefore
<1>5. QED
  BY <1>1, <1>2, <1>3, <1>4

\* A step that leaves the view alone shows nothing new to the next choice.
LEMMA ViewStays ==
  ASSUME Seen, OnlyListedIsTouched, UNCHANGED view,
         pc' \in {"reason", "gate"} => pc \in {"reason", "gate"}
  PROVE  Seen' /\ OnlyListedIsTouched'
BY DEF Seen, OnlyListedIsTouched, Indexes, view

\* A step that adds nothing leaves nobody unanswered.
LEMMA QuietStaysPaired ==
  ASSUME TurnTyped, UngatedArePaired, UNCHANGED <<messages, choice>>,
         pc = "done" => pc' = "done", pc = "act" => pc' = "done"
  PROVE  UngatedArePaired'
BY DEF TurnTyped, UngatedArePaired, Waiting

\* What a user is quoted with, or prose, needs no answer.
LEMMA ProseStaysPaired ==
  ASSUME TurnTyped, UngatedArePaired, pc \notin {"act", "done"},
         NEW new \in Seq(Roles \X (Verbs \cup {NoVerb}) \X Nat), Adds(new),
         \A i \in 1..Len(new) : new[i][1] # "tool" /\ new[i][2] = NoVerb
  PROVE  UngatedArePaired'
<1> DEFINE n == Len(messages)
<1>1. n \in Nat /\ Len(new) \in Nat /\ Longer(Len(new))
  BY AddsParts DEF TurnTyped
<1>2. DOMAIN messages' = 1..(n + Len(new))
  BY <1>1 DEF Longer
<1>3. ASSUME NEW i \in DOMAIN messages', messages'[i].call \notin Gated
      PROVE  /\ IsCall(messages'[i]) => AnsweredNext(messages', i)
             /\ messages'[i].role = "tool" => CalledBefore(messages', i)
  <2>1. CASE i <= n
    <3>1. i \in 1..Len(messages) /\ ~Waiting(i)
      BY <1>1, <1>2, <2>1 DEF Waiting
    <3>2. QED
      BY <1>1, <1>3, <3>1, OldStayPaired
  <2>2. CASE ~(i <= n)
    <3>1. i - n \in 1..Len(new) /\ n + (i - n) = i
      BY <1>1, <1>2, <2>2
    <3>2. /\ messages'[n + (i - n)].role = new[i - n][1]
          /\ messages'[n + (i - n)].call = new[i - n][2]
      BY <3>1, AddsParts
    <3>3. messages'[i].role # "tool" /\ messages'[i].call = NoVerb
      BY <3>1, <3>2
    <3>4. QED
      BY <3>3 DEF IsCall
  <2>3. QED
    BY <2>1, <2>2
<1>4. QED
  BY <1>3 DEF UngatedArePaired

Notes == Roles \X (Verbs \cup {NoVerb}) \X Nat

\* A list of one message is one message.
LEMMA NoteParts ==
  ASSUME NEW role \in Roles, NEW verb \in Verbs \cup {NoVerb}, NEW size \in Nat
  PROVE  /\ <<<<role, verb, size>>>> \in Seq(Notes) /\ Len(<<<<role, verb, size>>>>) = 1
         /\ <<<<role, verb, size>>>>[1] = <<role, verb, size>>
<1>1. <<role, verb, size>> \in Notes
  BY DEF Notes
<1>2. QED
  BY <1>1

\* One message more.
LEMMA OneMore ==
  ASSUME TurnTyped, NEW role \in Roles, NEW verb \in Verbs \cup {NoVerb}, NEW size \in Nat,
         Adds(<<<<role, verb, size>>>>)
  PROVE  /\ Longer(1) /\ DOMAIN messages' = 1..(Len(messages) + 1) /\ Len(messages) \in Nat
         /\ messages'[Len(messages) + 1].role = role
         /\ messages'[Len(messages) + 1].call = verb
<1> DEFINE new == <<<<role, verb, size>>>>
<1>1. new \in Seq(Notes) /\ Len(new) = 1 /\ new[1] = <<role, verb, size>>
  BY NoteParts
<1> HIDE DEF new
<1>2. /\ Longer(Len(new))
      /\ \A i \in 1..Len(new) : /\ messages'[Len(messages) + i].role = new[i][1]
                                /\ messages'[Len(messages) + i].call = new[i][2]
  BY <1>1, AddsParts DEF new, Notes
<1>3. Longer(1) /\ messages'[Len(messages) + 1].role = role
                /\ messages'[Len(messages) + 1].call = verb
  BY <1>1, <1>2
<1>4. Len(messages) \in Nat
  BY DEF TurnTyped
<1>5. QED
  BY <1>3, <1>4 DEF Longer

\* One more message of the user's.
LEMMA UserStaysPaired ==
  ASSUME TurnTyped, UngatedArePaired, pc \notin {"act", "done"},
         Adds(<<<<"user", NoVerb, 1>>>>)
  PROVE  messages' \in Seq(HistoryMessages) /\ UngatedArePaired'
<1> DEFINE new == <<<<"user", NoVerb, 1>>>>
<1>1. new \in Seq(Notes) /\ Len(new) = 1 /\ new[1] = <<"user", NoVerb, 1>>
  BY NoteParts DEF Roles
<1>2. Adds(new)
  OBVIOUS
<1> HIDE DEF new
<1>3. \A i \in 1..Len(new) : new[i][1] # "tool" /\ new[i][2] = NoVerb
  BY <1>1
<1>4. UngatedArePaired'
  BY <1>1, <1>2, <1>3, ProseStaysPaired DEF Notes
<1>5. Longer(Len(new))
  BY <1>1, <1>2, AddsParts DEF Notes
<1>6. QED
  BY <1>4, <1>5 DEF Longer

\* A call that needs no card is carried out next.
LEMMA ChoosingStaysPaired ==
  ASSUME Grounded, NEW verb \in Verbs, NEW index \in Nat, Chooses(verb, index)
  PROVE  TurnTyped' /\ UngatedArePaired' /\ ChosenIsLast'
<1> DEFINE n == Len(messages)
<1>1. /\ Longer(1) /\ DOMAIN messages' = 1..(n + 1) /\ n \in Nat
      /\ messages'[n + 1].role = "assistant" /\ messages'[n + 1].call = verb
  BY OneMore DEF Grounded, Chooses, Roles
<1>2. /\ messages' \in Seq(HistoryMessages) /\ Len(messages') = n + 1
      /\ pc = "reason" /\ choice' = [verb |-> verb, index |-> index]
      /\ pc' = IF verb \in Gated THEN "gate" ELSE "act"
  BY <1>1 DEF Chooses, Longer
<1>3. TurnTyped'
  BY <1>2 DEF TurnTyped
<1>4. IsCall(messages'[n + 1])
  BY <1>1 DEF IsCall, Verbs, NoVerb
<1>5. ChosenIsLast'
  BY <1>1, <1>2, <1>4 DEF ChosenIsLast
<1>6. ASSUME NEW i \in DOMAIN messages', messages'[i].call \notin Gated
      PROVE  /\ IsCall(messages'[i]) => AnsweredNext(messages', i) \/ Waiting(i)'
             /\ messages'[i].role = "tool" => CalledBefore(messages', i)
  <2>1. CASE i = n + 1
    BY <1>1, <1>2, <1>6, <2>1 DEF Waiting
  <2>2. CASE i # n + 1
    <3>1. i \in 1..n /\ ~Waiting(i)
      BY <1>1, <1>2, <2>2 DEF Waiting
    <3>2. QED
      BY <1>1, <1>6, <3>1, OldStayPaired DEF Grounded
  <2>3. QED
    BY <2>1, <2>2
<1>7. QED
  BY <1>3, <1>5, <1>6 DEF UngatedArePaired

\* An answer comes right after the call it answers.
LEMMA ReplyStaysPaired ==
  ASSUME Grounded, pc = "act", choice.verb \in Verbs, NEW size \in Nat, Replies(size),
         UNCHANGED choice, pc' \in {"observe", "remedy", "done"}
  PROVE  TurnTyped' /\ UngatedArePaired' /\ ChosenIsLast'
<1> DEFINE n == Len(messages)
<1>1. /\ Longer(1) /\ DOMAIN messages' = 1..(n + 1) /\ n \in Nat
      /\ messages'[n + 1].role = "tool" /\ messages'[n + 1].call = choice.verb
  BY OneMore DEF Grounded, Replies, Roles
<1>2. /\ messages' \in Seq(HistoryMessages) /\ Len(messages') = n + 1
      /\ \A i \in 1..n : messages'[i] = messages[i]
  BY <1>1 DEF Longer
<1>3. TurnTyped' /\ ChosenIsLast'
  BY <1>2 DEF TurnTyped, ChosenIsLast, Grounded
<1>4. ASSUME NEW i \in DOMAIN messages', messages'[i].call \notin Gated
      PROVE  /\ IsCall(messages'[i]) => AnsweredNext(messages', i)
             /\ messages'[i].role = "tool" => CalledBefore(messages', i)
  <2>1. CASE i = n + 1
    <3>1. n > 0 /\ IsCall(messages[n]) /\ messages[n].call = choice.verb
      BY <1>1, <1>4, <2>1 DEF Grounded, ChosenIsLast
    <3>2. messages'[n] = messages[n]
      BY <1>1, <1>2, <3>1
    <3>3. CalledBefore(messages', i)
      BY <1>1, <2>1, <3>1, <3>2 DEF CalledBefore
    <3>4. ~IsCall(messages'[i])
      BY <1>1, <2>1 DEF IsCall
    <3>5. QED
      BY <3>3, <3>4
  <2>2. CASE i # n + 1 /\ Waiting(i)
    <3>1. i = n /\ messages[i].call = choice.verb
      BY <2>2 DEF Waiting
    <3>2. i \in 1..n
      BY <1>1, <2>2
    <3>3. messages'[i].call = choice.verb
      BY <1>2, <3>1, <3>2
    <3>4. AnsweredNext(messages', i)
      BY <1>1, <1>2, <3>1, <3>3 DEF AnsweredNext
    <3>5. messages'[i].role = "tool" => CalledBefore(messages', i)
      BY <1>1, <1>4, <3>2, OldStayPaired DEF Grounded
    <3>6. QED
      BY <3>4, <3>5
  <2>3. CASE i # n + 1 /\ ~Waiting(i)
    <3>1. i \in 1..n
      BY <1>1, <2>3
    <3>2. QED
      BY <1>1, <1>4, <2>3, <3>1, OldStayPaired DEF Grounded
  <2>4. QED
    BY <2>1, <2>2, <2>3
<1>5. QED
  BY <1>3, <1>4 DEF UngatedArePaired

\* A step that only moves on.
LEMMA MovingOnIsGrounded ==
  ASSUME Grounded, UNCHANGED <<view, messages, control>>,
         \/ pc = "reason" /\ pc' = "remedy"
         \/ pc # "done" /\ pc' = "done"
  PROVE  Grounded'
<1>1. TurnTyped' /\ ChosenIsLast'
  BY DEF Grounded, TurnTyped, ChosenIsLast, control
<1>2. UngatedArePaired'
  BY QuietStaysPaired DEF Grounded, control
<1>3. Seen' /\ OnlyListedIsTouched'
  BY ViewStays DEF Grounded
<1>4. QED
  BY <1>1, <1>2, <1>3 DEF Grounded

\* A run starts with no page, no history and no choice.
LEMMA GroundedInit == PromptInit => Grounded
<1> SUFFICES ASSUME PromptInit PROVE Grounded
  OBVIOUS
<1>1. TurnTyped /\ UngatedArePaired /\ ChosenIsLast /\ Seen
  BY DEF PromptInit, TurnTyped, UngatedArePaired, ChosenIsLast, Seen, NoChoice
<1>2. OnlyListedIsTouched
  <2>1. Indexes = {} /\ geometry = <<>> /\ observation.field = 0
    BY DEF PromptInit, NothingSeen, Indexes
  <2>2. <<>> = [i \in {} |-> observation.list[i].id]
    OBVIOUS
  <2>3. QED
    BY <2>1, <2>2 DEF OnlyListedIsTouched
<1>3. QED
  BY <1>1, <1>2 DEF Grounded

\* Every handler of a turn keeps the invariant.
LEMMA GroundedStep == Grounded /\ [PromptNext]_promptVars => Grounded'
<1> SUFFICES ASSUME Grounded, [PromptNext]_promptVars PROVE Grounded'
  OBVIOUS
<1> USE DEF Grounded
<1>1. ASSUME NEW n \in Nat, ObservesAny(n) PROVE Grounded'
  <2>1. PICK kinds \in [1..n -> ElementKinds], parents \in [1..n -> 0..n] :
          /\ \A i \in 1..n : parents[i] < i
          /\ \E field :
               Observes([els |-> {[kinds[i] EXCEPT !.id = i, !.parent = parents[i]] :
                                    i \in 1..n},
                         field |-> field])
    BY <1>1 DEF ObservesAny
  <2> DEFINE els == {[kinds[i] EXCEPT !.id = i, !.parent = parents[i]] : i \in 1..n}
  <2>2. PICK field : Observes([els |-> els, field |-> field])
    BY <2>1
  <2> DEFINE p == [els |-> els, field |-> field]
  <2>3. IsPage(els)
    BY <2>1, PagesAreMade
  <2> HIDE DEF els
  <2>4. p.els = els /\ Observes(p)
    BY <2>2
  <2> HIDE DEF p
  <2>5. Seen' /\ OnlyListedIsTouched'
    BY <2>3, <2>4, LooksAreSeen
  <2>6. UNCHANGED <<messages, control>> /\ pc = "observe" /\ pc' = "reason"
    BY <1>1, <2>4 DEF ObservesAny, Observes
  <2>7. TurnTyped' /\ ChosenIsLast' /\ UngatedArePaired'
    BY <2>6, QuietStaysPaired DEF TurnTyped, ChosenIsLast, control
  <2>8. QED
    BY <2>5, <2>7
<1>2. ASSUME Stops \/ Expires \/ LosesSurface \/ GivesUp PROVE Grounded'
  BY <1>2, MovingOnIsGrounded DEF Stops, Expires, LosesSurface, GivesUp
<1>3. CASE Nudged
  <2> DEFINE new == <<<<"assistant", NoVerb, 2>>, <<"user", NoVerb, 1>>>>
  <2>1. new \in Seq(Notes) /\ Len(new) = 2
        /\ new[1] = <<"assistant", NoVerb, 2>> /\ new[2] = <<"user", NoVerb, 1>>
    <3>1. <<"assistant", NoVerb, 2>> \in Notes /\ <<"user", NoVerb, 1>> \in Notes
      BY DEF Notes, Roles
    <3>2. QED
      BY <3>1
  <2>2. Adds(new) /\ pc = "reason" /\ pc' = pc /\ choice' = NoChoice /\ UNCHANGED view
    BY <1>3 DEF Nudged
  <2> HIDE DEF new
  <2>3. \A i \in 1..Len(new) : new[i][1] # "tool" /\ new[i][2] = NoVerb
    BY <2>1
  <2>4. UngatedArePaired'
    BY <2>1, <2>2, <2>3, ProseStaysPaired DEF Notes
  <2>5. messages' \in Seq(HistoryMessages)
    BY <2>1, <2>2, AddsParts DEF Notes, Longer
  <2>6. TurnTyped' /\ ChosenIsLast'
    BY <2>2, <2>5 DEF TurnTyped, ChosenIsLast, NoChoice
  <2>7. Seen' /\ OnlyListedIsTouched'
    BY <2>2, ViewStays
  <2>8. QED
    BY <2>4, <2>6, <2>7
<1>4. ASSUME NEW verb \in Verbs, NEW index \in Nat, Chooses(verb, index) PROVE Grounded'
  <2>1. TurnTyped' /\ UngatedArePaired' /\ ChosenIsLast'
    BY <1>4, ChoosingStaysPaired
  <2>2. Seen' /\ OnlyListedIsTouched'
    BY <1>4, ViewStays DEF Chooses
  <2>3. QED
    BY <2>1, <2>2
<1>5. ASSUME Approves \/ SendsBack \/ Remedied PROVE Grounded'
  <2>1. /\ pc \notin {"act", "done"} /\ Adds(<<<<"user", NoVerb, 1>>>>) /\ UNCHANGED view
        /\ pc' \in {"act", "reason", "observe"} /\ (pc' = "reason" => pc = "gate")
        /\ choice' \in {choice, NoChoice}
        /\ pc' = "act" => pc = "gate" /\ choice' = choice
    BY <1>5 DEF Approves, SendsBack, Remedied, control
  <2>2. messages' \in Seq(HistoryMessages) /\ UngatedArePaired'
    BY <2>1, UserStaysPaired
  <2>3. TurnTyped' /\ ChosenIsLast'
    BY <2>1, <2>2 DEF TurnTyped, ChosenIsLast, NoChoice
  <2>4. Seen' /\ OnlyListedIsTouched'
    BY <2>1, ViewStays
  <2>5. QED
    BY <2>2, <2>3, <2>4
<1>6. ASSUME Clicks \/ Refuses \/ Recalls \/ Sends \/ Completes PROVE Grounded'
  <2>1. /\ pc = "act" /\ choice.verb \in Verbs /\ UNCHANGED <<view, choice>>
        /\ pc' \in {"observe", "remedy", "done"} /\ \E size \in Nat : Replies(size)
    BY <1>6 DEF Clicks, Refuses, Recalls, Sends, Completes, Verbs, control
  <2>2. TurnTyped' /\ UngatedArePaired' /\ ChosenIsLast'
    BY <2>1, ReplyStaysPaired
  <2>3. Seen' /\ OnlyListedIsTouched'
    BY <2>1, ViewStays
  <2>4. QED
    BY <2>2, <2>3
<1>7. CASE UNCHANGED promptVars
  <2>1. UNCHANGED <<pc, view, messages, control>>
    BY <1>7 DEF promptVars
  <2>2. TurnTyped' /\ UngatedArePaired' /\ ChosenIsLast'
    BY <2>1 DEF TurnTyped, UngatedArePaired, ChosenIsLast, Waiting, control
  <2>3. Seen' /\ OnlyListedIsTouched'
    BY <2>1, ViewStays
  <2>4. QED
    BY <2>2, <2>3
<1>8. QED
  <2>1. CASE \E n \in IF messages = <<>> THEN 0..MaxElements ELSE {0} : ObservesAny(n)
    <3>1. 0..MaxElements \subseteq Nat
      BY PromptConstants
    <3>2. QED
      BY <1>1, <2>1, <3>1
  <2>2. CASE \E i \in 1..MaxIndex : Chooses("Click", i)
    BY <1>4, <2>2 DEF Verbs
  <2>3. CASE \E verb \in Verbs \ {"Click"} : Chooses(verb, 0)
    BY <1>4, <2>3
  <2>4. QED
    BY <1>2, <1>3, <1>5, <1>6, <1>7, <2>1, <2>2, <2>3 DEF PromptNext

\* The inductive invariant holds in every state a run can reach: what the turn
\* stands on was made from one page, and calls keep their results.
THEOREM GroundedAlways == PromptSpec => []Grounded
BY GroundedInit, GroundedStep, PTL DEF PromptSpec

\* What a hand can reach is numbered, with every word of it, and the model is
\* told how many elements it is not shown (ObservationFunnel.run).
THEOREM NothingIsEverLost == PromptSpec => []NothingIsLostSilently
<1>1. Grounded => NothingIsLostSilently
  BY SeenNothingLost DEF Grounded
<1>2. QED
  BY <1>1, GroundedAlways, PTL

\* The rows behind an open dialog never cost the dialog an element of the list
\* (ReadingOrderFormatter.apply).
THEOREM DialogAlwaysComesFirst == PromptSpec => []DialogComesFirst
<1>1. Grounded => DialogComesFirst
  BY SeenDialogFirst DEF Grounded
<1>2. QED
  BY <1>1, GroundedAlways, PTL

\* A person named anywhere on the page, pruned or not, is a token wherever the
\* list names them (_register_people before _tokenize).
THEOREM NamesStayTokens == PromptSpec => []NamesAreTokens
<1>1. Grounded => NamesAreTokens
  BY SeenNamesAreTokens DEF Grounded
<1>2. QED
  BY <1>1, GroundedAlways, PTL

\* In every state of a run the numbers that can be dispatched are those of the
\* list, each for the element it was listed for (geometry, compose fields).
THEOREM OnlyListedIsEverTouched == PromptSpec => []OnlyListedIsTouched
<1>1. Grounded => OnlyListedIsTouched
  BY DEF Grounded
<1>2. QED
  BY <1>1, GroundedAlways, PTL

\* However long the run and whichever layer compact stops at, the prompt keeps
\* every call or names it in the line that stands for its turn.
THEOREM WorkStaysRemembered == PromptSpec => []WorkIsRemembered
<1>1. Grounded => WorkIsRemembered
  BY WorkIsRememberedHere DEF Grounded
<1>2. QED
  BY <1>1, GroundedAlways, PTL

\* However long the run and wherever compact cuts, a call no card is shown for
\* is followed by its result, and such a result by nothing but its call.
THEOREM UngatedCallsStayAnswered == PromptSpec => []UngatedCallsAreAnswered
<1>1. Grounded => UngatedCallsAreAnswered
  BY CompactKeepsPairs DEF Grounded, UngatedCallsAreAnswered
<1>2. QED
  BY <1>1, GroundedAlways, PTL

=============================================================================
