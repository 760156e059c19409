-------------------------------- MODULE Funnel --------------------------------
(***************************************************************************)
(* What the model is shown of a page: the stages of observation/funnel/,   *)
(* from the elements the page script extracted to the numbered list and    *)
(* the map of what may be dispatched.                                      *)
(*                                                                         *)
(* A page is a set of elements; the id of one is its place in the order of *)
(* the document, which is also the order they are painted in.  Geometry is *)
(* kept as far as the stages tell it apart: where the box lies, which      *)
(* boxes cover which, the row band.  A text is its set of words, so a name *)
(* contains another as a superset.                                         *)
(***************************************************************************)
EXTENDS Integers, Sequences, FiniteSets, SequencesExt

CONSTANTS
  Words,            \* the words a page may hold
  TokenBudget,      \* DEFAULT_TOKEN_BUDGET
  OutsideBudget,    \* what a focus box leaves to everything outside it
  BackdropBox       \* BACKDROP_AREA_RATIO: a box that fills the viewport

ASSUME FunnelConstants ==
  /\ TokenBudget \in Nat /\ OutsideBudget \in 0..TokenBudget
  /\ BackdropBox \in Nat
  /\ IsFiniteSet(Words)

Elements ==
  [id : Nat, parent : Nat, interactive : BOOLEAN, person : BOOLEAN,
   text : SUBSET Words, rendered : BOOLEAN,
   place : {"in", "above", "below", "aside"}, pointer : {"yes", "no", "untested"},
   box : Nat, row : Nat, inside : BOOLEAN]

-----------------------------------------------------------------------------
(* visibility: what is not rendered is gone, what is elsewhere is counted. *)

Rendered(els) == {e \in els : e.rendered}
Visible(els) == {e \in Rendered(els) : e.place = "in"}
Above(els) == {e \in Rendered(els) : e.place = "above"}
Below(els) == {e \in Rendered(els) : e.place \in {"below", "aside"}}

-----------------------------------------------------------------------------
(* occlusion: the browser's own verdict, and geometry where it has none.   *)

Backdrop(e) == e.box >= BackdropBox

Covers(c, e) ==
  /\ ~Backdrop(c) /\ e.box <= c.box
  /\ e.parent # c.id /\ c.parent # e.id

Reached(e, painted) ==
  \/ e.pointer = "yes"
  \/ e.pointer = "untested" /\ ~\E c \in painted : Covers(c, e)

\* From the top down: only what was reached itself covers what lies below it.
Unoccluded(els) ==
  IF Cardinality(els) < 2 THEN els
  ELSE CHOOSE top \in SUBSET els :
         top = {e \in els : Reached(e, {c \in top : e.id < c.id})}

-----------------------------------------------------------------------------
(* wrapper_collapse                                                        *)

\* A defect: a wrapper's own words are not looked at.
WrapsBlindly(e, child) == child.box >= e.box

\* The wrapper is no bigger than its child and says nothing the child does not.
Wraps(e, child) == e.text \in {{}, child.text} /\ child.box >= e.box

IsWrapper(e, els) ==
  /\ ~e.interactive
  /\ \E child \in els : {f \in els : f.parent = e.id} = {child} /\ Wraps(e, child)

\* Inert text that the clickable thing around it already reads.
IsRedundantChild(e, els) ==
  /\ ~e.interactive /\ e.text # {}
  /\ \E f \in els : f.id = e.parent /\ f.interactive /\ e.text \subseteq f.text

Collapsed(els) == {e \in els : ~IsWrapper(e, els) /\ ~IsRedundantChild(e, els)}

-----------------------------------------------------------------------------
(* pii_tokenize: people are learnt from every element that was extracted.  *)

Pruned(els) == Collapsed(Unoccluded(Visible(els)))

\* A structured name; the few too short to be told from a word are left out.
NamesIn(els) == {e.text : e \in {f \in els : f.person}} \ {{}}

\* A defect: people are learnt from what is left after the pruning.
LearntLate(els, known) == known \cup NamesIn(Pruned(els))

Learnt(els, known) == known \cup NamesIn(els)

\* The words of a text that belong to a known name it mentions in full.
Mentioned(text, known) == UNION {n \in known : n \subseteq text}

Spoken(text, known) ==
  {<<IF w \in Mentioned(text, known) THEN "token" ELSE "word", w>> : w \in text}

Tokenized(els, known) == {[e EXCEPT !.text = Spoken(@, known)] : e \in els}

-----------------------------------------------------------------------------
(* som: top to bottom, row by row; the number is the place in the order.   *)

ReadsBefore(e, f) == e.row < f.row \/ (e.row = f.row /\ e.id < f.id)

Indexed(els) ==
  LET entries == {e \in els : e.interactive \/ e.text # {}}
      before(e) == {f \in entries : ReadsBefore(f, e)}
  IN  [n \in 1..Cardinality(entries) |->
         CHOOSE e \in entries : Cardinality(before(e)) = n - 1]

-----------------------------------------------------------------------------
(* reading_order: the list that fits the budget.                           *)

\* A defect: the dialog does not outrank what is behind it.
PriorityFlat(e) == (IF e.interactive THEN 2 ELSE 0) + (IF e.row = 0 THEN 1 ELSE 0)

Priority(e) ==
  IF e.inside THEN (IF e.interactive THEN 5 ELSE 4)
  ELSE (IF e.interactive THEN 2 ELSE 0) + (IF e.row = 0 THEN 1 ELSE 0)

\* An entry of the list costs its line and each of its words.
Spent(numbered, listed) ==
  Cardinality(listed) + Cardinality(UNION {{i} \X numbered[i].text : i \in listed})

Outranks(numbered, i, j) ==
  LET p == Priority(numbered[i])
      q == Priority(numbered[j])
  IN  p > q \/ (p = q /\ i < j)

Fits(numbered, focused, i, taken) ==
  LET behind == {j \in taken : ~numbered[j].inside}
  IN  /\ focused /\ ~numbered[i].inside => Spent(numbered, behind \cup {i}) <= OutsideBudget
      /\ Spent(numbered, taken \cup {i}) <= TokenBudget

\* Greedy: what does not fit is passed over, and a cheaper one may still fit.
Kept(numbered, focused) ==
  CHOOSE kept \in SUBSET DOMAIN numbered :
    kept = {i \in DOMAIN numbered :
              Fits(numbered, focused, i, {j \in kept : Outranks(numbered, j, i)})}

-----------------------------------------------------------------------------
(* ObservationFunnel.run                                                   *)

Focused(els) == \E e \in els : e.inside

Numbered(els, known) == Indexed(Tokenized(Pruned(els), known))

Listed(els, numbered) == Kept(numbered, Focused(els))

\* report.reachable_but_unlisted
DroppedCount(els, numbered, listed) ==
  Cardinality(Above(els)) + Cardinality(Below(els)) + Cardinality(DOMAIN numbered \ listed)

\* A defect: what was cut from the list can still be dispatched.
DispatchableUntrimmed(numbered, listed) ==
  [i \in DOMAIN numbered |-> numbered[i].id]

\* The map from number to place, trimmed to what was listed.
Dispatchable(numbered, listed) == [i \in listed |-> numbered[i].id]

\* The number a compose field is reported under, 0 when it is not listed.
FieldIndex(numbered, listed, node) ==
  LET hits == {i \in listed : numbered[i].id = node}
  IN  IF hits = {} THEN 0 ELSE CHOOSE i \in hits : TRUE

=============================================================================
