------------------------------- MODULE Consent -------------------------------
(* What the approval gate promises, whatever the browser, the model and the *)
(* gate do: an email leaves only with content a person has agreed to since  *)
(* the last one left.                                                       *)
EXTENDS Sequences

CONSTANT Contents

VARIABLES agreed, left

Init == agreed = {} /\ left = <<>>

\* A person approves a card, or writes the words themselves.
Agree ==
  /\ agreed \subseteq agreed' /\ agreed' \subseteq Contents
  /\ UNCHANGED left

\* One agreement, one email.
Leave == \E c \in agreed : left' = Append(left, c) /\ agreed' = {}

Spec == Init /\ [][Agree \/ Leave]_<<agreed, left>>

=============================================================================
