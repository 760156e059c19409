------------------------------- MODULE MCPrompt -------------------------------
(* Small instances of Prompt for TLC: pages of up to three elements.        *)
EXTENDS Prompt

CONSTANTS a, b

MCWords == {a, b}

Element == [id |-> 0, parent |-> 0, interactive |-> FALSE, person |-> FALSE, text |-> {a},
            rendered |-> TRUE, place |-> "in", pointer |-> "yes",
            box |-> 1, row |-> 0, inside |-> FALSE]

MCKinds ==
  {[Element EXCEPT !.interactive = TRUE, !.text = {a, b}, !.box = 2],   \* a row
   [Element EXCEPT !.interactive = TRUE, !.text = {}],                  \* a box
   [Element EXCEPT !.text = {b}, !.row = 1],                            \* prose
   [Element EXCEPT !.person = TRUE],                                    \* a chip
   [Element EXCEPT !.text = {}],                                        \* a wrapper
   [Element EXCEPT !.box = 2, !.pointer = "untested"],                  \* one with words
   [Element EXCEPT !.interactive = TRUE, !.inside = TRUE, !.row = 1],   \* a field
   [Element EXCEPT !.text = {a, b}, !.inside = TRUE],                   \* the dialog's prose
   [Element EXCEPT !.text = {}, !.pointer = "untested", !.box = 3],     \* a scrim
   [Element EXCEPT !.interactive = TRUE, !.pointer = "no"],             \* a covered row
   [Element EXCEPT !.person = TRUE, !.text = {a, b}, !.rendered = FALSE],
   [Element EXCEPT !.interactive = TRUE, !.place = "above"],
   [Element EXCEPT !.interactive = TRUE, !.place = "below"],
   [Element EXCEPT !.text = {b}, !.place = "aside"]}

=============================================================================
