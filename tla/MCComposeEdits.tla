--------------------------- MODULE MCComposeEdits ----------------------------
(* Instances of ComposeEdits for TLC.                                       *)
EXTENDS ComposeEdits, TLC

CONSTANTS first, second

MCPeople == {"ann", "bob", "eve"}
MCTask == {"ann"}
MCMailbox == {"eve"}
MCRetargets == {{"bob"}, {"ann", "bob"}, {"name"}}
MCTexts == {first, second}
TextSymmetry == Permutations(MCTexts)

=============================================================================
