---------------------------- MODULE MCManagerGraph ----------------------------
(* Small instances of ManagerGraph for TLC.                                  *)
EXTENDS ManagerGraph

CONSTANTS m1, m2, m3

MCMails == {m1, m2, m3}
MCInbox == <<m1, m2>>
MCMatching == {m1, m3}
JustArchive == <<"Archive">>
ArchiveAndMark == <<"Archive", "MarkRead">>

=============================================================================
