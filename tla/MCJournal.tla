------------------------------- MODULE MCJournal -------------------------------
(********************************************************************************)
(* Short and long records, and one that exceeds the payload bound.              *)
(********************************************************************************)
EXTENDS JournalFile

MCLength == [short |-> 2, long |-> 3, huge |-> 5]
AllModes == {"ReadOnlyExisting", "OpenOrCreateReadWrite", "CreateTruncating"}
================================================================================
