--------------------------- MODULE MCFillJournal ---------------------------
(* The instance of FillJournal for TLC.                                    *)
EXTENDS FillJournal
=============================================================================
