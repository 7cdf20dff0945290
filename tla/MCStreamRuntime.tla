--------------------------- MODULE MCStreamRuntime ---------------------------
(* Instances of StreamRuntime for TLC: its constants are numbers.          *)
EXTENDS StreamRuntime
=============================================================================
