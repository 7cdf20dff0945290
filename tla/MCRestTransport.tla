--------------------------- MODULE MCRestTransport ---------------------------
(* Instances of RestTransport for TLC.  The calls are interchangeable.     *)
EXTENDS RestTransport, TLC

CONSTANTS c1, c2

CallSymmetry == Permutations({c1, c2})
=============================================================================
