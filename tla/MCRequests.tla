----------------------------- MODULE MCRequests -----------------------------
(***************************************************************************)
(* The instance of Requests for TLC.  With MaxUint16 = 3 the generated ids *)
(* of successive requests are 0, 0, 1.                                     *)
(***************************************************************************)
EXTENDS Requests

CONSTANTS r1, r2, r3

ThreeCallers == {r1, r2, r3}

\* The application numbers the first request only.
FirstNumbered == [r \in Caller |-> IF r = r1 THEN MaxUint16 ELSE 0]

=============================================================================
