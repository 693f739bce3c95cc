--------------------------- MODULE MCTlvTemplate ---------------------------
(***************************************************************************)
(* Small instances of the template codec harness.  Each field holds one    *)
(* value or NULL; that is enough to tell a value that came back from one   *)
(* that was lost, and keeps every object of a template in reach.           *)
(***************************************************************************)
EXTENDS TlvTemplate

CONSTANTS I1, I2

MCInts == {1}
MCImps == {I1, I2}
MCStrs == {"uri"}
=============================================================================
