---------------------------- MODULE MCExtension ----------------------------
(***************************************************************************)
(* The extension pipeline over the honest aggregator and calendar of       *)
(* MCSignature.                                                            *)
(***************************************************************************)
EXTENDS MCSignature, Extension
=============================================================================
