---------------------------- MODULE MCJsonlSink ----------------------------
(***************************************************************************)
(* JsonlSink for TLC.                                                      *)
(***************************************************************************)
EXTENDS JsonlSink
=============================================================================
