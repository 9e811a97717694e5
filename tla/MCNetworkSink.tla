--------------------------- MODULE MCNetworkSink ---------------------------
(***************************************************************************)
(* NetworkSink for TLC.                                                    *)
(***************************************************************************)
EXTENDS NetworkSink
=============================================================================
