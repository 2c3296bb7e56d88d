---------------------------- MODULE MCHandshake -----------------------------
(* Small clusters for TLC.                                                 *)
EXTENDS Handshake
=============================================================================
