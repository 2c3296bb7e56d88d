----------------------------- MODULE MCStartup ------------------------------
(* Small clusters and models for TLC.                                      *)
EXTENDS Startup
=============================================================================
