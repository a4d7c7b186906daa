---------------------------- MODULE MCBuildInputs ----------------------------
(* All targets and generators; three edits, so that a second build may be *)
(* disturbed too.                                                          *)
EXTENDS BuildInputs

MCTargets == {"native", "unknown", "wasm"}
MCGenerators == {"make", "vs", "ninja"}
=============================================================================
