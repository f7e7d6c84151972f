----------------------------- MODULE MCCaStore -----------------------------
(* The module TLC runs on for CaStore: its constants are model values.     *)
EXTENDS CaStore
=============================================================================
