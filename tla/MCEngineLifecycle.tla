------------------------- MODULE MCEngineLifecycle -------------------------
(***************************************************************************)
(* Small instances of EngineLifecycle for TLC.                             *)
(***************************************************************************)
EXTENDS EngineLifecycle

AllFour == <<"push", "scheduled", "event", "scrape">>
=============================================================================
