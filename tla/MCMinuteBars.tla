---------------------------- MODULE MCMinuteBars ----------------------------
(* Small instances of MinuteBars for TLC. *)
EXTENDS MinuteBars
=============================================================================
