---------------------------- MODULE MCLedgerFile ----------------------------
(* The small instances of LedgerFile that TLC checks. *)
EXTENDS LedgerFile
=============================================================================
