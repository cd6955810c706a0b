------------------------------ MODULE MC_Sideload -------------------------------
(* Small instance of Sideload: a request handler and the expiry watchdog.     *)
EXTENDS Sideload

CONSTANTS h1, h2
================================================================================
