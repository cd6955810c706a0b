--------------------------- MODULE MC_RemoteSettings ---------------------------
(***************************************************************************)
(* RemoteSettings for TLC; the bounds are in the configurations.           *)
(***************************************************************************)
EXTENDS RemoteSettings
================================================================================
