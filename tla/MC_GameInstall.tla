---------------------------- MODULE MC_GameInstall -----------------------------
(***************************************************************************)
(* Bounds of GameInstall for TLC.                                          *)
(***************************************************************************)
EXTENDS GameInstall

Fresh(g) == row[g] = NoEntry /\ local[g] = 0

\* A fresh device with MaxChange commands to come, or a device in any state with
\* one less.
MCInit == GameInit /\ changes = IF \A g \in Game : Fresh(g) THEN 0 ELSE 1

MCSpec == MCInit /\ [][GameNext]_gvars /\ GameFairness

\* A device with its games installed and ready.
ReadyInit ==
  GameInit /\ changes = 0
  /\ \A g \in Game : row[g] = [status |-> "ready", version |-> 1] /\ local[g] = 1

MCReadySpec == ReadyInit /\ [][GameNext]_gvars /\ GameFairness
================================================================================
