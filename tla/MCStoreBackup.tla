--------------------------- MODULE MCStoreBackup ---------------------------
(***************************************************************************)
(* StoreBackup with the worker and a command line, an earlier and a new    *)
(* backup, and two places of assets, of which one is empty at the start.   *)
(***************************************************************************)
EXTENDS StoreBackup, TLC

CONSTANTS a1, a2, b1, b2

MCActors == {a1, a2}
MCBackups == {b1, b2}
MCPaths == <<"asset1", "asset2">>
MCEarlier == {b1}
MCFirst == {"asset1"}
Symmetry == Permutations(MCActors)
=============================================================================
