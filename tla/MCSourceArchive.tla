-------------------------- MODULE MCSourceArchive --------------------------
(***************************************************************************)
(* Two Sources, one of them archived and processed, a page whose content  *)
(* is new and an uploaded file whose content the archived Source has.      *)
(***************************************************************************)
EXTENDS SourceArchive, TLC

CONSTANTS k1, k2
Symmetry == Permutations({k1, k2})

MCPages == {"edited", "mirror"}
MCUrlOf == [edited |-> "u1", mirror |-> None]
MCDigestOf == [edited |-> "d2", mirror |-> "d1"]
=============================================================================
