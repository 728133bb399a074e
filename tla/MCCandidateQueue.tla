-------------------------- MODULE MCCandidateQueue --------------------------
(***************************************************************************)
(* Two candidates whose pages overlap, one queued and one to be            *)
(* discovered, with different titles.                                      *)
(***************************************************************************)
EXTENDS CandidateQueue, TLC

CONSTANTS c1, c2

MCCandidates == {c1, c2}
MCQueued == {c1}
MCUrlOf == [c \in MCCandidates |-> IF c = c1 THEN "u1" ELSE "u2"]
MCPagesOf == [c \in MCCandidates |-> IF c = c1 THEN {"u1", "u2"} ELSE {"u2"}]
MCSlugOf == [c \in MCCandidates |-> IF c = c1 THEN "s1" ELSE "s2"]
=============================================================================
