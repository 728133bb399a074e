------------------------ MODULE MCRepositoryMutation ------------------------
EXTENDS RepositoryMutation, TLC

CONSTANTS Old, p1, p2, f1, f2

MCContents == {Absent, Old, p1, p2}
MCPlans == {p1, p2}
MCPaths == {f1, f2}
MCWrites == [p \in MCPlans |-> MCPaths]

\* Files are interchangeable, and so are plans that write the same files.
Symmetry == Permutations(MCPlans) \cup Permutations(MCPaths)
=============================================================================
