--------------------------- MODULE MCKnowledgeIngest ---------------------------
EXTENDS KnowledgeIngest, TLC
Symmetry == Permutations(Agents)
=============================================================================
