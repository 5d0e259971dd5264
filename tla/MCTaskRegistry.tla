---------------------------- MODULE MCTaskRegistry ----------------------------
EXTENDS TaskRegistry, TLC

\* Sessions, and deduplication keys, are interchangeable.
Symmetry == Permutations(Session) \cup Permutations(Key)
================================================================================
