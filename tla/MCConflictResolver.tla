------------------------- MODULE MCConflictResolver -------------------------
\* Lists of up to four assessments of two subjects and two diffs.
EXTENDS ConflictResolver, TLC

Interchangeable == Permutations(Subjects) \cup Permutations(Diffs)
=============================================================================
