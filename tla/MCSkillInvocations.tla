------------------------- MODULE MCSkillInvocations -------------------------
\* SkillInvocations for TLC: preparations are alike, and so are closes.

EXTENDS SkillInvocations, TLC

Alike == Permutations(Preparers) \cup Permutations(Closers)
=============================================================================
