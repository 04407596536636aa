----------------------------- MODULE MCRecruitment -----------------------------
EXTENDS Recruitment, TLC

\* One person, who types the number with the national or with the country prefix.
MCNormal == [phone \in Phones |-> "98912"]
MCSymmetry == Permutations(Applications) \cup Permutations(Staff)
=============================================================================
