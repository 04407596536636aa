---------------------------- MODULE MCCommunication ----------------------------
EXTENDS Communication, TLC

\* One message, by a participant who may be removed, mentioning another one.
MCSenderOf == [k \in Keys |-> "bob"]
MCMentionsOf == [k \in Keys |-> {"cid"}]

MCSymmetry == Permutations(Handlers)
=============================================================================
