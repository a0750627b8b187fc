-------------------------- MODULE MCTeamMessaging --------------------------
EXTENDS TeamMessaging, TLC

CONSTANTS m1, m2, s1, s2, s3, h1, h2, r1, send, pump

\* m2 is the newer message on the topic.
OlderPairs == {<<m1, m2>>} \cap (Msgs \X Msgs)

Sym == Permutations(Serves) \cup Permutations(Hooks)
=============================================================================
