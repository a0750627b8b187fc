--------------------------- MODULE MCTeamReceiver ---------------------------
EXTENDS TeamReceiver, TLC

CONSTANTS m1, m2, s1, s2, h1, h2, r1

\* m2 is the newer message on the topic.
OlderPairs == {<<m1, m2>>} \cap (Msgs \X Msgs)

\* Verbs on m1 overlap while every hook and retractor runs; or a verb on m1 and
\* one on m2, which supersedes it, with one hook.
TwoScenes ==
  {[brings |-> f, runs |-> Hooks \cup Retractors] : f \in [Serves -> {m1}]} \cup
  {[brings |-> f, runs |-> {h}] : f \in {g \in [Serves -> Msgs] : {g[s] : s \in Serves} = {m1, m2}},
                                 h \in Hooks}

Sym == Permutations(Serves) \cup Permutations(Hooks)
=============================================================================
