----------------------------- MODULE MCTakeover -----------------------------
EXTENDS Takeover, TLC

CONSTANTS i1, i2, w1, w2, p1, p2, k1, k2

\* One message and a takeover; two messages and no takeover; two takeovers of an
\* agent with an empty queue.
ThreeScenes ==
  {[items |-> {i2}, tokens |-> {k1}], [items |-> Items, tokens |-> {}],
   [items |-> {}, tokens |-> Tokens]}

Sym == Permutations(Wrappers) \cup Permutations(Slots)
=============================================================================
