--------------------------- MODULE MCFccExtension ---------------------------
\* Rules and policies for checking FccExtension.
EXTENDS FccExtension, TLC

CONSTANT r1

MakePolicy(r, threshold, cap, bps, cooldown, expires) ==
  [rule |-> r, threshold |-> threshold, cap |-> cap, bps |-> bps,
   cooldown |-> cooldown, expires |-> expires]

\* Two policies that compete for r1: one with a cooldown, one that pays more.
MCRivals == {MakePolicy(r1, 1, 0, 5, 3, 4), MakePolicy(r1, 1, 2, 10, 0, 2)}

\* A valid policy and five that each break one rule of normalizePolicy.
MCMixed ==
  {MakePolicy(r1, 1, 2, 5, 0, 4),
   MakePolicy(r1, 0, 0, 5, 2, 4), MakePolicy(r1, 1, 0, 0, 2, 4), MakePolicy(r1, 3, 2, 5, 2, 4),
   MakePolicy(r1, 1, 0, 11, 2, 4), MakePolicy(r1, 1, 0, 5, 2, 0)}

\* A cooldown whose sum with a timestamp reaches the word.
MCEndlessCooldown == {MakePolicy(r1, 1, 0, 5, 7, 4)}

Symmetry == Permutations(Handler) \cup Permutations(Nonce)

=============================================================================
