----------------------------- MODULE MCKeyBridge -----------------------------
\* KeyBridge for TLC; the configuration gives the constants.
EXTENDS KeyBridge, TLC

\* Threads and keys are interchangeable.
Symmetry == Permutations(Keys) \cup Permutations(Threads)
=============================================================================
