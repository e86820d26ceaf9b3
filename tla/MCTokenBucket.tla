---------------------------- MODULE MCTokenBucket ----------------------------
\* The buckets for TLC, with the symmetry of the sessions.
EXTENDS TokenBucket, TLC

Symmetry == Permutations(Sessions)
=============================================================================
