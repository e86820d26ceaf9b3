------------------------------ MODULE MCService ------------------------------
\* The server and its exporter for TLC: two endpoints of one address, which the
\* most specific rule lets in although another one and the blacklist do not.
EXTENDS Service, TLC

CONSTANTS k1, k2, a1

MCAddressOf   == (k1 :> a1) @@ (k2 :> a1)
MCSubnetRules ==
    <<[subnet |-> {a1}, prefix |-> 8, level |-> "Blocked"],
      [subnet |-> {a1}, prefix |-> 24, level |-> "ReadWrite"]>>

Symmetry == Permutations(Keys) \cup Permutations(Sids) \cup Permutations(Conns)
=============================================================================
