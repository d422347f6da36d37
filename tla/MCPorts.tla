------------------------------ MODULE MCPorts ------------------------------
EXTENDS Ports, TLC

CONSTANTS w1, w2, s1, a1, a2, p1, p2

MCSymmetry ==
    Permutations({w1, w2}) \union Permutations({a1, a2}) \union Permutations({p1, p2})
=============================================================================
