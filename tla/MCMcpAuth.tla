----------------------------- MODULE MCMcpAuth -----------------------------
EXTENDS McpAuth, TLC

Limit(c, t, p, g, f) ==
    [clients |-> c, txns |-> t, pairs |-> p, guesses |-> g,
     restarts |-> 1, failing |-> f]

\* A long chain of rotations, two logins, full tables of clients and of parked
\* authorizations, and forms with wrong passwords.
MCLimits == {Limit(1, 1, 3, 0, TRUE), Limit(1, 2, 3, 0, FALSE), Limit(3, 2, 1, 0, TRUE),
             Limit(3, 3, 0, 0, FALSE), Limit(1, 2, 0, 4, FALSE)}

MCSymmetry == Permutations(Clients) \cup Permutations(Txns)
=============================================================================
