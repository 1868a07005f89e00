---------------------------- MODULE MCProxiedRequests ----------------------------
EXTENDS ProxiedRequests, TLC

CONSTANTS p1, p2, t1, t2

MCProxies == {p1, p2}

MCTasks == {t1, t2}

\* The tasks are alike, and so are the proxies.
Symmetry == Permutations(MCProxies) \cup Permutations(MCTasks)

===============================================================================
