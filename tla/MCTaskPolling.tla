--------------------------- MODULE MCTaskPolling ---------------------------
\* Small instances of TaskPolling.
EXTENDS TaskPolling, TLC

CONSTANTS a1, k1, r1, p1, h1, h2

None == {}
OneAgentUpgrade == {a1}
OneKernelUpgrade == {k1}
OneRestart == {r1}
OneProbe == {p1}
OneHandler == {h1}
TwoHandlers == {h1, h2}
HandlerSymmetry == Permutations(Handlers)

=============================================================================
