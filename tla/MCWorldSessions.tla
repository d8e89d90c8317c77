--------------------------- MODULE MCWorldSessions ---------------------------
EXTENDS WorldSessions

CONSTANTS a1, a2

\* The accounts are alike, so the first client may be that of either.
FirstAccount == session[1].account \in {None, a1}
=============================================================================
