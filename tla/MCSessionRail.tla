----------------------------- MODULE MCSessionRail -----------------------------
EXTENDS SessionRail

None == [e \in Events |-> 0]

Scenes == {
    [None EXCEPT !.deletions = 1, !.creations = 1, !.crashes = 1],
    [None EXCEPT !.deletions = 2, !.crashes = 1],
    [None EXCEPT !.deletions = 2, !.failures = 1],
    [None EXCEPT !.deletions = 1, !.outages = 1],
    [None EXCEPT !.creations = 1, !.failures = 1],
    [None EXCEPT !.creations = 1, !.outages = 1],
    [None EXCEPT !.deletions = 1, !.crashes = 1, !.failures = 1],
    [None EXCEPT !.technicals = 1, !.crashes = 1, !.failures = 1]}

=============================================================================
