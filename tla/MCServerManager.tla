---- MODULE MCServerManager ----
EXTENDS ServerManager, TLC

Symmetry == Permutations(Servers) \cup Permutations(Sessions) \cup Permutations(Clients)

\* The bound on a behaviour: one client thread is terminated at most, and a behaviour
\* with a second session has no termination, no shutdown and no retry of deferrals.
Bounded ==
    LET killed == {c \in Clients : terminating[c]}
        made == {s \in Sessions : ~Free(s)}
    IN  /\ Cardinality(killed) <= 1
        /\ Cardinality(made) <= 1 \/ (killed = {} /\ ~stopRequested /\ ~deferralEvent)

MCNext == Next /\ Bounded'

MCSpec == Init /\ [][MCNext]_vars

====
