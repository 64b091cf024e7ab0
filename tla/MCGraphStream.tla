---------------------------- MODULE MCGraphStream ---------------------------
EXTENDS GraphStream

CONSTANTS c1, c2, t1, t2

\* Tenants are interchangeable: the first client may as well be of t1.
MCInit == StreamInit /\ tenant[c1] = t1

MCSpec == MCInit /\ [][StreamNext]_stream_vars /\ StreamFairness

=============================================================================
