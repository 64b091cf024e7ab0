-------------------------- MODULE MCSlackApproval --------------------------
EXTENDS SlackApproval, TLC

\* Clicks and timers are interchangeable (safety runs only).
Symmetric == Permutations(Clicks) \cup Permutations(Timers)

=============================================================================
