-------------------------- MODULE MCActionService --------------------------
EXTENDS ActionService, TLC

\* Ids and handlers are interchangeable (safety runs only).
Symmetric == Permutations(Ids) \cup Permutations(Handlers) \cup Permutations(Choices)

=============================================================================
