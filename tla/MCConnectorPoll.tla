-------------------------- MODULE MCConnectorPoll --------------------------
(***************************************************************************)
(* Instances of ConnectorPoll for TLC.                                     *)
(***************************************************************************)
EXTENDS ConnectorPoll, TLC

\* Every tick of a short run has an event.
EveryTick == 1 .. MaxTime

\* A quiet source: some polls come back empty.
SomeTicks == {2, 3, 6}

Symmetric == Permutations(Pollers)

=============================================================================
