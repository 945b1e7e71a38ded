------------------------- MODULE MCSagaCoordinator --------------------------
(***************************************************************************)
(* Values of the constants of SagaCoordinator.                             *)
(***************************************************************************)
EXTENDS SagaCoordinator, TLC

AllResults == [success : BOOLEAN, data : BOOLEAN]

\* A success leaves something to undo here, a failure does not.
SomeResults == {r \in AllResults : r.success = r.data}

AllPlatforms == [store : {"memory", "postgres"}, jsonb : {"text", "parsed"}]

\* node-postgres as it comes.
ParsedJsonb == {p \in AllPlatforms : p.jsonb = "parsed"}

Interchangeable == Permutations(Calls)

=============================================================================
