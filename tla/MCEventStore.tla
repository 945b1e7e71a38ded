---------------------------- MODULE MCEventStore ----------------------------
(***************************************************************************)
(* Values of the constants of EventStore for model checking.               *)
(***************************************************************************)
EXTENDS EventStore

\* A digest into few values: it depends on every field, and it collides, as
\* a 32-bit hash may.
MCDigest(b) ==
    ((3 * b.sequence + 2 * b.previousHash + b.version
        + (IF b.type = "Created" THEN 1 ELSE 4)
        + (IF b.aggregate.type = "Party" THEN 0 ELSE 2)) % 5) + 1

MCHashes == 0 .. 5

MCFilters ==
    { NoFilter,
      [aggregateTypes |-> {"Party"}, eventTypes |-> EventTypes, afterSequence |-> 2],
      [aggregateTypes |-> AggregateTypes, eventTypes |-> {"Updated"}, afterSequence |-> 0] }

=============================================================================
