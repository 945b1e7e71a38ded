--------------------------- MODULE MCPgEventStore ---------------------------
(***************************************************************************)
(* Values of the constants of PgEventStore for model checking.             *)
(***************************************************************************)
EXTENDS PgEventStore, TLC

Party == [type |-> "Party", who |-> "ann"]
Stranger == [type |-> "Anonymous", who |-> "a reason"]
MCActors ==
    {Party, Stranger} \cup { [a EXCEPT !.who = "nobody"] : a \in {Party, Stranger} }

\* Every version of every aggregate, by a stranger whose call carries a
\* causation, so that the row is read back as it was written.
PlainRequests ==
    { [aggregate |-> a, version |-> v, type |-> "Changed",
       payload |-> "jsonb order", actor |-> Stranger, causation |-> "complete"] :
         a \in Aggregates, v \in Versions }

\* The same without a causation, as the engines call append.
BareRequests == { [r EXCEPT !.causation = "absent"] : r \in PlainRequests }

MCHashes == 0 .. 6

\* Depends on the number, the link, the version, the actor and the causation;
\* not on the aggregate, so that aggregates stay interchangeable.
MCDigest(b) ==
    ((3 * b.sequence + 2 * b.previousHash + b.version
        + (IF b.actor.who = "nobody" THEN 1 ELSE 0)
        + (IF b.causation = "nulls" THEN 1 ELSE 0)
        + (IF b.payload = "other order" THEN 1 ELSE 0)) % 6) + 1

\* The races over numbers and versions do not depend on hashes.
FlatDigest(b) == 0

=============================================================================
