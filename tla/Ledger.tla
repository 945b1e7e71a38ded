------------------------------- MODULE Ledger -------------------------------
(***************************************************************************)
(* What the ledger promises, with no word about how it is stored: facts    *)
(* about aggregates are recorded one at a time, at the end, and nothing    *)
(* recorded is ever changed, moved or removed.  A versioned ledger also    *)
(* numbers the facts of each aggregate 1, 2, 3, ...: that is the promise   *)
(* of optimistic concurrency control.                                      *)
(*                                                                         *)
(* EventStore (in memory, unversioned) and PgEventStore (PostgreSQL,       *)
(* versioned) are shown to implement this specification.                   *)
(***************************************************************************)
EXTENDS Naturals, Sequences

CONSTANTS Aggregates,   \* the aggregates facts can be about
          EventTypes,   \* the kinds of facts
          Versions,     \* the numbers facts can have
          Versioned     \* does the ledger number the facts of an aggregate?

VARIABLE ledger         \* the facts, in the order they were recorded

Fact == [aggregate : Aggregates, version : Versions, type : EventTypes]

FactsAbout(a) == {i \in DOMAIN ledger : ledger[i].aggregate = a}

\* v is the next number of a: every smaller one is taken, v itself is not.
IsNextVersion(a, v) ==
    /\ \A i \in FactsAbout(a) : ledger[i].version < v
    /\ \A u \in 1 .. (v - 1) : \E i \in FactsAbout(a) : ledger[i].version = u

Record(a, v, t) ==
    /\ Versioned => IsNextVersion(a, v)
    /\ ledger' = Append(ledger, [aggregate |-> a, version |-> v, type |-> t])

Init == ledger = << >>

Next == \E a \in Aggregates, v \in Versions, t \in EventTypes : Record(a, v, t)

Spec == Init /\ [][Next]_ledger

=============================================================================
