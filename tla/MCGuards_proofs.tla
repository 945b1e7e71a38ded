-------------------------- MODULE MCGuards_proofs --------------------------
(***************************************************************************)
(* Proofs about what stands before the ledger and below it: for any        *)
(* requests at the endpoint, any sessions, limits and uses of quotas, any  *)
(* commands run on the database, any transactions of any clients on the    *)
(* events table, the calls of its pools, and any calls of any builders of  *)
(* queries.                                                                *)
(***************************************************************************)
EXTENDS MCGuards, FiniteSetTheorems, WellFoundedInduction, TLAPS

\* A set of natural numbers that is not empty has a least one.
LEMMA LeastNumber ==
    ASSUME NEW T \in SUBSET Nat, T # {}
    PROVE  \E n \in T : \A m \in T : n <= m
<1> DEFINE R == OpToRel(<, Nat)
<1>1. \A m, n \in Nat : <<m, n>> \in R <=> m < n
  BY DEF OpToRel
<1>2. IsWellFoundedOn(R, Nat)
  BY NatLessThanWellFounded
<1> HIDE DEF R
<1>3. PICK n \in T : \A m \in T : ~ (<<m, n>> \in R)
  BY <1>2, WFMin
<1>4. ASSUME NEW m \in T PROVE n <= m
  <2>1. ~ (<<m, n>> \in R) /\ m \in Nat /\ n \in Nat
    BY <1>3
  <2>2. ~ (m < n)
    BY <1>1, <2>1
  <2>3. QED BY <2>1, <2>2
<1>5. QED BY <1>4

-----------------------------------------------------------------------------
(***************************************************************************)
(* The commands of the database.                                           *)
(***************************************************************************)
LEMMA StoredCardinality == \A S : Stored!Cardinality(S) = Cardinality(S)
BY DEF Stored!Cardinality, Cardinality

LEMMA MigrationStart == ASSUME Stored!MigrationInit PROVE Stored!MigrationInv
<1>1. CASE v4 = {}
  <2>1. v5 = 0 BY <1>1, FS_EmptySet, StoredCardinality DEF Stored!MigrationInit
  <2>. QED BY <1>1, <2>1 DEF Stored!MigrationInit, Stored!MigrationInv
<1>2. CASE v4 = {1}
  <2>1. v5 = 1 BY <1>2, FS_Singleton, StoredCardinality DEF Stored!MigrationInit
  <2>. QED BY <1>2, <2>1 DEF Stored!MigrationInit, Stored!MigrationInv
<1>. QED BY <1>1, <1>2 DEF Stored!MigrationInit

\* A command goes somewhere, and the others stay where they are.
LEMMA MigrationGoes ==
    ASSUME Stored!MigrationInv, NEW p \in Procs, NEW where, Stored!Goto(p, where)
    PROVE  /\ v7'[p] = where
           /\ \A q \in Procs : q # p => v7'[q] = v7[q]
BY DEF Stored!MigrationInv, Stored!Goto

\* A step that appends no event, takes none away while the table stays, and
\* lets no reset through that was not.
LEMMA MigrationElsewhere ==
    ASSUME Stored!MigrationInv, NEW p \in Procs, NEW where, Stored!Goto(p, where),
           where \in {"start", "ensure", "read", "apply", "schema", "check", "drop",
                     "uuid-ossp", "pgcrypto", "done", "failed"},
           v1' = v1, v5' = v5, v10' \in [Procs -> 0 .. v5],
           \A q \in Procs : q # p => v10'[q] = v10[q],
           v4' = v4, v4 # {} => "events" \in v3',
           where = "drop" /\ v1[p] = "reset" => v4 = {}
    PROVE  Stored!MigrationInv'
<1>1. v7'[p] = where /\ \A q \in Procs : q # p => v7'[q] = v7[q] BY MigrationGoes
<1>2. v7' \in [Procs -> {"start", "ensure", "read", "apply", "schema", "check", "drop",
                        "uuid-ossp", "pgcrypto", "done", "failed"}]
  BY DEF Stored!MigrationInv, Stored!Goto
<1>. QED BY <1>1, <1>2 DEF Stored!MigrationInv

LEMMA MigrationKeeps ==
    ASSUME Stored!MigrationInv, Stored!MigrationNext PROVE Stored!MigrationInv'
<1>1. ASSUME NEW p \in Procs, Stored!Start(p) PROVE Stored!MigrationInv'
  <2>1. PICK where \in {"ensure", "schema", "failed", "check"} : Stored!Goto(p, where)
    BY <1>1 DEF Stored!Start
  <2>2. v10' \in [Procs -> 0 .. v5] /\ \A q \in Procs : q # p => v10'[q] = v10[q]
    BY <1>1 DEF Stored!Start, Stored!MigrationInv
  <2>3. UNCHANGED <<v1, v3, v4, v5>> BY <1>1 DEF Stored!Start
  <2>4. v4 # {} => "events" \in v3 BY DEF Stored!MigrationInv
  <2>. QED BY <2>1, <2>2, <2>3, <2>4, MigrationElsewhere
<1>2. ASSUME NEW p \in Procs,
             \/ Stored!Ensure(p) \/ Stored!GetApplied(p) \/ Stored!MarkApplied(p)
             \/ Stored!SchemaApplied(p) \/ Stored!DropExtension(p) \/ Stored!Crash(p)
      PROVE  Stored!MigrationInv'
  <2>1. PICK where \in {"read", "apply", "done", "failed", "ensure", "pgcrypto", "schema"} :
            Stored!Goto(p, where)
    BY <1>2 DEF Stored!Ensure, Stored!GetApplied, Stored!MarkApplied, Stored!SchemaApplied,
       Stored!DropExtension, Stored!Crash
  <2>2. UNCHANGED <<v1, v4, v5, v10>>
    BY <1>2 DEF Stored!Ensure, Stored!GetApplied, Stored!MarkApplied, Stored!SchemaApplied,
       Stored!DropExtension, Stored!Crash
  <2>3. v3 \ {"uuid-ossp", "pgcrypto"} \subseteq v3'
    BY <1>2 DEF Stored!Ensure, Stored!GetApplied, Stored!MarkApplied, Stored!SchemaApplied,
       Stored!DropExtension, Stored!Drop, Stored!Crash
  <2>4. /\ v10 \in [Procs -> 0 .. v5]
        /\ v4 # {} => "events" \in v3'
    BY <2>3 DEF Stored!MigrationInv
  <2>. QED BY <2>1, <2>2, <2>4, MigrationElsewhere
<1>3. ASSUME NEW p \in Procs, Stored!Execute(p) PROVE Stored!MigrationInv'
  <2>1. UNCHANGED <<v1, v4, v5, v10>> /\ v3 \subseteq v3' BY <1>3 DEF Stored!Execute
  <2>2. CASE UNCHANGED v7 BY <2>1, <2>2 DEF Stored!MigrationInv
  <2>3. CASE Stored!Goto(p, "failed")
    <3>1. v10 \in [Procs -> 0 .. v5] /\ (v4 # {} => "events" \in v3')
      BY <2>1 DEF Stored!MigrationInv
    <3>. QED BY <2>1, <2>3, <3>1, MigrationElsewhere
  <2>. QED BY <1>3, <2>2, <2>3 DEF Stored!Execute
<1>4. ASSUME NEW p \in Procs, Stored!CheckEmpty(p) PROVE Stored!MigrationInv'
  <2>1. UNCHANGED <<v1, v3, v4, v5, v10>> BY <1>4 DEF Stored!CheckEmpty
  <2>2. v10 \in [Procs -> 0 .. v5] /\ (v4 # {} => "events" \in v3)
    BY DEF Stored!MigrationInv
  <2>3. CASE Stored!Goto(p, "failed") BY <2>1, <2>2, <2>3, MigrationElsewhere
  <2>4. CASE Stored!Goto(p, "drop") /\ (Stored!Empty \/ v1[p] = "force")
    <3>1. v1[p] = "reset" => v4 = {}
      BY <2>2, <2>4 DEF Stored!Empty, Stored!MigrationTables
    <3>. QED BY <2>1, <2>2, <2>4, <3>1, MigrationElsewhere
  <2>. QED BY <1>4, <2>3, <2>4 DEF Stored!CheckEmpty
<1>5. ASSUME NEW p \in Procs, Stored!DropTables(p) PROVE Stored!MigrationInv'
  <2>1. v4' = {} /\ UNCHANGED <<v5, v10>> BY <1>5 DEF Stored!DropTables
  <2>2. v7' \in [Procs -> {"start", "ensure", "read", "apply", "schema", "check", "drop",
                          "uuid-ossp", "pgcrypto", "done", "failed"}]
    BY <1>5 DEF Stored!DropTables, Stored!Goto, Stored!MigrationInv
  <2>. QED BY <2>1, <2>2 DEF Stored!MigrationInv
<1>6. ASSUME Stored!AppendEvent PROVE Stored!MigrationInv'
  <2>1. UNCHANGED <<v1, v3, v7, v10>> /\ v5' = v5 + 1 /\ v4' = v4 \cup {v5 + 1}
    BY <1>6 DEF Stored!AppendEvent
  <2>2. "events" \in v3 BY <1>6 DEF Stored!AppendEvent
  <2>3. v5 \in Nat /\ \A p \in Procs : v10[p] \in 0 .. v5 BY DEF Stored!MigrationInv
  <2>4. v10' \in [Procs -> 0 .. v5'] BY <2>1, <2>3 DEF Stored!MigrationInv
  <2>. QED BY <2>1, <2>2, <2>3, <2>4 DEF Stored!MigrationInv
<1>. QED BY <1>1, <1>2, <1>3, <1>4, <1>5, <1>6 DEF Stored!MigrationNext

LEMMA MigrationLoses ==
    ASSUME Stored!MigrationInv PROVE Stored!LosesNothingOld
BY DEF Stored!MigrationInv, Stored!LosesNothingOld

\* What a script still has to run is of numbers, and so has a first.
LEMMA RunsAreNumbers ==
    ASSUME NEW p \in Procs
    PROVE  Stored!Run(Stored!Script(p)) \subseteq Nat \ {0} /\ Stored!Run(Stored!MIGRATIONS) \subseteq Nat \ {0}
<1>1. \A a, b, c : DOMAIN <<a, b, c>> \subseteq Nat \ {0} OBVIOUS
<1>2. \A a, b, c, d, e : DOMAIN <<a, b, c, d, e>> \subseteq Nat \ {0} OBVIOUS
<1>3. DOMAIN Stored!Fallback \subseteq Nat \ {0} BY <1>1, Zenon DEF Stored!Fallback
<1>4. DOMAIN Stored!SchemaFile \subseteq Nat \ {0} BY <1>2, Zenon DEF Stored!SchemaFile
<1>. QED BY <1>3, <1>4 DEF Stored!Run, Stored!Script, Stored!MIGRATIONS

LEMMA FirstToRun ==
    ASSUME NEW p \in Procs, ~Stored!AllRun(p)
    PROVE  /\ Stored!Min(Stored!ToRun(p)) \in Stored!ToRun(p)
           /\ \A j \in Stored!ToRun(p) : Stored!Min(Stored!ToRun(p)) <= j
<1>. DEFINE T == Stored!ToRun(p)
<1>1. T \subseteq Nat /\ T # {} BY RunsAreNumbers DEF Stored!ToRun, Stored!AllRun
<1>. HIDE DEF T
<1>2. PICK n \in T : \A m \in T : n <= m BY <1>1, LeastNumber
<1>3. Stored!Min(T) \in T /\ \A j \in T : Stored!Min(T) <= j BY <1>2 DEF Stored!Min
<1>. QED BY <1>3 DEF T

LEMMA MadeStart == ASSUME Stored!MigrationInit PROVE Stored!MadeInv
BY DEF Stored!MigrationInit, Stored!MadeInv, Stored!MarkedIsMade

LEMMA MadeKeeps ==
    ASSUME Stored!MigrationInv, Stored!MadeInv, Stored!MigrationNext PROVE Stored!MadeInv'
<1>. DEFINE R == Stored!Run(Stored!MIGRATIONS)
            Makes(i) == Stored!MIGRATIONS[i].makes
            Fresh(p) == v7[p] = "apply" /\ v9[p]
<1>1. \A p \in Procs : Fresh(p) => \A i \in R : i < v8[p] => Makes(i) \in v3
  BY DEF Stored!MadeInv
<1>2. \A row \in v6 : row.whole => \A i \in R : Makes(i) \in v3
  BY DEF Stored!MadeInv, Stored!MarkedIsMade
<1>3. v2' = v2
  BY DEF Stored!MigrationNext, Stored!Start, Stored!Ensure, Stored!GetApplied, Stored!Execute,
         Stored!MarkApplied, Stored!SchemaApplied, Stored!CheckEmpty, Stored!DropTables,
         Stored!DropExtension, Stored!Crash, Stored!AppendEvent
<1>4. Stored!MIGRATIONS' = Stored!MIGRATIONS BY <1>3 DEF Stored!MIGRATIONS
<1>5. R' = R /\ \A i : Makes(i)' = Makes(i) BY <1>4 DEF Stored!Run
<1>. HIDE DEF R, Makes
<1>6. SUFFICES /\ v6' \subseteq [version : {1}, whole : BOOLEAN]
               /\ v9' \in [Procs -> BOOLEAN] /\ v8' \in [Procs -> Nat]
               /\ \A p \in Procs : Fresh(p)' => \A i \in R : i < v8'[p] => Makes(i) \in v3'
               /\ \A row \in v6' : row.whole => \A i \in R : Makes(i) \in v3'
  BY <1>5 DEF Stored!MadeInv, Stored!MarkedIsMade, R, Makes
<1>7. ASSUME v3 \subseteq v3', v6' = v6, v9' = v9, v8' = v8,
             \A q \in Procs : v7'[q] = "apply" => v7[q] = "apply"
      PROVE  <1>6!1
  BY <1>1, <1>2, <1>7 DEF Stored!MadeInv
<1>8. ASSUME NEW p \in Procs, NEW where, Stored!Goto(p, where), where # "apply"
      PROVE  \A q \in Procs : v7'[q] = "apply" => v7[q] = "apply" /\ q # p
  BY <1>8 DEF Stored!Goto, Stored!MigrationInv
<1>9. ASSUME NEW p \in Procs, Stored!Start(p) PROVE <1>6!1
  <2>1. PICK where : Stored!Goto(p, where) /\ where # "apply" BY <1>9 DEF Stored!Start
  <2>. QED BY <1>7, <1>8, <1>9, <2>1 DEF Stored!Start
<1>10. ASSUME NEW p \in Procs, Stored!Ensure(p) PROVE <1>6!1
  BY <1>7, <1>8, <1>10 DEF Stored!Ensure
<1>11. ASSUME NEW p \in Procs, Stored!GetApplied(p) PROVE <1>6!1
  <2>1. \A q \in Procs : q # p /\ v7'[q] = "apply" => v7[q] = "apply"
    BY <1>11 DEF Stored!GetApplied, Stored!Goto
  <2>2. \A q \in Procs : q # p => v9'[q] = v9[q] /\ v8'[q] = v8[q]
    BY <1>11 DEF Stored!GetApplied
  <2>3. v9' \in [Procs -> BOOLEAN] /\ v8' \in [Procs -> Nat] /\ v8'[p] = 1
    BY <1>11 DEF Stored!GetApplied, Stored!MadeInv
  <2>4. v3' = v3 \cup {"schema_migrations"} /\ v6' = v6 BY <1>11 DEF Stored!GetApplied
  <2>5. R \subseteq Nat /\ \A i \in R : ~(i < 1)
    <3>1. R \subseteq Nat \ {0} BY RunsAreNumbers DEF R
    <3>. QED BY <3>1
  <2>. QED BY <1>1, <1>2, <2>1, <2>2, <2>3, <2>4, <2>5 DEF Stored!MadeInv
<1>12. ASSUME NEW p \in Procs, Stored!Execute(p) PROVE <1>6!1
  <2>. DEFINE i == Stored!Min(Stored!ToRun(p))
              s == Stored!Script(p)[i]
  <2>1. CASE Stored!Goto(p, "failed") /\ UNCHANGED <<v3, v8>>
    BY <1>7, <1>8, <1>12, <2>1 DEF Stored!Execute
  <2>2. CASE v3' = v3 \cup {s.makes} /\ v8' = [v8 EXCEPT ![p] = i + 1] /\ v7' = v7
    <3>1. i \in Stored!ToRun(p) /\ \A j \in Stored!ToRun(p) : i <= j
      BY <1>12, FirstToRun DEF Stored!Execute
    <3>2. i \in Nat BY <3>1, RunsAreNumbers DEF Stored!ToRun
    <3>3. v7[p] = "apply" => Stored!Script(p) = Stored!MIGRATIONS BY DEF Stored!Script
    <3>8. R \subseteq Nat /\ v8[p] \in Nat BY RunsAreNumbers DEF R, Stored!MadeInv
    <3>4. v7[p] = "apply" => \A j \in R : j < v8[p] \/ j >= i
      <4>1. \A j \in R : j < v8[p] \/ j >= v8[p] BY <3>8
      <4>. QED BY <3>1, <3>2, <3>3, <3>8, <4>1 DEF Stored!ToRun, R
    <3>5. v7[p] = "apply" => Makes(i) = s.makes BY <3>3 DEF Makes
    <3>. HIDE DEF i, s
    <3>6. v8' \in [Procs -> Nat] /\ v8'[p] = i + 1 /\ \A q \in Procs : q # p => v8'[q] = v8[q]
      BY <2>2, <3>2 DEF Stored!MadeInv
    <3>7. v6' = v6 /\ v9' = v9 BY <1>12 DEF Stored!Execute
    <3>9. Fresh(p) => \A j \in R : j < i + 1 => Makes(j) \in v3'
      <4>1. \A j \in R : j < i + 1 /\ j >= i => j = i BY <3>2, <3>8
      <4>. QED BY <1>1, <2>2, <3>4, <3>5, <4>1
    <3>. QED BY <1>1, <1>2, <2>2, <3>6, <3>7, <3>9 DEF Stored!MadeInv
  <2>. QED BY <1>12, <2>1, <2>2 DEF Stored!Execute
<1>13. ASSUME NEW p \in Procs, Stored!MarkApplied(p) PROVE <1>6!1
  <2>1. v3' = v3 /\ v9' = v9 /\ v8' = v8 BY <1>13 DEF Stored!MarkApplied
  <2>2. \A q \in Procs : v7'[q] = "apply" => v7[q] = "apply"
    <3>1. PICK where : Stored!Goto(p, where) /\ where # "apply" BY <1>13 DEF Stored!MarkApplied
    <3>. QED BY <1>8, <3>1
  <2>3. CASE v6' = v6 BY <1>7, <2>1, <2>2, <2>3
  <2>4. CASE v6' = {[version |-> 1, whole |-> v9[p]]}
    <3>1. v7[p] = "apply" /\ Stored!ToRun(p) = {}
      BY <1>13 DEF Stored!MarkApplied, Stored!AllRun
    <3>2. Stored!Script(p) = Stored!MIGRATIONS BY <3>1 DEF Stored!Script
    <3>3. \A j \in R : ~(j >= v8[p]) BY <3>1, <3>2 DEF Stored!ToRun, R
    <3>4. R \subseteq Nat /\ v8[p] \in Nat BY RunsAreNumbers DEF R, Stored!MadeInv
    <3>5. v9[p] => \A j \in R : Makes(j) \in v3
      <4>1. \A j \in R : j < v8[p] BY <3>3, <3>4
      <4>. QED BY <1>1, <3>1, <4>1
    <3>6. v9[p] \in BOOLEAN BY DEF Stored!MadeInv
    <3>. QED BY <1>1, <2>1, <2>2, <2>4, <3>5, <3>6 DEF Stored!MadeInv
  <2>. QED BY <1>13, <2>3, <2>4 DEF Stored!MarkApplied
<1>14. ASSUME NEW p \in Procs,
              Stored!SchemaApplied(p) \/ Stored!CheckEmpty(p) \/ Stored!Crash(p)
       PROVE  <1>6!1
  <2>1. PICK where : Stored!Goto(p, where) /\ where # "apply"
    BY <1>14 DEF Stored!SchemaApplied, Stored!CheckEmpty, Stored!Crash
  <2>. QED BY <1>7, <1>8, <1>14, <2>1 DEF Stored!SchemaApplied, Stored!CheckEmpty, Stored!Crash
<1>15. ASSUME NEW p \in Procs, NEW what, Stored!Drop(p, what), v8' = v8 PROVE <1>6!1
  <2>1. v9' \in [Procs -> BOOLEAN] /\ \A q \in Procs : ~v9'[q] BY <1>15 DEF Stored!Drop
  <2>2. v6' \subseteq [version : {1}, whole : BOOLEAN] /\ \A row \in v6' : ~row.whole
    <3>1. CASE v6' = {} BY <3>1
    <3>2. CASE v6' = {[row EXCEPT !.whole = FALSE] : row \in v6}
      BY <3>2 DEF Stored!MadeInv
    <3>. QED BY <1>15, <3>1, <3>2 DEF Stored!Drop
  <2>. QED BY <1>15, <2>1, <2>2 DEF Stored!MadeInv
<1>16. ASSUME Stored!AppendEvent PROVE <1>6!1
  BY <1>7, <1>16 DEF Stored!AppendEvent
<1>. QED
  BY <1>9, <1>10, <1>11, <1>12, <1>13, <1>14, <1>15, <1>16
  DEF Stored!MigrationNext, Stored!DropTables, Stored!DropExtension

-----------------------------------------------------------------------------
(***************************************************************************)
(* The builders of queries.                                                *)
(***************************************************************************)
\* A query that has all that another one has.
Narrows(q, r) ==
    /\ r.select = q.select
    /\ Found!IsPrefix(q.where, r.where)
    /\ q.limit # Found!None => r.limit # Found!None
    /\ q.after # Found!None => r.after # Found!None

LEMMA PrefixItself ==
    ASSUME NEW S, NEW s \in Seq(S) PROVE Found!IsPrefix(s, s)
BY DEF Found!IsPrefix

LEMMA PrefixOfAppend ==
    ASSUME NEW S, NEW s \in Seq(S), NEW e \in S PROVE Found!IsPrefix(s, Append(s, e))
<1>1. Append(s, e) \in Seq(S) /\ Len(Append(s, e)) = Len(s) + 1 OBVIOUS
<1>2. SubSeq(s, 1, Len(s)) = SubSeq(Append(s, e), 1, Len(s)) OBVIOUS
<1>. QED BY <1>1, <1>2 DEF Found!IsPrefix

\* What is asked of a builder makes a query of its query, and none less.
LEMMA AskedNarrows ==
    ASSUME NEW q \in Found!QueriesThere, NEW a \in BuilderAsks
    PROVE  Found!Asked(q, a) \in Found!QueriesThere /\ Narrows(q, Found!Asked(q, a))
<1>1. a.arg \in Found!Args BY DEF Found!Args
<1>2. Found!IsPrefix(q.where, q.where)
  BY PrefixItself DEF Found!QueriesThere, Found!ArgLists
<1>3. \A s \in Found!ArgLists :
          Append(s, a.arg) \in Found!ArgLists /\ Found!IsPrefix(s, Append(s, a.arg))
  BY <1>1, PrefixOfAppend DEF Found!ArgLists
<1>4. CASE a.op = "where"
  <2>1. Found!Asked(q, a) = [q EXCEPT !.where = Append(q.where, a.arg)]
    BY <1>4 DEF Found!Asked, Found!Where, Found!Add
  <2>2. q.where \in Found!ArgLists BY DEF Found!QueriesThere
  <2>3. Found!Asked(q, a) \in Found!QueriesThere
    BY <1>3, <2>1, <2>2 DEF Found!QueriesThere
  <2>4. /\ Found!Asked(q, a).where = Append(q.where, a.arg)
        /\ Found!Asked(q, a).select = q.select
        /\ Found!Asked(q, a).limit = q.limit /\ Found!Asked(q, a).after = q.after
    BY <2>1 DEF Found!QueriesThere
  <2>. QED BY <1>3, <2>2, <2>3, <2>4 DEF Narrows
<1>5. CASE a.op \in {"include", "orderBy", "aggregate", "groupBy"}
  <2>1. Found!Asked(q, a) = [q EXCEPT ![a.op] = Append(q[a.op], a.arg)]
    BY <1>5 DEF Found!Asked, Found!Add
  <2>2. q[a.op] \in Found!ArgLists BY <1>5 DEF Found!QueriesThere
  <2>3. Found!Asked(q, a) \in Found!QueriesThere
    BY <1>3, <1>5, <2>1, <2>2 DEF Found!QueriesThere
  <2>4. /\ Found!Asked(q, a).where = q.where /\ Found!Asked(q, a).select = q.select
        /\ Found!Asked(q, a).limit = q.limit /\ Found!Asked(q, a).after = q.after
    BY <1>5, <2>1 DEF Found!QueriesThere
  <2>. QED BY <1>2, <2>3, <2>4 DEF Narrows
<1>6. CASE a.op = "at"
  <2>1. Found!Asked(q, a) = [q EXCEPT !.at = a.arg] BY <1>6 DEF Found!Asked
  <2>2. Found!Asked(q, a) \in Found!QueriesThere BY <1>1, <2>1 DEF Found!QueriesThere
  <2>. QED BY <1>2, <2>1, <2>2 DEF Found!QueriesThere, Narrows
<1>7. CASE a.op \in {"limit", "after"}
  <2>1. a.arg \in Nat \ {0} BY <1>7, GuardsAssumption
  <2>2. Found!Asked(q, a) =
            IF a.op = "limit" THEN [q EXCEPT !.limit = a.arg]
            ELSE [q EXCEPT !.after = a.arg, !.limit = IF q.limit = 0 THEN 20 ELSE q.limit]
    BY <1>7 DEF Found!Asked, Found!Limit, Found!After, Found!None, Found!DefaultLimit
  <2>3. Found!Asked(q, a) \in Found!QueriesThere
    <3>1. CASE a.op = "limit" BY <2>1, <2>2, <3>1 DEF Found!QueriesThere
    <3>2. CASE a.op = "after"
      <4>1. PICK n \in Nat : Found!Asked(q, a) = [q EXCEPT !.after = a.arg, !.limit = n]
        BY <2>2, <3>2 DEF Found!QueriesThere
      <4>. QED BY <2>1, <4>1 DEF Found!QueriesThere
    <3>. QED BY <1>7, <3>1, <3>2
  <2>4. /\ Found!Asked(q, a).where = q.where /\ Found!Asked(q, a).select = q.select
        /\ q.limit # 0 => Found!Asked(q, a).limit # 0
        /\ q.after # 0 => Found!Asked(q, a).after # 0
    BY <2>1, <2>2 DEF Found!QueriesThere
  <2>. QED BY <1>2, <2>3, <2>4 DEF Narrows, Found!None
<1>. QED BY <1>4, <1>5, <1>6, <1>7, GuardsAssumption

LEMMA QueryStart == ASSUME Found!QueryInit PROVE Found!QueryInv
<1>1. \A type \in {"Agreement", "Event"} : Found!Select(type) \in Found!QueriesThere
  BY DEF Found!Select, Found!QueriesThere, Found!ArgLists, Found!None
<1>. QED BY <1>1 DEF Found!QueryInit, Found!QueryInv

LEMMA QueryKeeps ==
    ASSUME Found!QueryInv, Found!QueryNext
    PROVE  Found!QueryInv' /\ Found!NarrowsOnly
<1>1. \A b \in Builders : Narrows(v1[b], v1[b])
  BY PrefixItself DEF Found!QueryInv, Found!QueriesThere, Found!ArgLists, Narrows
<1>2. ASSUME NEW b \in Builders, Found!Ask(b)
      PROVE  Found!QueryInv' /\ \A c \in Builders : Narrows(v1[c], v1'[c])
  <2>1. PICK a \in BuilderAsks : v1' = [v1 EXCEPT ![b] = Found!Asked(v1[b], a)]
    BY <1>2 DEF Found!Ask
  <2>2. v1[b] \in Found!QueriesThere BY DEF Found!QueryInv
  <2>3. Found!Asked(v1[b], a) \in Found!QueriesThere /\ Narrows(v1[b], Found!Asked(v1[b], a))
    BY <2>2, AskedNarrows
  <2>. QED BY <1>1, <2>1, <2>3 DEF Found!QueryInv
<1>3. ASSUME NEW b \in Builders, Found!Build(b)
      PROVE  Found!QueryInv' /\ \A c \in Builders : Narrows(v1[c], v1'[c])
  BY <1>1, <1>3 DEF Found!Build, Found!QueryInv
<1>. QED BY <1>2, <1>3 DEF Found!QueryNext, Found!NarrowsOnly, Narrows

-----------------------------------------------------------------------------
(***************************************************************************)
(* The events table.                                                       *)
(***************************************************************************)
LEMMA SchemaStart == ASSUME Stored!SchemaInit PROVE Stored!SchemaInv
<1>1. Stored!Unborn \in Stored!Transactions BY DEF Stored!Unborn, Stored!Transactions
<1>. QED BY <1>1 DEF Stored!SchemaInit, Stored!SchemaInv, Stored!Unborn

\* What holds of one transaction.
OneTime(t) ==
    /\ t \in Stored!Transactions
    /\ t.pc = "none" => t.rows = {}
    /\ t.pc = "inserting" => t.new # <<>> /\ Head(t.new).at = t.at
    /\ \A r \in t.rows : r.at = t.at

\* A step of one transaction that commits nothing.
LEMMA SchemaOneMoves ==
    ASSUME Stored!SchemaInv, NEW c \in Clients, NEW t, OneTime(t),
           v4' = [v4 EXCEPT ![c] = t], v3' \in Nat, UNCHANGED <<v1, v2>>
    PROVE  Stored!SchemaInv'
<1>1. v4' \in [Clients -> Stored!Transactions] BY DEF Stored!SchemaInv, OneTime
<1>2. \A d \in Clients : OneTime(v4'[d]) BY <1>1 DEF Stored!SchemaInv, OneTime
<1>. QED BY <1>1, <1>2 DEF Stored!SchemaInv, OneTime

LEMMA SchemaKeeps ==
    ASSUME Stored!SchemaInv, Stored!SchemaNext PROVE Stored!SchemaInv'
<1>1. CASE Stored!Tick BY <1>1 DEF Stored!Tick, Stored!SchemaInv
<1>. \A c \in Clients : OneTime(v4[c]) BY DEF Stored!SchemaInv, OneTime
<1>2. ASSUME NEW c \in Clients, Stored!Begin(c) PROVE Stored!SchemaInv'
  <2>. DEFINE t == [v4[c] EXCEPT !.pc = "open", !.at = v1]
  <2>1. OneTime(t)
    <3>1. t \in Stored!Transactions BY DEF Stored!SchemaInv, Stored!Transactions
    <3>2. t.pc = "open" /\ t.at = v1 /\ t.rows = {}
      BY <1>2 DEF Stored!Begin, Stored!SchemaInv, Stored!Transactions
    <3>. QED BY <3>1, <3>2 DEF OneTime
  <2>2. v4' = [v4 EXCEPT ![c] = t] /\ UNCHANGED <<v1, v2, v3>> BY <1>2 DEF Stored!Begin
  <2>3. v3 \in Nat BY DEF Stored!SchemaInv
  <2>. QED BY <2>1, <2>2, <2>3, SchemaOneMoves
<1>3. ASSUME NEW c \in Clients, Stored!RollBack(c), v3' \in Nat, UNCHANGED <<v1, v2>>
      PROVE  Stored!SchemaInv'
  <2>. DEFINE t == [v4[c] EXCEPT !.pc = "ended", !.rows = {}, !.new = <<>>]
  <2>1. OneTime(t)
    <3>0. <<>> \in Seq(Stored!Rows) OBVIOUS
    <3>1. t \in Stored!Transactions BY <3>0 DEF Stored!SchemaInv, Stored!Transactions
    <3>2. t.pc = "ended" /\ t.rows = {} BY DEF Stored!SchemaInv, Stored!Transactions
    <3>. QED BY <3>1, <3>2 DEF OneTime
  <2>2. v4' = [v4 EXCEPT ![c] = t] BY <1>3 DEF Stored!RollBack
  <2>. QED BY <1>3, <2>1, <2>2, SchemaOneMoves
<1>4. ASSUME NEW c \in Clients, Stored!Abandon(c) \/ Stored!ChangeOrDelete(c)
      PROVE  Stored!SchemaInv'
  <2>1. v3 \in Nat BY DEF Stored!SchemaInv
  <2>. QED BY <1>3, <1>4, <2>1 DEF Stored!Abandon, Stored!ChangeOrDelete
<1>5. ASSUME NEW c \in Clients, NEW a \in Aggregates, NEW v \in Versions,
             NEW previous \in 0 .. v3, Stored!Insert(c, a, v, previous)
      PROVE  Stored!SchemaInv'
  <2>. DEFINE row == [sequence |-> v3 + 1, at |-> v4[c].at, aggregate |-> a,
                      version |-> v, previous |-> previous]
              t == [v4[c] EXCEPT !.pc = "inserting", !.new = <<row>>]
  <2>1. v3' \in Nat /\ UNCHANGED <<v1, v2>> BY <1>5 DEF Stored!Insert, Stored!SchemaInv
  <2>2. v4' = [v4 EXCEPT ![c] = t] \/ Stored!RollBack(c) BY <1>5 DEF Stored!Insert
  <2>3. OneTime(t)
    <3>1. row \in Stored!Rows
      BY DEF Stored!SchemaInv, Stored!Transactions, Stored!Rows
    <3>2. <<row>> \in Seq(Stored!Rows) /\ <<row>> # <<>> /\ Head(<<row>>).at = v4[c].at
      BY <3>1
    <3>3. \A r \in v4[c].rows : r.at = v4[c].at BY DEF OneTime
    <3>. HIDE DEF row
    <3>4. t \in Stored!Transactions BY <3>2 DEF Stored!SchemaInv, Stored!Transactions
    <3>5. /\ t.pc = "inserting" /\ t.at = v4[c].at /\ t.rows = v4[c].rows /\ t.new = <<row>>
      BY DEF Stored!SchemaInv, Stored!Transactions
    <3>. QED BY <3>2, <3>3, <3>4, <3>5 DEF OneTime
  <2>. QED BY <1>3, <2>1, <2>2, <2>3, SchemaOneMoves
<1>6. ASSUME NEW c \in Clients, Stored!Place(c) PROVE Stored!SchemaInv'
  <2>. DEFINE row == Head(v4[c].new)
              t == [v4[c] EXCEPT !.pc = "open", !.new = <<>>, !.rows = v4[c].rows \cup {row}]
  <2>1. v3' \in Nat /\ UNCHANGED <<v1, v2>> BY <1>6 DEF Stored!Place, Stored!SchemaInv
  <2>2. v4' = [v4 EXCEPT ![c] = t] \/ Stored!RollBack(c)
    BY <1>6 DEF Stored!Place
  <2>3. OneTime(t)
    <3>1. /\ v4[c].new \in Seq(Stored!Rows) /\ v4[c].new # <<>> /\ row.at = v4[c].at
          /\ v4[c].rows \subseteq Stored!Rows
      BY <1>6 DEF Stored!Place, OneTime, Stored!Transactions
    <3>2. row \in Stored!Rows BY <3>1
    <3>3. \A r \in v4[c].rows \cup {row} : r.at = v4[c].at BY <3>1 DEF OneTime
    <3>. HIDE DEF row
    <3>4. t \in Stored!Transactions
      <4>1. <<>> \in Seq(Stored!Rows) OBVIOUS
      <4>. QED BY <3>1, <3>2, <4>1 DEF Stored!SchemaInv, Stored!Transactions
    <3>5. t.pc = "open" /\ t.at = v4[c].at /\ t.rows = v4[c].rows \cup {row}
      BY DEF Stored!SchemaInv, Stored!Transactions
    <3>. QED BY <3>3, <3>4, <3>5 DEF OneTime
  <2>. QED BY <1>3, <2>1, <2>2, <2>3, SchemaOneMoves
<1>7. ASSUME NEW c \in Clients, Stored!Commit(c) PROVE Stored!SchemaInv'
  <2>. DEFINE t == [v4[c] EXCEPT !.pc = "ended", !.rows = {}]
  <2>1. v4' = [v4 EXCEPT ![c] = t] /\ v2' = v2 \cup v4[c].rows /\ UNCHANGED <<v1, v3>>
    BY <1>7 DEF Stored!Commit
  <2>2. OneTime(t)
    <3>1. t \in Stored!Transactions BY DEF Stored!SchemaInv, Stored!Transactions
    <3>2. t.pc = "ended" /\ t.rows = {} BY DEF Stored!SchemaInv, Stored!Transactions
    <3>. QED BY <3>1, <3>2 DEF OneTime
  <2>3. v2' \subseteq Stored!Rows BY <2>1 DEF Stored!SchemaInv, Stored!Transactions
  <2>. HIDE DEF t
  <2>4. v4' \in [Clients -> Stored!Transactions] /\ \A d \in Clients : OneTime(v4'[d])
    BY <2>1, <2>2 DEF Stored!SchemaInv, OneTime
  <2>. QED BY <2>1, <2>3, <2>4 DEF Stored!SchemaInv, OneTime
<1>. QED BY <1>1, <1>2, <1>4, <1>5, <1>6, <1>7 DEF Stored!SchemaNext

\* Only a commit changes the table, and what it adds is of the time its
\* transaction began at.
LEMMA SchemaStays ==
    ASSUME Stored!SchemaInv, Stored!SchemaNext PROVE Stored!CommittedStays
<1>1. CASE UNCHANGED v2
  BY <1>1 DEF Stored!CommittedStays, Stored!GetEventsAtTime
<1>2. ASSUME NEW c \in Clients, Stored!Commit(c) PROVE Stored!CommittedStays
  <2>1. v2' = v2 \cup v4[c].rows /\ v4[c].pc = "open" BY <1>2 DEF Stored!Commit
  <2>2. ASSUME NEW a \in Aggregates, NEW t \in 1 .. v1 - 1,
               \A d \in Clients : Stored!Open(d) => v4[d].at > t
        PROVE  Stored!GetEventsAtTime(a, t) = Stored!GetEventsAtTime(a, t)'
    <3>1. v4[c].at > t BY <2>1, <2>2 DEF Stored!Open
    <3>2. v4[c].at \in Nat /\ \A r \in v4[c].rows : r.at = v4[c].at
      BY DEF Stored!SchemaInv, Stored!Transactions
    <3>3. \A r \in v4[c].rows : ~(r.at <= t) BY <3>1, <3>2
    <3>4. {r \in v2 : r.aggregate = a /\ r.at <= t} = {r \in v2' : r.aggregate = a /\ r.at <= t}
      BY <2>1, <3>3
    <3>. QED BY <3>4 DEF Stored!GetEventsAtTime
  <2>. QED BY <2>1, <2>2 DEF Stored!CommittedStays
<1>3. UNCHANGED v2 \/ \E c \in Clients : Stored!Commit(c)
  BY DEF Stored!SchemaNext, Stored!Tick, Stored!Begin, Stored!Place, Stored!Abandon,
     Stored!ChangeOrDelete, Stored!Insert
<1>. QED BY <1>1, <1>2, <1>3

\* A finite set of numbers that is not empty has a greatest one.
LEMMA HasGreatest ==
    ASSUME NEW T \in SUBSET Nat, IsFiniteSet(T), T # {}
    PROVE  \E m \in T : \A n \in T : m >= n
<1>. DEFINE Lacks(S) == S # {} /\ IsFiniteSet(S) /\ ~\E m \in S : \A n \in S : m >= n
            N == {n \in Nat : \E S \in SUBSET Nat : Lacks(S) /\ Cardinality(S) = n}
<1>1. SUFFICES ASSUME Lacks(T) PROVE FALSE OBVIOUS
<1>2. N \in SUBSET Nat /\ N # {}
  <2>1. Cardinality(T) \in Nat BY FS_CardinalityType
  <2>. QED BY <1>1, <2>1
<1>3. PICK n \in N : \A m \in N : n <= m BY <1>2, LeastNumber
<1>4. PICK S \in SUBSET Nat : Lacks(S) /\ Cardinality(S) = n BY <1>3
<1>5. PICK x \in S : TRUE BY <1>4
<1>. DEFINE R == S \ {x}
<1>6. IsFiniteSet(R) /\ Cardinality(R) = n - 1 /\ n \in Nat /\ R \in SUBSET Nat
  BY <1>3, <1>4, <1>5, FS_RemoveElement
<1>7. n - 1 \in Nat
  <2>1. n # 0 BY <1>4, FS_EmptySet
  <2>. QED BY <1>6, <2>1
<1>8. ~Lacks(R)
  <2>1. n - 1 \notin N BY <1>3, <1>6, <1>7
  <2>. QED BY <1>6, <1>7, <2>1
<1>9. CASE R = {}
  <2>1. S = {x} /\ x \in Nat BY <1>5, <1>9
  <2>2. \A y \in S : x >= y BY <2>1
  <2>. QED BY <1>4, <1>5, <2>2
<1>10. CASE R # {}
  <2>1. PICK m \in R : \A y \in R : m >= y BY <1>6, <1>8, <1>10
  <2>2. m \in Nat /\ x \in Nat /\ m \in S /\ S = R \cup {x} BY <1>5, <2>1
  <2>3. CASE m >= x
    <3>1. \A y \in S : m >= y BY <2>1, <2>2, <2>3
    <3>. QED BY <1>4, <2>2, <3>1
  <2>4. CASE x >= m
    <3>1. \A y \in S : x >= y BY <2>1, <2>2, <2>4
    <3>. QED BY <1>4, <1>5, <3>1
  <2>. QED BY <2>2, <2>3, <2>4
<1>. QED BY <1>9, <1>10

LEMMA MaxIs ==
    ASSUME NEW T \in SUBSET Nat, NEW x \in T, \A y \in T : x >= y PROVE Stored!Max(T) = x
<1>1. Stored!Max(T) \in T /\ \A y \in T : Stored!Max(T) >= y BY DEF Stored!Max
<1>2. Stored!Max(T) \in Nat /\ x \in Nat /\ Stored!Max(T) >= x /\ x >= Stored!Max(T) BY <1>1
<1>. QED BY <1>2

LEMMA MaxOf ==
    ASSUME NEW T \in SUBSET Nat, IsFiniteSet(T), T # {}
    PROVE  Stored!Max(T) \in T /\ \A y \in T : Stored!Max(T) >= y
<1>1. PICK m \in T : \A n \in T : m >= n BY HasGreatest
<1>. QED BY <1>1, MaxIs

\* Numbers from 1 on, without a gap, are as many as what they are of.
LEMMA VersionsCount ==
    ASSUME NEW S, IsFiniteSet(S), \A r \in S : r.version \in Nat /\ r.version >= 1,
           \A r, s \in S : r.version = s.version => r = s,
           \A r \in S : \A v \in 1 .. r.version : \E s \in S : s.version = v
    PROVE  {r.version : r \in S} = 1 .. Cardinality(S)
<1>. DEFINE V == {r.version : r \in S}
            f == [r \in S |-> r.version]
<1>1. f \in Surjection(S, V) /\ f \in Injection(S, V)
  BY DEF Surjection, Injection, IsInjective
<1>2. IsFiniteSet(V) /\ Cardinality(V) = Cardinality(S) BY <1>1, FS_Surjection
<1>3. V \in SUBSET Nat OBVIOUS
<1>4. CASE S = {}
  <2>1. V = {} /\ Cardinality(S) = 0 BY <1>4, FS_EmptySet
  <2>. QED BY <2>1
<1>5. CASE S # {}
  <2>1. V # {} BY <1>5
  <2>. HIDE DEF f
  <2>2. PICK m \in V : \A n \in V : m >= n BY <1>2, <1>3, <2>1, HasGreatest
  <2>3. m \in Nat /\ m >= 1 BY <2>2
  <2>4. V = 1 .. m
    <3>1. ASSUME NEW n \in V PROVE n \in 1 .. m BY <2>2, <2>3
    <3>2. ASSUME NEW n \in 1 .. m PROVE n \in V
      <4>1. PICK r \in S : m = r.version BY <2>2
      <4>2. PICK s \in S : s.version = n BY <3>2, <4>1
      <4>. QED BY <4>2
    <3>. QED BY <3>1, <3>2
  <2>. HIDE DEF V
  <2>5. Cardinality(1 .. m) = m BY <2>3, FS_Interval
  <2>6. V = 1 .. Cardinality(S) BY <1>2, <2>4, <2>5
  <2>. QED BY <2>6 DEF V
<1>. QED BY <1>4, <1>5

LEMMA StoredFinite == \A S : Stored!IsFiniteSet(S) <=> IsFiniteSet(S)
BY DEF Stored!IsFiniteSet, IsFiniteSet

\* What a transaction is about to place is the next of its aggregate.
IsNext(t, rows) ==
    t.pc = "inserting" =>
        /\ Head(t.new).version >= 1
        /\ Stored!HasVersions(rows, Head(t.new).aggregate, Head(t.new).version - 1)

LEMMA VersionsParts ==
    Stored!VersionsInv <=>
        /\ Stored!Complete(v2)
        /\ \A c \in Clients : Stored!Complete(v2 \cup v4[c].rows) /\ IsNext(v4[c], v2 \cup v4[c].rows)
        /\ \A c \in Clients : \A d \in Clients \ {c} :
               \A r \in v4[c].rows, s \in v4[d].rows : ~Stored!SameVersion(r, s)
BY DEF Stored!VersionsInv, IsNext, Stored!Seen

LEMMA MoreHas ==
    ASSUME NEW rows, NEW more, rows \subseteq more, NEW t
    PROVE  /\ \A a, n : Stored!HasVersions(rows, a, n) => Stored!HasVersions(more, a, n)
           /\ IsNext(t, rows) => IsNext(t, more)
BY DEF Stored!HasVersions, IsNext

LEMMA CompleteTogether ==
    ASSUME NEW A, NEW B, Stored!Complete(A), Stored!Complete(B),
           \A r \in A, s \in B : Stored!SameVersion(r, s) => r = s
    PROVE  Stored!Complete(A \cup B)
<1>1. IsFiniteSet(A \cup B)
  <2>1. IsFiniteSet(A) /\ IsFiniteSet(B) BY StoredFinite DEF Stored!Complete
  <2>. QED BY <2>1, FS_Union
<1>2. ASSUME NEW r \in A \cup B, NEW s \in A \cup B, Stored!SameVersion(r, s) PROVE r = s
  <2>1. Stored!SameVersion(s, r) BY <1>2 DEF Stored!SameVersion
  <2>. QED BY <1>2, <2>1 DEF Stored!Complete
<1>3. A \subseteq A \cup B /\ B \subseteq A \cup B OBVIOUS
<1>4. ASSUME NEW r \in A \cup B
      PROVE  r.version >= 1 /\ Stored!HasVersions(A \cup B, r.aggregate, r.version)
  BY <1>3, <1>4, MoreHas DEF Stored!Complete
<1>. QED BY <1>1, <1>2, <1>4, StoredFinite DEF Stored!Complete

LEMMA CompleteMore ==
    ASSUME NEW A, NEW row, Stored!Complete(A), row.version \in Nat, row.version >= 1,
           Stored!HasVersions(A, row.aggregate, row.version - 1),
           \A r \in A : ~Stored!SameVersion(r, row)
    PROVE  Stored!Complete(A \cup {row})
<1>1. IsFiniteSet(A \cup {row})
  <2>1. IsFiniteSet(A) BY StoredFinite DEF Stored!Complete
  <2>. QED BY <2>1, FS_AddElement
<1>2. ASSUME NEW r \in A \cup {row}, NEW s \in A \cup {row}, Stored!SameVersion(r, s) PROVE r = s
  <2>1. Stored!SameVersion(s, r) BY <1>2 DEF Stored!SameVersion
  <2>. QED BY <1>2, <2>1 DEF Stored!Complete
<1>3. A \subseteq A \cup {row} OBVIOUS
<1>4. ASSUME NEW r \in A
      PROVE  r.version >= 1 /\ Stored!HasVersions(A \cup {row}, r.aggregate, r.version)
  BY <1>3, <1>4, MoreHas DEF Stored!Complete
<1>5. Stored!HasVersions(A \cup {row}, row.aggregate, row.version)
  <2>1. ASSUME NEW v \in 1 .. row.version
        PROVE  \E r \in A \cup {row} : r.aggregate = row.aggregate /\ r.version = v
    <3>1. v = row.version \/ v \in 1 .. row.version - 1 BY <2>1
    <3>. QED BY <3>1 DEF Stored!HasVersions
  <2>. QED BY <2>1 DEF Stored!HasVersions
<1>. QED BY <1>1, <1>2, <1>4, <1>5, StoredFinite DEF Stored!Complete

LEMMA VersionsStart == ASSUME Stored!SchemaInit PROVE Stored!VersionsInv
<1>1. /\ v2 = {} /\ \A c \in Clients : v4[c].pc = "none" /\ v4[c].rows = {}
  BY DEF Stored!SchemaInit, Stored!Unborn
<1>2. Stored!Complete({})
  BY FS_EmptySet, StoredFinite DEF Stored!Complete
<1>. QED BY <1>1, <1>2, VersionsParts DEF IsNext

\* A transaction goes on, and nothing is committed.
LEMMA VersionsMoves ==
    ASSUME Stored!SchemaInv, Stored!VersionsInv, NEW c \in Clients, NEW t,
           v4' = [v4 EXCEPT ![c] = t], v2' = v2,
           Stored!Complete(v2 \cup t.rows), IsNext(t, v2 \cup t.rows),
           \A d \in Clients \ {c} : \A r \in t.rows, s \in v4[d].rows : ~Stored!SameVersion(r, s)
    PROVE  Stored!VersionsInv'
<1>1. v4 \in [Clients -> Stored!Transactions] BY DEF Stored!SchemaInv
<1>2. v4'[c] = t /\ \A d \in Clients \ {c} : v4'[d] = v4[d] BY <1>1
<1>3. /\ Stored!Complete(v2)
      /\ \A d \in Clients : Stored!Complete(v2 \cup v4[d].rows) /\ IsNext(v4[d], v2 \cup v4[d].rows)
      /\ \A e \in Clients : \A d \in Clients \ {e} :
             \A r \in v4[e].rows, s \in v4[d].rows : ~Stored!SameVersion(r, s)
  BY VersionsParts
<1>4. \A d \in Clients : Stored!Complete(v2 \cup v4'[d].rows) /\ IsNext(v4'[d], v2 \cup v4'[d].rows)
  BY <1>2, <1>3
<1>5. ASSUME NEW e \in Clients, NEW d \in Clients \ {e}, NEW r \in v4'[e].rows, NEW s \in v4'[d].rows
      PROVE  ~Stored!SameVersion(r, s)
  <2>1. CASE e = c BY <1>2, <2>1
  <2>2. CASE d = c
    <3>1. ~Stored!SameVersion(s, r) BY <1>2, <2>2
    <3>. QED BY <3>1 DEF Stored!SameVersion
  <2>3. CASE e # c /\ d # c BY <1>2, <1>3, <2>3
  <2>. QED BY <2>1, <2>2, <2>3
<1>. QED BY <1>3, <1>4, <1>5 DEF Stored!VersionsInv, Stored!Seen, IsNext

\* What a transaction has written is committed.
LEMMA VersionsCommit ==
    ASSUME Stored!SchemaInv, Stored!VersionsInv, NEW c \in Clients, NEW t,
           v4' = [v4 EXCEPT ![c] = t], v2' = v2 \cup v4[c].rows, t.rows = {}, t.pc # "inserting"
    PROVE  Stored!VersionsInv'
<1>1. v4 \in [Clients -> Stored!Transactions] BY DEF Stored!SchemaInv
<1>2. v4'[c] = t /\ \A d \in Clients \ {c} : v4'[d] = v4[d] BY <1>1
<1>3. /\ Stored!Complete(v2)
      /\ \A d \in Clients : Stored!Complete(v2 \cup v4[d].rows) /\ IsNext(v4[d], v2 \cup v4[d].rows)
      /\ \A e \in Clients : \A d \in Clients \ {e} :
             \A r \in v4[e].rows, s \in v4[d].rows : ~Stored!SameVersion(r, s)
  BY VersionsParts
<1>4. Stored!Complete(v2') BY <1>3
<1>5. ASSUME NEW d \in Clients PROVE Stored!Complete(v2' \cup v4'[d].rows) /\ IsNext(v4'[d], v2' \cup v4'[d].rows)
  <2>1. CASE d = c
    <3>1. v2' \cup v4'[d].rows = v2' BY <1>2, <2>1
    <3>. QED BY <1>2, <1>4, <2>1, <3>1 DEF IsNext
  <2>2. CASE d # c
    <3>. DEFINE A == v2 \cup v4[c].rows
                B == v2 \cup v4[d].rows
    <3>1. v2' \cup v4'[d].rows = A \cup B /\ v4'[d] = v4[d] BY <1>2, <2>2
    <3>2. ASSUME NEW r \in A, NEW s \in B, Stored!SameVersion(r, s) PROVE r = s
      <4>1. CASE r \in v2 /\ s \in B BY <1>3, <3>2, <4>1 DEF Stored!Complete
      <4>2. CASE s \in v2 BY <1>3, <3>2, <4>2 DEF Stored!Complete
      <4>3. CASE r \in v4[c].rows /\ s \in v4[d].rows BY <1>3, <2>2, <3>2, <4>3
      <4>. QED BY <4>1, <4>2, <4>3
    <3>3. Stored!Complete(A) /\ Stored!Complete(B) /\ IsNext(v4[d], B) BY <1>3
    <3>. HIDE DEF A, B
    <3>4. Stored!Complete(A \cup B) BY <3>2, <3>3, CompleteTogether
    <3>5. IsNext(v4[d], A \cup B)
      <4>1. B \subseteq A \cup B OBVIOUS
      <4>. QED BY <3>3, <4>1, MoreHas
    <3>. QED BY <3>1, <3>4, <3>5
  <2>. QED BY <2>1, <2>2
<1>6. ASSUME NEW e \in Clients, NEW d \in Clients \ {e}, NEW r \in v4'[e].rows, NEW s \in v4'[d].rows
      PROVE  ~Stored!SameVersion(r, s)
  <2>1. e # c /\ d # c BY <1>2, <1>6
  <2>. QED BY <1>2, <1>3, <1>6, <2>1
<1>. QED BY <1>4, <1>5, <1>6 DEF Stored!VersionsInv, Stored!Seen, IsNext

\* A transaction holds fewer rows, or the ones it had, and is about to place none.
LEMMA VersionsStay ==
    ASSUME Stored!SchemaInv, Stored!VersionsInv, NEW c \in Clients, NEW t,
           v4' = [v4 EXCEPT ![c] = t], v2' = v2, t.pc # "inserting",
           t.rows = {} \/ t.rows = v4[c].rows
    PROVE  Stored!VersionsInv'
<1>1. /\ Stored!Complete(v2) /\ Stored!Complete(v2 \cup v4[c].rows)
      /\ \A d \in Clients \ {c} : \A r \in v4[c].rows, s \in v4[d].rows : ~Stored!SameVersion(r, s)
  BY VersionsParts
<1>2. CASE t.rows = {}
  <2>1. v2 \cup t.rows = v2 BY <1>2
  <2>2. Stored!Complete(v2 \cup t.rows) BY <1>1, <2>1
  <2>. QED BY <1>2, <2>2, VersionsMoves DEF IsNext
<1>3. CASE t.rows = v4[c].rows
  <2>1. Stored!Complete(v2 \cup t.rows) BY <1>1, <1>3
  <2>. QED BY <1>1, <1>3, <2>1, VersionsMoves DEF IsNext
<1>. QED BY <1>2, <1>3

LEMMA RowsAreNumbered ==
    ASSUME NEW r \in Stored!Rows PROVE r.version \in Nat /\ r.sequence \in Nat
BY GuardsAssumption DEF Stored!Rows

\* The version that the trigger lets in.
LEMMA NextVersion ==
    ASSUME NEW S \in SUBSET Stored!Rows, Stored!Complete(S), NEW a,
           NEW v, v = Stored!MaxVersion({r \in S : r.aggregate = a}) + 1
    PROVE  v >= 1 /\ Stored!HasVersions(S, a, v - 1)
<1>. DEFINE R == {r \in S : r.aggregate = a}
            V == {r.version : r \in R}
            T == V \cup {0}
<1>1. IsFiniteSet(R)
  <2>1. IsFiniteSet(S) BY StoredFinite DEF Stored!Complete
  <2>. QED BY <2>1, FS_Subset
<1>2. IsFiniteSet(V) /\ V \in SUBSET Nat
  <2>. DEFINE f == [r \in R |-> r.version]
  <2>1. f \in Surjection(R, V) BY DEF Surjection
  <2>. HIDE DEF f
  <2>2. IsFiniteSet(V) BY <1>1, <2>1, FS_Surjection
  <2>. QED BY <2>2, RowsAreNumbered
<1>3. \A n \in V : Stored!HasVersions(S, a, n) BY DEF Stored!Complete
<1>4. v = Stored!Max(T) + 1 BY DEF Stored!MaxVersion
<1>. HIDE DEF V
<1>5. IsFiniteSet(T) /\ T \in SUBSET Nat /\ T # {} BY <1>2, FS_AddElement
<1>6. Stored!Max(T) \in T BY <1>5, MaxOf
<1>7. Stored!HasVersions(S, a, 0) BY DEF Stored!HasVersions
<1>8. Stored!HasVersions(S, a, Stored!Max(T)) /\ Stored!Max(T) \in Nat BY <1>3, <1>5, <1>6, <1>7
<1>9. v - 1 = Stored!Max(T) /\ v >= 1 BY <1>4, <1>8
<1>. QED BY <1>8, <1>9

LEMMA VersionsKeep ==
    ASSUME Stored!SchemaInv, Stored!VersionsInv, Stored!SchemaNext PROVE Stored!VersionsInv'
<1>1. v4 \in [Clients -> Stored!Transactions] /\ v2 \subseteq Stored!Rows /\ v3 \in Nat
  BY DEF Stored!SchemaInv
<1>2. /\ \A c \in Clients : Stored!Complete(v2 \cup v4[c].rows) /\ IsNext(v4[c], v2 \cup v4[c].rows)
      /\ \A c \in Clients : \A d \in Clients \ {c} :
             \A r \in v4[c].rows, s \in v4[d].rows : ~Stored!SameVersion(r, s)
  BY VersionsParts
<1>3. CASE Stored!Tick
  <2>1. UNCHANGED <<v2, v4>> BY <1>3 DEF Stored!Tick
  <2>. QED BY <2>1 DEF Stored!VersionsInv, Stored!Seen
<1>4. ASSUME NEW c \in Clients, Stored!Begin(c) PROVE Stored!VersionsInv'
  <2>. DEFINE t == [v4[c] EXCEPT !.pc = "open", !.at = v1]
  <2>1. v4' = [v4 EXCEPT ![c] = t] /\ v2' = v2 BY <1>4 DEF Stored!Begin
  <2>2. t.pc # "inserting" /\ t.rows = v4[c].rows BY <1>1 DEF Stored!Transactions
  <2>. HIDE DEF t
  <2>. QED BY <2>1, <2>2, VersionsStay
<1>5. ASSUME NEW c \in Clients, Stored!RollBack(c), v2' = v2 PROVE Stored!VersionsInv'
  <2>. DEFINE t == [v4[c] EXCEPT !.pc = "ended", !.rows = {}, !.new = <<>>]
  <2>1. v4' = [v4 EXCEPT ![c] = t] /\ v2' = v2 BY <1>5 DEF Stored!RollBack
  <2>2. t.pc # "inserting" /\ t.rows = {} BY <1>1 DEF Stored!Transactions
  <2>. HIDE DEF t
  <2>. QED BY <2>1, <2>2, VersionsStay
<1>6. ASSUME NEW c \in Clients, Stored!Abandon(c) \/ Stored!ChangeOrDelete(c)
      PROVE  Stored!VersionsInv'
  BY <1>5, <1>6 DEF Stored!Abandon, Stored!ChangeOrDelete
<1>7. ASSUME NEW c \in Clients, NEW a \in Aggregates, NEW v \in Versions,
             NEW previous \in 0 .. v3, Stored!Insert(c, a, v, previous)
      PROVE  Stored!VersionsInv'
  <2>. DEFINE row == [sequence |-> v3 + 1, at |-> v4[c].at, aggregate |-> a,
                      version |-> v, previous |-> previous]
              t == [v4[c] EXCEPT !.pc = "inserting", !.new = <<row>>]
              S == v2 \cup v4[c].rows
  <2>1. v2' = v2 BY <1>7 DEF Stored!Insert
  <2>2. CASE Stored!RollBack(c) BY <1>5, <2>1, <2>2
  <2>3. CASE v4' = [v4 EXCEPT ![c] = t] /\ Stored!VerifyAggregateVersion(c, row)
    <3>1. row.aggregate = a /\ row.version = v OBVIOUS
    <3>2. v = Stored!MaxVersion({r \in S : r.aggregate = a}) + 1
      BY <2>3, <3>1 DEF Stored!VerifyAggregateVersion, Stored!Seen
    <3>3. v >= 1 /\ Stored!HasVersions(S, a, v - 1)
      <4>1. S \subseteq Stored!Rows BY <1>1 DEF Stored!Transactions
      <4>2. Stored!Complete(S) BY <1>2
      <4>. HIDE DEF S
      <4>. QED BY <3>2, <4>1, <4>2, NextVersion
    <3>4. Head(<<row>>) = row OBVIOUS
    <3>. HIDE DEF row
    <3>5. t.pc = "inserting" /\ t.rows = v4[c].rows /\ t.new = <<row>>
      BY <1>1 DEF Stored!Transactions
    <3>6. IsNext(t, S) BY <3>1, <3>3, <3>4, <3>5 DEF IsNext
    <3>7. Stored!Complete(v2 \cup t.rows) /\ IsNext(t, v2 \cup t.rows) BY <1>2, <3>5, <3>6
    <3>. HIDE DEF t
    <3>. QED BY <1>2, <2>1, <2>3, <3>5, <3>7, VersionsMoves
  <2>. QED BY <1>7, <2>2, <2>3 DEF Stored!Insert
<1>8. ASSUME NEW c \in Clients, Stored!Place(c) PROVE Stored!VersionsInv'
  <2>. DEFINE row == Head(v4[c].new)
              t == [v4[c] EXCEPT !.pc = "open", !.new = <<>>, !.rows = v4[c].rows \cup {row}]
              S == v2 \cup v4[c].rows
  <2>1. v2' = v2 /\ v4[c].pc = "inserting" BY <1>8 DEF Stored!Place
  <2>2. CASE Stored!RollBack(c) BY <1>5, <2>1, <2>2
  <2>3. CASE v4' = [v4 EXCEPT ![c] = t] /\ \A r \in S : ~Stored!SameVersion(r, row)
    <3>1. row \in Stored!Rows
      <4>1. v4[c].new \in Seq(Stored!Rows) /\ v4[c].new # <<>>
        BY <1>1, <2>1 DEF Stored!Transactions, Stored!SchemaInv
      <4>. QED BY <4>1
    <3>2. row.version \in Nat /\ row.version >= 1 /\ Stored!HasVersions(S, row.aggregate, row.version - 1)
      <4>1. IsNext(v4[c], S) BY <1>2
      <4>2. row.version >= 1 /\ Stored!HasVersions(S, row.aggregate, row.version - 1)
        BY <2>1, <4>1 DEF IsNext
      <4>3. row.version \in Nat BY <3>1, RowsAreNumbered
      <4>. QED BY <4>2, <4>3
    <3>3. Stored!Complete(S) BY <1>2
    <3>4. \A d \in Clients \ {c} : \A s \in v4[d].rows : ~Stored!SameVersion(row, s)
      <4>1. \A d \in Clients \ {c} : \A s \in v4[d].rows : ~Stored!SameVersion(s, row)
        BY <1>8 DEF Stored!Place, Stored!SameVersion
      <4>. QED BY <4>1 DEF Stored!SameVersion
    <3>. HIDE DEF row
    <3>5. t.pc = "open" /\ t.rows = v4[c].rows \cup {row} BY <1>1 DEF Stored!Transactions
    <3>. HIDE DEF t, S
    <3>6. Stored!Complete(S \cup {row}) BY <2>3, <3>2, <3>3, CompleteMore
    <3>7. v2 \cup t.rows = S \cup {row} BY <3>5 DEF S
    <3>8. Stored!Complete(v2 \cup t.rows) /\ IsNext(t, v2 \cup t.rows)
      BY <3>5, <3>6, <3>7 DEF IsNext
    <3>9. \A d \in Clients \ {c} : \A r \in t.rows, s \in v4[d].rows : ~Stored!SameVersion(r, s)
      BY <1>2, <3>4, <3>5
    <3>. QED BY <2>1, <2>3, <3>8, <3>9, VersionsMoves
  <2>. QED BY <1>8, <2>2, <2>3 DEF Stored!Place, Stored!Seen, Stored!SameVersion
<1>9. ASSUME NEW c \in Clients, Stored!Commit(c) PROVE Stored!VersionsInv'
  <2>. DEFINE t == [v4[c] EXCEPT !.pc = "ended", !.rows = {}]
  <2>1. v4' = [v4 EXCEPT ![c] = t] /\ v2' = v2 \cup v4[c].rows BY <1>9 DEF Stored!Commit
  <2>2. t.pc # "inserting" /\ t.rows = {} BY <1>1 DEF Stored!Transactions
  <2>. HIDE DEF t
  <2>. QED BY <2>1, <2>2, VersionsCommit
<1>. QED BY <1>3, <1>4, <1>6, <1>7, <1>8, <1>9 DEF Stored!SchemaNext

LEMMA VersionsHold ==
    ASSUME Stored!SchemaInv, Stored!VersionsInv PROVE Stored!VersionsAreSequential
<1>1. Stored!Complete(v2) /\ v2 \subseteq Stored!Rows BY VersionsParts DEF Stored!SchemaInv
<1>2. ASSUME NEW a \in Aggregates
      PROVE  LET rows == {r \in v2 : r.aggregate = a}
             IN {r.version : r \in rows} = 1 .. Stored!Cardinality(rows)
  <2>. DEFINE R == {r \in v2 : r.aggregate = a}
  <2>1. IsFiniteSet(R)
    <3>1. IsFiniteSet(v2) BY <1>1, StoredFinite DEF Stored!Complete
    <3>. QED BY <3>1, FS_Subset
  <2>2. \A r \in R : r.version \in Nat /\ r.version >= 1
    BY <1>1, RowsAreNumbered DEF Stored!Complete
  <2>3. \A r, s \in R : r.version = s.version => r = s
    BY <1>1 DEF Stored!Complete, Stored!SameVersion
  <2>4. \A r \in R : \A v \in 1 .. r.version : \E s \in R : s.version = v
    BY <1>1 DEF Stored!Complete, Stored!HasVersions
  <2>. HIDE DEF R
  <2>5. {r.version : r \in R} = 1 .. Cardinality(R) BY <2>1, <2>2, <2>3, <2>4, VersionsCount
  <2>6. {r.version : r \in R} = 1 .. Stored!Cardinality(R) BY <2>5, StoredCardinality
  <2>. QED BY <2>6 DEF R
<1>. QED BY <1>2 DEF Stored!VersionsAreSequential

\* The rows a transaction has, and the one it is about to place.
HasOf(t) == t.rows \cup Stored!Range(t.new)

\* Rows that have numbers of their own.
Numbered(rows, n) ==
    /\ \A r \in rows : r.sequence \in 1 .. n
    /\ \A r, s \in rows : r.sequence = s.sequence => r = s

\* What holds of the one transaction that is open.
Links(t, rows) ==
    /\ Stored!Chained(rows)
    /\ t.pc = "inserting" =>
           /\ Head(t.new).previous = Stored!LastHash(rows)
           /\ \A r \in rows : r.sequence < Head(t.new).sequence

Cleared(t) ==
    /\ t.pc \in {"none", "ended"} => t.rows = {}
    /\ t.pc # "inserting" => t.new = <<>>

Opened(t) == t.pc \in {"open", "inserting"}
Held == v2 \cup UNION {HasOf(v4[c]) : c \in Clients}

LEMMA ChainParts ==
    Stored!ChainInv <=>
        /\ \A c \in Clients : Cleared(v4[c])
        /\ Numbered(Held, v3)
        /\ ~v5 => /\ Stored!Chained(v2)
                  /\ \A c \in Clients : Opened(v4[c]) =>
                         /\ \A d \in Clients : Opened(v4[d]) => d = c
                         /\ Links(v4[c], v2 \cup v4[c].rows)
BY DEF Stored!ChainInv, Stored!Open, Stored!Seen, Numbered, Held, HasOf, Links, Opened, Cleared

LEMMA ChainStart == ASSUME Stored!SchemaInit PROVE Stored!ChainInv
<1>1. /\ v2 = {} /\ v3 = 0
      /\ \A c \in Clients : v4[c].pc = "none" /\ v4[c].rows = {} /\ v4[c].new = <<>>
  BY DEF Stored!SchemaInit, Stored!Unborn
<1>2. \A c \in Clients : HasOf(v4[c]) = {} BY <1>1 DEF HasOf, Stored!Range
<1>3. Held = {} BY <1>1, <1>2 DEF Held
<1>. QED BY <1>1, <1>3, ChainParts DEF Numbered, Opened, Cleared, Stored!Chained

\* A row more, after all that are there, is linked to the last of them.
LEMMA ChainGrows ==
    ASSUME NEW S, NEW row, Stored!Chained(S), row.previous = Stored!LastHash(S),
           row.sequence \in Nat, \A r \in S : r.sequence \in Nat /\ r.sequence < row.sequence
    PROVE  Stored!Chained(S \cup {row})
<1>. DEFINE Before(r) == {s \in S \cup {row} : s.sequence < r.sequence}
<1>1. Before(row) = S OBVIOUS
<1>2. \A r \in S : Before(r) = {s \in S : s.sequence < r.sequence} OBVIOUS
<1>3. \A r \in S \cup {row} : r.previous = Stored!LastHash(Before(r))
  BY <1>1, <1>2 DEF Stored!Chained
<1>. QED BY <1>3 DEF Stored!Chained

\* A step of one transaction: it holds no row that was not there before, but
\* for one of a new number.
LEMMA ChainMoves ==
    ASSUME Stored!SchemaInv, Stored!ChainInv, NEW c \in Clients, NEW t,
           v4' = [v4 EXCEPT ![c] = t], v2' \subseteq v2 \cup v4[c].rows, v3' \in Nat, v3' >= v3,
           \/ HasOf(t) \subseteq HasOf(v4[c])
           \/ \E row : /\ HasOf(t) \subseteq HasOf(v4[c]) \cup {row}
                       /\ row.sequence = v3 + 1 /\ v3' = v3 + 1,
           Cleared(t)
    PROVE  /\ \A d \in Clients : Cleared(v4'[d])
           /\ Numbered(Held', v3')
<1>1. v4 \in [Clients -> Stored!Transactions] /\ v3 \in Nat BY DEF Stored!SchemaInv
<1>2. v4'[c] = t /\ \A d \in Clients \ {c} : v4'[d] = v4[d] BY <1>1
<1>3. /\ \A d \in Clients : Cleared(v4[d])
      /\ Numbered(Held, v3)
  BY ChainParts
<1>4. v2 \cup v4[c].rows \subseteq Held /\ \A d \in Clients : HasOf(v4[d]) \subseteq Held
  BY DEF Held, HasOf
<1>5. Held' = v2' \cup UNION {HasOf(v4'[d]) : d \in Clients} BY DEF Held, HasOf, Stored!Range
<1>6. CASE HasOf(t) \subseteq HasOf(v4[c])
  <2>1. \A d \in Clients : HasOf(v4'[d]) \subseteq Held BY <1>2, <1>4, <1>6
  <2>2. Held' \subseteq Held BY <1>4, <1>5, <2>1
  <2>3. \A i \in 1 .. v3 : i \in 1 .. v3' BY <1>1
  <2>. QED BY <1>2, <1>3, <2>2, <2>3 DEF Numbered
<1>7. ASSUME NEW row, HasOf(t) \subseteq HasOf(v4[c]) \cup {row}, row.sequence = v3 + 1, v3' = v3 + 1
      PROVE  Numbered(Held', v3')
  <2>1. \A d \in Clients : HasOf(v4'[d]) \subseteq Held \cup {row} BY <1>2, <1>4, <1>7
  <2>2. Held' \subseteq Held \cup {row} BY <1>4, <1>5, <2>1
  <2>3. \A r \in Held : r.sequence \in 1 .. v3' /\ r.sequence # row.sequence
    BY <1>1, <1>3, <1>7 DEF Numbered
  <2>4. row.sequence \in 1 .. v3' BY <1>1, <1>7
  <2>. QED BY <1>3, <2>2, <2>3, <2>4 DEF Numbered
<1>. QED BY <1>2, <1>3, <1>6, <1>7

LEMMA ChainPrimed ==
    ASSUME \A c \in Clients : Cleared(v4'[c]), Numbered(Held', v3'),
           ~v5' => /\ Stored!Chained(v2')
                   /\ \A c \in Clients : Opened(v4'[c]) =>
                          /\ \A d \in Clients : Opened(v4'[d]) => d = c
                          /\ Links(v4'[c], v2' \cup v4'[c].rows)
    PROVE  Stored!ChainInv'
BY DEF Stored!ChainInv, Stored!Open, Stored!Seen, Numbered, Held, HasOf, Links, Opened, Cleared,
       Stored!Range, Stored!Chained

\* And no other is open, unless two have met.
LEMMA ChainAlone ==
    ASSUME Stored!SchemaInv, Stored!ChainInv, NEW c \in Clients, NEW t, Opened(v4[c]),
           v4' = [v4 EXCEPT ![c] = t], v2' = v2 \/ v2' = v2 \cup v4[c].rows, v3' \in Nat, v3' >= v3,
           \/ HasOf(t) \subseteq HasOf(v4[c])
           \/ \E row : /\ HasOf(t) \subseteq HasOf(v4[c]) \cup {row}
                       /\ row.sequence = v3 + 1 /\ v3' = v3 + 1,
           Cleared(t), v5' = v5,
           ~v5 => Stored!Chained(v2') /\ (Opened(t) => Links(t, v2' \cup t.rows))
    PROVE  Stored!ChainInv'
<1>1. v4 \in [Clients -> Stored!Transactions] BY DEF Stored!SchemaInv
<1>2. v4'[c] = t /\ \A d \in Clients \ {c} : v4'[d] = v4[d] BY <1>1
<1>3. (\A d \in Clients : Cleared(v4'[d])) /\ Numbered(Held', v3')
  <2>1. v2' \subseteq v2 \cup v4[c].rows OBVIOUS
  <2>. QED BY <2>1, ChainMoves
<1>4. ASSUME ~v5'
      PROVE  /\ Stored!Chained(v2')
             /\ \A e \in Clients : Opened(v4'[e]) =>
                    /\ \A d \in Clients : Opened(v4'[d]) => d = e
                    /\ Links(v4'[e], v2' \cup v4'[e].rows)
  <2>1. ~v5 /\ \A d \in Clients : Opened(v4[d]) => d = c BY <1>4, ChainParts
  <2>2. \A d \in Clients : Opened(v4'[d]) => d = c BY <1>2, <2>1
  <2>3. Stored!Chained(v2') /\ (Opened(t) => Links(t, v2' \cup t.rows)) BY <2>1
  <2>. QED BY <1>2, <2>2, <2>3
<1>. QED BY <1>3, <1>4, ChainPrimed

LEMMA ChainKeeps ==
    ASSUME Stored!SchemaInv, Stored!ChainInv, Stored!SchemaNext PROVE Stored!ChainInv'
<1>1. v4 \in [Clients -> Stored!Transactions] /\ v3 \in Nat /\ v3 + 1 \in Nat /\ v3 + 1 >= v3 /\ v3 >= v3
  BY DEF Stored!SchemaInv
<1>2. /\ \A c \in Clients : Cleared(v4[c])
      /\ Numbered(Held, v3)
      /\ ~v5 => /\ Stored!Chained(v2)
                /\ \A c \in Clients : Opened(v4[c]) =>
                       /\ \A d \in Clients : Opened(v4[d]) => d = c
                       /\ Links(v4[c], v2 \cup v4[c].rows)
  BY ChainParts
<1>3. CASE Stored!Tick
  <2>1. UNCHANGED <<v2, v3, v4, v5>> BY <1>3 DEF Stored!Tick
  <2>. QED BY <2>1 DEF Stored!ChainInv, Stored!Open, Stored!Seen, Stored!Range
<1>4. ASSUME NEW c \in Clients, Stored!Begin(c) PROVE Stored!ChainInv'
  <2>. DEFINE t == [v4[c] EXCEPT !.pc = "open", !.at = v1]
  <2>1. /\ v4' = [v4 EXCEPT ![c] = t] /\ v2' = v2 /\ v3' = v3 /\ v4[c].pc = "none"
        /\ v5' = (v5 \/ \E d \in Clients : Opened(v4[d]))
    BY <1>4 DEF Stored!Begin, Stored!Open, Opened
  <2>2. v4[c].rows = {} /\ v4[c].new = <<>> BY <1>2, <2>1 DEF Cleared
  <2>3. t.pc = "open" /\ t.rows = {} /\ t.new = v4[c].new BY <1>1, <2>2 DEF Stored!Transactions
  <2>. HIDE DEF t
  <2>4. HasOf(t) \subseteq HasOf(v4[c]) /\ Cleared(t) BY <2>2, <2>3 DEF HasOf, Cleared
  <2>5. v2' \subseteq v2 \cup v4[c].rows /\ v3' \in Nat /\ v3' >= v3 BY <1>1, <2>1
  <2>6. (\A d \in Clients : Cleared(v4'[d])) /\ Numbered(Held', v3')
    BY <2>1, <2>4, <2>5, ChainMoves
  <2>7. ASSUME ~v5'
        PROVE  /\ Stored!Chained(v2')
               /\ \A e \in Clients : Opened(v4'[e]) =>
                      /\ \A d \in Clients : Opened(v4'[d]) => d = e
                      /\ Links(v4'[e], v2' \cup v4'[e].rows)
    <3>1. ~v5 /\ \A d \in Clients : ~Opened(v4[d]) BY <2>1, <2>7
    <3>2. v4'[c] = t /\ \A d \in Clients \ {c} : v4'[d] = v4[d] BY <1>1, <2>1
    <3>3. Stored!Chained(v2') BY <1>2, <2>1, <3>1
    <3>4. v2' \cup t.rows = v2' BY <2>3
    <3>5. Links(t, v2' \cup t.rows) BY <2>3, <3>3, <3>4 DEF Links
    <3>. QED BY <3>1, <3>2, <3>3, <3>5
  <2>. QED BY <2>6, <2>7, ChainPrimed
<1>5. ASSUME NEW c \in Clients, Stored!RollBack(c), Opened(v4[c]), UNCHANGED <<v2, v5>>,
             v3' = v3 \/ v3' = v3 + 1
      PROVE  Stored!ChainInv'
  <2>. DEFINE t == [v4[c] EXCEPT !.pc = "ended", !.rows = {}, !.new = <<>>]
  <2>1. v4' = [v4 EXCEPT ![c] = t] BY <1>5 DEF Stored!RollBack
  <2>2. t.pc = "ended" /\ t.rows = {} /\ t.new = <<>> BY <1>1 DEF Stored!Transactions
  <2>. HIDE DEF t
  <2>3. HasOf(t) = {} BY <2>2 DEF HasOf, Stored!Range
  <2>4. HasOf(t) \subseteq HasOf(v4[c]) /\ Cleared(t) /\ ~Opened(t) BY <2>2, <2>3 DEF Cleared, Opened
  <2>5. v3' \in Nat /\ v3' >= v3 BY <1>1, <1>5
  <2>6. ~v5 => Stored!Chained(v2') BY <1>2, <1>5
  <2>. QED BY <1>5, <2>1, <2>4, <2>5, <2>6, ChainAlone
<1>6. ASSUME NEW c \in Clients, Stored!Abandon(c) \/ Stored!ChangeOrDelete(c)
      PROVE  Stored!ChainInv'
  BY <1>5, <1>6 DEF Stored!Abandon, Stored!ChangeOrDelete, Stored!Open, Opened
<1>7. ASSUME NEW c \in Clients, NEW a \in Aggregates, NEW v \in Versions,
             NEW previous \in 0 .. v3, Stored!Insert(c, a, v, previous)
      PROVE  Stored!ChainInv'
  <2>. DEFINE row == [sequence |-> v3 + 1, at |-> v4[c].at, aggregate |-> a,
                      version |-> v, previous |-> previous]
              t == [v4[c] EXCEPT !.pc = "inserting", !.new = <<row>>]
              S == v2 \cup v4[c].rows
  <2>1. v2' = v2 /\ v5' = v5 /\ v3' = v3 + 1 /\ Opened(v4[c]) BY <1>7 DEF Stored!Insert, Opened
  <2>2. CASE Stored!RollBack(c) BY <1>5, <2>1, <2>2
  <2>3. CASE v4' = [v4 EXCEPT ![c] = t] /\ Stored!VerifyHashChain(c, row)
    <3>1. row.sequence = v3 + 1 /\ row.previous = Stored!LastHash(S)
      BY <2>3 DEF Stored!VerifyHashChain, Stored!Seen
    <3>2. Head(<<row>>) = row /\ Stored!Range(<<row>>) = {row} BY DEF Stored!Range
    <3>. HIDE DEF row
    <3>3. t.pc = "inserting" /\ t.rows = v4[c].rows /\ t.new = <<row>>
      BY <1>1 DEF Stored!Transactions
    <3>. HIDE DEF t
    <3>4. HasOf(t) \subseteq HasOf(v4[c]) \cup {row} /\ Cleared(t) BY <3>2, <3>3 DEF HasOf, Cleared
    <3>5. \A r \in S : r.sequence < row.sequence
      <4>1. S \subseteq Held BY DEF Held, HasOf
      <4>2. \A r \in S : r.sequence \in 1 .. v3 BY <1>2, <4>1 DEF Numbered
      <4>. QED BY <1>1, <3>1, <4>2
    <3>6. ~v5 => Stored!Chained(v2') /\ Links(t, v2' \cup t.rows)
      <4>1. ASSUME ~v5 PROVE Links(t, S)
        <5>1. Stored!Chained(S) BY <1>2, <2>1, <4>1 DEF Links
        <5>. QED BY <3>1, <3>2, <3>3, <3>5, <5>1 DEF Links
      <4>. QED BY <1>2, <2>1, <3>3, <4>1
    <3>7. \E r : /\ HasOf(t) \subseteq HasOf(v4[c]) \cup {r}
                 /\ r.sequence = v3 + 1 /\ v3' = v3 + 1
      BY <2>1, <3>1, <3>4, Zenon
    <3>8. v3' \in Nat /\ v3' >= v3 BY <1>1, <2>1
    <3>. QED BY <2>1, <2>3, <3>4, <3>6, <3>7, <3>8, ChainAlone
  <2>. QED BY <1>7, <2>2, <2>3 DEF Stored!Insert
<1>8. ASSUME NEW c \in Clients, Stored!Place(c) PROVE Stored!ChainInv'
  <2>. DEFINE row == Head(v4[c].new)
              t == [v4[c] EXCEPT !.pc = "open", !.new = <<>>, !.rows = v4[c].rows \cup {row}]
              S == v2 \cup v4[c].rows
  <2>1. v2' = v2 /\ v5' = v5 /\ v3' = v3 /\ v4[c].pc = "inserting" /\ Opened(v4[c])
    BY <1>8 DEF Stored!Place, Opened
  <2>2. CASE Stored!RollBack(c) BY <1>5, <2>1, <2>2
  <2>3. CASE v4' = [v4 EXCEPT ![c] = t]
    <3>1. row \in Stored!Range(v4[c].new)
      <4>1. v4[c].new \in Seq(Stored!Rows) /\ v4[c].new # <<>>
        BY <1>1, <2>1 DEF Stored!Transactions, Stored!SchemaInv
      <4>. QED BY <4>1 DEF Stored!Range
    <3>2. row \in Held /\ S \subseteq Held BY <3>1 DEF Held, HasOf
    <3>3. row.sequence \in Nat /\ \A r \in S : r.sequence \in Nat
      <4>1. \A r \in Held : r.sequence \in 1 .. v3 BY <1>2 DEF Numbered
      <4>. QED BY <1>1, <3>2, <4>1
    <3>. HIDE DEF S
    <3>4. ~v5 => Stored!Chained(S \cup {row})
      <4>1. ASSUME ~v5
            PROVE  /\ Stored!Chained(S) /\ row.previous = Stored!LastHash(S)
                   /\ \A r \in S : r.sequence < row.sequence
        BY <1>2, <2>1, <4>1 DEF Links, S
      <4>. HIDE DEF row
      <4>. QED BY <3>3, <4>1, ChainGrows
    <3>. HIDE DEF row
    <3>5. t.pc = "open" /\ t.rows = v4[c].rows \cup {row} /\ t.new = <<>>
      BY <1>1 DEF Stored!Transactions
    <3>. HIDE DEF t
    <3>6. Stored!Range(t.new) = {} BY <3>5 DEF Stored!Range
    <3>7. HasOf(t) \subseteq HasOf(v4[c]) /\ Cleared(t) BY <3>1, <3>5, <3>6 DEF HasOf, Cleared
    <3>8. v2' \cup t.rows = S \cup {row} BY <2>1, <3>5 DEF S
    <3>9. ~v5 => Stored!Chained(v2') /\ Links(t, v2' \cup t.rows)
      BY <1>2, <2>1, <3>4, <3>5, <3>8 DEF Links
    <3>10. v3' \in Nat /\ v3' >= v3 BY <1>1, <2>1
    <3>. QED BY <2>1, <2>3, <3>7, <3>9, <3>10, ChainAlone
  <2>. QED BY <1>8, <2>2, <2>3 DEF Stored!Place
<1>9. ASSUME NEW c \in Clients, Stored!Commit(c) PROVE Stored!ChainInv'
  <2>. DEFINE t == [v4[c] EXCEPT !.pc = "ended", !.rows = {}]
  <2>1. /\ v4' = [v4 EXCEPT ![c] = t] /\ v2' = v2 \cup v4[c].rows /\ v3' = v3 /\ v5' = v5
        /\ v4[c].pc = "open" /\ Opened(v4[c])
    BY <1>9 DEF Stored!Commit, Opened
  <2>2. v4[c].new = <<>> BY <1>2, <2>1 DEF Cleared
  <2>3. t.pc = "ended" /\ t.rows = {} /\ t.new = v4[c].new BY <1>1 DEF Stored!Transactions
  <2>. HIDE DEF t
  <2>4. HasOf(t) \subseteq HasOf(v4[c]) /\ Cleared(t) /\ ~Opened(t)
    BY <2>2, <2>3 DEF HasOf, Cleared, Opened
  <2>5. ~v5 => Stored!Chained(v2') BY <1>2, <2>1 DEF Links
  <2>6. v3' \in Nat /\ v3' >= v3 BY <1>1, <2>1
  <2>. QED BY <2>1, <2>4, <2>5, <2>6, ChainAlone
<1>. QED BY <1>3, <1>4, <1>6, <1>7, <1>8, <1>9 DEF Stored!SchemaNext

\* A finite set of rows with numbers of their own has an order by them.
Ascends(f, n) == \A i, j \in 1 .. n : i < j => f[i].sequence < f[j].sequence

LEMMA OrderExists ==
    ASSUME NEW S, IsFiniteSet(S), \A r \in S : r.sequence \in Nat,
           \A r, s \in S : r.sequence = s.sequence => r = s
    PROVE  \E f \in [1 .. Cardinality(S) -> S] : Ascends(f, Cardinality(S))
<1>. DEFINE Lacks(R) == IsFiniteSet(R) /\ ~\E f \in [1 .. Cardinality(R) -> R] : Ascends(f, Cardinality(R))
            N == {n \in Nat : \E R \in SUBSET S : Lacks(R) /\ Cardinality(R) = n}
<1>1. SUFFICES ASSUME Lacks(S) PROVE FALSE OBVIOUS
<1>2. N \in SUBSET Nat /\ N # {}
  <2>1. Cardinality(S) \in Nat BY FS_CardinalityType
  <2>. QED BY <1>1, <2>1
<1>3. PICK n \in N : \A m \in N : n <= m BY <1>2, LeastNumber
<1>4. PICK R \in SUBSET S : Lacks(R) /\ Cardinality(R) = n BY <1>3
<1>5. n \in Nat /\ IsFiniteSet(R) BY <1>3, <1>4
<1>6. CASE R = {}
  <2>1. n = 0 BY <1>4, <1>6, FS_EmptySet
  <2>. DEFINE f == [i \in 1 .. 0 |-> 0]
  <2>2. 1 .. 0 = {} OBVIOUS
  <2>3. f \in [1 .. 0 -> R] /\ Ascends(f, 0) BY <2>2 DEF Ascends
  <2>. HIDE DEF f
  <2>. QED BY <1>4, <2>1, <2>3
<1>7. CASE R # {}
  <2>. DEFINE V == {r.sequence : r \in R}
  <2>1. IsFiniteSet(V) /\ V \in SUBSET Nat /\ V # {}
    <3>. DEFINE f == [r \in R |-> r.sequence]
    <3>1. f \in Surjection(R, V) BY DEF Surjection
    <3>. HIDE DEF f
    <3>2. IsFiniteSet(V) BY <1>5, <3>1, FS_Surjection
    <3>. QED BY <1>7, <3>2
  <2>. HIDE DEF V
  <2>2. PICK m \in V : \A k \in V : m >= k BY <2>1, HasGreatest
  <2>. USE DEF V
  <2>3. PICK x \in R : x.sequence = m BY <2>2
  <2>4. \A r \in R \ {x} : r.sequence < x.sequence
    <3>1. ASSUME NEW r \in R \ {x} PROVE r.sequence < x.sequence
      <4>1. r.sequence # x.sequence /\ r.sequence \in Nat /\ x.sequence \in Nat OBVIOUS
      <4>2. x.sequence >= r.sequence BY <2>2, <2>3
      <4>. QED BY <4>1, <4>2
    <3>. QED BY <3>1
  <2>. HIDE DEF V
  <2>. DEFINE Q == R \ {x}
  <2>5. IsFiniteSet(Q) /\ Cardinality(Q) = n - 1 BY <1>4, <1>5, FS_RemoveElement
  <2>6. n - 1 \in Nat
    <3>1. n # 0 BY <1>4, <1>5, <1>7, FS_EmptySet
    <3>. QED BY <1>5, <3>1
  <2>7. ~Lacks(Q)
    <3>1. n - 1 \notin N BY <1>3, <1>5, <2>6
    <3>2. Q \in SUBSET S OBVIOUS
    <3>. QED BY <2>5, <2>6, <3>1, <3>2
  <2>8. PICK f \in [1 .. n - 1 -> Q] : Ascends(f, n - 1) BY <2>5, <2>7
  <2>. DEFINE g == [i \in 1 .. n |-> IF i = n THEN x ELSE f[i]]
  <2>9. \A i \in 1 .. n : i = n \/ (i \in 1 .. n - 1 /\ i # n) BY <1>5
  <2>10. g \in [1 .. n -> R]
    <3>1. ASSUME NEW i \in 1 .. n PROVE g[i] \in R BY <2>8, <2>9
    <3>. QED BY <3>1
  <2>11. ASSUME NEW i \in 1 .. n, NEW j \in 1 .. n, i < j PROVE g[i].sequence < g[j].sequence
    <3>1. i # n /\ i \in 1 .. n - 1 /\ g[i] = f[i] BY <1>5, <2>9, <2>11
    <3>2. CASE j = n
      <4>1. g[j] = x /\ f[i] \in R \ {x} BY <2>8, <3>1, <3>2
      <4>. QED BY <2>4, <3>1, <4>1
    <3>3. CASE j # n
      <4>1. j \in 1 .. n - 1 /\ g[j] = f[j] BY <2>9, <3>3
      <4>. QED BY <2>8, <2>11, <3>1, <4>1 DEF Ascends
    <3>. QED BY <3>2, <3>3
  <2>12. Ascends(g, n) BY <2>11 DEF Ascends
  <2>. HIDE DEF g
  <2>. QED BY <1>4, <2>10, <2>12
<1>. QED BY <1>6, <1>7

\* What ORDER BY gives: all rows, each once, and before each the lesser ones.
LEMMA OrderIs ==
    ASSUME NEW S, IsFiniteSet(S), \A r \in S : r.sequence \in Nat,
           \A r, s \in S : r.sequence = s.sequence => r = s
    PROVE  LET f == Stored!OrderedBy(S, "sequence")
               n == Cardinality(S)
           IN  /\ n \in Nat /\ DOMAIN f = 1 .. n
               /\ \A i \in 1 .. n : f[i] \in S
               /\ \A r \in S : \E i \in 1 .. n : f[i] = r
               /\ Ascends(f, n)
<1>. DEFINE n == Cardinality(S)
            f == Stored!OrderedBy(S, "sequence")
<1>1. n \in Nat BY FS_CardinalityType
<1>2. PICK g \in [1 .. n -> S] : Ascends(g, n) BY OrderExists
<1>3. n = Stored!Cardinality(S) BY StoredCardinality
<1>. HIDE DEF n
<1>4. g \in [1 .. n -> S] /\ \A i, j \in DOMAIN g : i < j => g[i]["sequence"] < g[j]["sequence"]
  BY <1>2 DEF Ascends
<1>5. f \in [1 .. n -> S] /\ \A i, j \in DOMAIN f : i < j => f[i]["sequence"] < f[j]["sequence"]
  BY <1>3, <1>4 DEF Stored!OrderedBy
<1>. HIDE DEF f
<1>6. Ascends(f, n) BY <1>5 DEF Ascends
<1>7. f \in Injection(1 .. n, S)
  <2>1. ASSUME NEW i \in 1 .. n, NEW j \in 1 .. n, f[i] = f[j] PROVE i = j
    <3>1. f[i].sequence \in Nat /\ f[j].sequence \in Nat /\ i \in Nat /\ j \in Nat BY <1>1, <1>5
    <3>2. ~(i < j) /\ ~(j < i) BY <1>6, <2>1, <3>1 DEF Ascends
    <3>. QED BY <3>1, <3>2
  <2>. QED BY <1>5, <2>1 DEF Injection, IsInjective
<1>8. f \in Surjection(1 .. n, S)
  <2>1. Cardinality(1 .. n) = n BY <1>1, FS_Interval
  <2>2. Cardinality(1 .. n) = Cardinality(S) BY <2>1 DEF n
  <2>. QED BY <1>7, <2>2, FS_Injection
<1>9. \A r \in S : \E i \in 1 .. n : f[i] = r BY <1>8 DEF Surjection
<1>10. DOMAIN f = 1 .. n /\ \A i \in 1 .. n : f[i] \in S BY <1>5
<1>. QED BY <1>1, <1>6, <1>9, <1>10 DEF f, n

\* The function of the file finds a table in order exactly when it is a chain.
LEMMA VerifiesChain ==
    ASSUME Stored!SchemaInv, Stored!VersionsInv, Stored!ChainInv
    PROVE  Stored!VerifyChainIntegrity(1) <=> Stored!Chained(v2)
<1>1. \A r \in v2 : r.sequence \in Nat /\ r.sequence >= 1
  <2>1. \A r \in v2 : r.sequence \in 1 .. v3 BY ChainParts DEF Numbered, Held
  <2>. QED BY <2>1 DEF Stored!SchemaInv
<1>2. \A r, s \in v2 : r.sequence = s.sequence => r = s BY ChainParts DEF Numbered, Held
<1>3. IsFiniteSet(v2) BY StoredFinite, VersionsParts DEF Stored!Complete
<1>. DEFINE n == Cardinality(v2)
            f == Stored!OrderedBy(v2, "sequence")
            Before(i) == IF i = 1 THEN 0 ELSE f[i - 1].sequence
            LastOf(r) == Stored!LastHash({s \in v2 : s.sequence < r.sequence})
<1>4. {r \in v2 : r.sequence >= 1} = v2 BY <1>1
<1>5. /\ n \in Nat /\ DOMAIN f = 1 .. n
      /\ \A i \in 1 .. n : f[i] \in v2
      /\ \A r \in v2 : \E i \in 1 .. n : f[i] = r
      /\ Ascends(f, n)
  BY <1>1, <1>2, <1>3, OrderIs
<1>6. Stored!VerifyChainIntegrity(1) <=> \A i \in DOMAIN f : f[i].previous = Before(i)
  BY <1>4 DEF Stored!VerifyChainIntegrity
<1>. HIDE DEF n, f
<1>7. ASSUME NEW i \in 1 .. n PROVE LastOf(f[i]) = Before(i)
  <2>. DEFINE B == {s \in v2 : s.sequence < f[i].sequence}
              T == {s.sequence : s \in B} \cup {0}
  <2>1. T \in SUBSET Nat BY <1>1
  <2>2. LastOf(f[i]) = Stored!Max(T) BY DEF Stored!LastHash
  <2>3. ASSUME NEW s \in B PROVE \E j \in 1 .. n : j < i /\ s = f[j]
    <3>1. PICK j \in 1 .. n : s = f[j] BY <1>5, <2>3
    <3>2. f[i].sequence \in Nat /\ f[j].sequence \in Nat BY <1>1, <1>5
    <3>3. f[j].sequence < f[i].sequence BY <2>3, <3>1
    <3>4. i # j /\ ~(i < j) BY <1>5, <3>2, <3>3 DEF Ascends
    <3>5. j < i BY <1>5, <3>4
    <3>. QED BY <3>1, <3>5
  <2>4. CASE i = 1
    <3>1. B = {} BY <1>5, <2>3, <2>4
    <3>2. T = {0} BY <3>1
    <3>3. 0 \in T /\ \A y \in T : 0 >= y BY <3>2
    <3>. HIDE DEF T
    <3>4. Stored!Max(T) = 0 BY <2>1, <3>3, MaxIs
    <3>. QED BY <2>2, <2>4, <3>4
  <2>5. CASE i # 1
    <3>1. i - 1 \in 1 .. n /\ i - 1 < i BY <1>5, <2>5
    <3>. DEFINE x == f[i - 1].sequence
    <3>2. f[i - 1] \in B BY <1>5, <3>1 DEF Ascends
    <3>3. x \in T /\ x \in Nat BY <1>1, <3>2
    <3>4. ASSUME NEW s \in B PROVE x >= s.sequence
      <4>1. PICK j \in 1 .. n : j < i /\ s = f[j] BY <2>3
      <4>2. j = i - 1 \/ j < i - 1 BY <1>5, <4>1
      <4>3. s.sequence \in Nat BY <1>1
      <4>4. CASE j = i - 1 BY <3>3, <4>1, <4>3, <4>4
      <4>5. CASE j < i - 1
        <5>1. s.sequence < x BY <1>5, <3>1, <4>1, <4>5 DEF Ascends
        <5>. QED BY <3>3, <4>3, <5>1
      <4>. QED BY <4>2, <4>4, <4>5
    <3>5. \A y \in T : x >= y BY <3>3, <3>4
    <3>. HIDE DEF T, x
    <3>6. Stored!Max(T) = x BY <2>1, <3>3, <3>5, MaxIs
    <3>. QED BY <2>2, <2>5, <3>6 DEF x
  <2>. QED BY <2>4, <2>5
<1>8. Stored!Chained(v2) <=> \A r \in v2 : r.previous = LastOf(r) BY DEF Stored!Chained
<1>. HIDE DEF Before, LastOf
<1>9. (\A i \in 1 .. n : f[i].previous = Before(i)) <=> \A r \in v2 : r.previous = LastOf(r)
  <2>1. ASSUME \A i \in 1 .. n : f[i].previous = Before(i), NEW r \in v2 PROVE r.previous = LastOf(r)
    <3>1. PICK i \in 1 .. n : f[i] = r BY <1>5
    <3>. QED BY <1>7, <2>1, <3>1
  <2>2. ASSUME \A r \in v2 : r.previous = LastOf(r), NEW i \in 1 .. n PROVE f[i].previous = Before(i)
    BY <1>5, <1>7, <2>2
  <2>. QED BY <2>1, <2>2
<1>. QED BY <1>5, <1>6, <1>8, <1>9

LEMMA ChainHolds ==
    ASSUME Stored!SchemaInv, Stored!VersionsInv, Stored!ChainInv PROVE Stored!ChainHoldsApart
<1>1. ~v5 => Stored!Chained(v2) BY ChainParts
<1>. QED BY <1>1, VerifiesChain DEF Stored!ChainHoldsApart, Stored!Chained

-----------------------------------------------------------------------------
(***************************************************************************)
(* The pool of connections: what the invariant says of one call k, whose   *)
(* tables have been m, shadowed (s) or not, when the global pool is p, the *)
(* pools are ps and the tables ts.                                         *)
(***************************************************************************)
Reads(k, m) ==
    /\ \E x \in m : k.listed = {t \in PoolTables : x[t] # "none"}
    /\ DOMAIN k.read \subseteq k.listed
    /\ \A t \in DOMAIN k.read : \E x \in m : x[t] = k.read[t]
    /\ k.pc = "judging" => DOMAIN k.read = k.listed
Judges(k, m) ==
    /\ k.answer = "valid" =>
           /\ \E x \in m : \A t \in PoolTables : x[t] # "none"
           /\ \A t \in PoolCritical : \E x \in m : x[t] # "wrong"
    /\ k.answer = "invalid" =>
           \E x \in m, t \in PoolTables : x[t] = "none" \/ (t \in PoolCritical /\ x[t] = "wrong")
Serves(k, m, p, ps, ts) ==
    /\ p # 0 /\ ps[p].dsn = k.dsn /\ k.on \subseteq {p}
    /\ k.on # {} /\ k.op # "close" => ts[k.dsn] \in m
    /\ k.op = "describe" => Reads(k, m)
Works(k) == k.pc \notin {"idle", "done"}
CallFits(k, m, s, p, ps, ts) ==
    /\ k.on \subseteq DOMAIN ps
    /\ k.pc = "idle" => k.on = {} /\ k.op # "describe"
    /\ k.op # "describe" => DOMAIN k.read = {}
    /\ k.pc = "querying" => p \in k.on
    /\ k.pc = "judging" => k.op = "describe"
    /\ k.pc = "ending" => k.on = {p} /\ ps[p].state = "ending"
    /\ k.pc # "done" => k.answer = ""
    /\ s \/ \A q \in k.on : ps[q].dsn = k.dsn
    /\ s \/ ~Works(k) \/ Serves(k, m, p, ps, ts)
    /\ s \/ Judges(k, m)
PoolFits(p, ps) ==
    /\ ps \in Seq([dsn : PoolDatabases, state : {"open", "ending", "ended"}])
    /\ p \in {0, Len(ps)}
    /\ \A q \in DOMAIN ps : ps[q].state = "ended" <=> q # p

LEMMA PoolParts ==
    ASSUME Stored!PoolInv
    PROVE  /\ PoolFits(v1, v2)
           /\ v3 \in [PoolCalls -> Stored!CallsOfPools]
           /\ v4 \in [PoolDatabases -> Stored!Tabled]
           /\ v5 \in [PoolCalls -> SUBSET Stored!Tabled]
           /\ \A c \in PoolCalls : CallFits(v3[c], v5[c], c \in v6, v1, v2, v4)
           /\ \A c, d \in PoolCalls : v3[c].pc = "ending" /\ v3[d].pc = "ending" => d = c
<1>1. PoolFits(v1, v2) BY DEF Stored!PoolInv, PoolFits
<1>2. ASSUME NEW c \in PoolCalls PROVE CallFits(v3[c], v5[c], c \in v6, v1, v2, v4)
  <2>1. c \notin v6 => Judges(v3[c], v5[c])
    BY <1>2 DEF Stored!PoolInv, Stored!ValidWasThere, Judges
  <2>2. c \notin v6 /\ Works(v3[c]) => Serves(v3[c], v5[c], v1, v2, v4)
    BY <1>2 DEF Stored!PoolInv, Stored!Served, Stored!Described, Serves, Reads, Works
  <2>. QED BY <1>2, <2>1, <2>2 DEF Stored!PoolInv, CallFits
<1>. QED BY <1>1, <1>2 DEF Stored!PoolInv

LEMMA PoolIsSo ==
    ASSUME PoolFits(v1, v2), v3 \in [PoolCalls -> Stored!CallsOfPools],
           v4 \in [PoolDatabases -> Stored!Tabled], v5 \in [PoolCalls -> SUBSET Stored!Tabled],
           \A c \in PoolCalls : CallFits(v3[c], v5[c], c \in v6, v1, v2, v4),
           \A c, d \in PoolCalls : v3[c].pc = "ending" /\ v3[d].pc = "ending" => d = c
    PROVE  Stored!PoolInv
<1>1. Stored!ValidWasThere BY DEF Stored!ValidWasThere, CallFits, Judges
<1>2. ASSUME NEW c \in PoolCalls, Stored!Served(c)
      PROVE  /\ v1 # 0 /\ v2[v1].dsn = v3[c].dsn /\ v3[c].on \subseteq {v1}
             /\ v3[c].on # {} /\ v3[c].op # "close" => v4[v3[c].dsn] \in v5[c]
             /\ v3[c].op = "describe" => Stored!Described(c)
  <2>1. Serves(v3[c], v5[c], v1, v2, v4) BY <1>2 DEF CallFits, Stored!Served, Works
  <2>. QED BY <2>1 DEF Serves, Reads, Stored!Described
<1>3. ASSUME NEW c \in PoolCalls
      PROVE  /\ v3[c].on \subseteq DOMAIN v2
             /\ v3[c].pc = "idle" => v3[c].on = {} /\ v3[c].op # "describe"
             /\ v3[c].op # "describe" => DOMAIN v3[c].read = {}
             /\ v3[c].pc = "querying" => v1 \in v3[c].on
             /\ v3[c].pc = "judging" => v3[c].op = "describe"
             /\ v3[c].pc = "ending" =>
                    /\ v3[c].on = {v1} /\ v2[v1].state = "ending"
                    /\ \A d \in PoolCalls : v3[d].pc = "ending" => d = c
             /\ v3[c].pc # "done" => v3[c].answer = ""
             /\ c \notin v6 => \A p \in v3[c].on : v2[p].dsn = v3[c].dsn
  BY <1>3 DEF CallFits
<1>. QED BY <1>1, <1>2, <1>3 DEF Stored!PoolInv, PoolFits

LEMMA PoolPrimed ==
    ASSUME PoolFits(v1', v2'), v3' \in [PoolCalls -> Stored!CallsOfPools],
           v4' \in [PoolDatabases -> Stored!Tabled], v5' \in [PoolCalls -> SUBSET Stored!Tabled],
           \A c \in PoolCalls : CallFits(v3'[c], v5'[c], c \in v6', v1', v2', v4'),
           \A c, d \in PoolCalls : v3'[c].pc = "ending" /\ v3'[d].pc = "ending" => d = c
    PROVE  Stored!PoolInv'
<1>1. Stored!ValidWasThere' BY DEF Stored!ValidWasThere, CallFits, Judges
<1>2. ASSUME NEW c \in PoolCalls, Stored!Served(c)'
      PROVE  /\ v1' # 0 /\ v2'[v1'].dsn = v3'[c].dsn /\ v3'[c].on \subseteq {v1'}
             /\ v3'[c].on # {} /\ v3'[c].op # "close" => v4'[v3'[c].dsn] \in v5'[c]
             /\ v3'[c].op = "describe" => Stored!Described(c)'
  <2>1. Serves(v3'[c], v5'[c], v1', v2', v4') BY <1>2 DEF CallFits, Stored!Served, Works
  <2>. QED BY <2>1 DEF Serves, Reads, Stored!Described
<1>3. ASSUME NEW c \in PoolCalls
      PROVE  /\ v3'[c].on \subseteq DOMAIN v2'
             /\ v3'[c].pc = "idle" => v3'[c].on = {} /\ v3'[c].op # "describe"
             /\ v3'[c].op # "describe" => DOMAIN v3'[c].read = {}
             /\ v3'[c].pc = "querying" => v1' \in v3'[c].on
             /\ v3'[c].pc = "judging" => v3'[c].op = "describe"
             /\ v3'[c].pc = "ending" =>
                    /\ v3'[c].on = {v1'} /\ v2'[v1'].state = "ending"
                    /\ \A d \in PoolCalls : v3'[d].pc = "ending" => d = c
             /\ v3'[c].pc # "done" => v3'[c].answer = ""
             /\ c \notin v6' => \A p \in v3'[c].on : v2'[p].dsn = v3'[c].dsn
  BY <1>3 DEF CallFits
<1>. QED BY <1>1, <1>2, <1>3 DEF Stored!PoolInv, PoolFits

\* The pool that a call runs on.
LEMMA RunsOn ==
    ASSUME Stored!PoolInv, NEW c \in PoolCalls, v3[c].on # {}
    PROVE  /\ Stored!Running(c) \in v3[c].on /\ Stored!Running(c) \in DOMAIN v2
           /\ v1 \in v3[c].on => Stored!Running(c) = v1
<1>. DEFINE on == v3[c].on
<1>1. PoolFits(v1, v2) /\ on \subseteq DOMAIN v2 BY PoolParts DEF CallFits
<1>2. Len(v2) \in Nat /\ DOMAIN v2 = 1 .. Len(v2) BY <1>1 DEF PoolFits
<1>3. IsFiniteSet(on)
  <2>. DEFINE n == Len(v2)
  <2>1. n \in Nat /\ on \subseteq 1 .. n BY <1>1, <1>2
  <2>. HIDE DEF n
  <2>2. IsFiniteSet(1 .. n) BY <2>1, FS_Interval
  <2>. QED BY <2>1, <2>2, FS_Subset
<1>4. on \in SUBSET Nat /\ on # {} BY <1>1, <1>2
<1>. HIDE DEF on
<1>5. PICK x \in on : \A q \in on : x >= q BY <1>3, <1>4, HasGreatest
<1>6. \A q \in on : q <= x BY <1>4, <1>5
<1>. DEFINE r == CHOOSE p \in on : \A q \in on : q <= p
<1>7. r \in on /\ \A q \in on : q <= r BY <1>6
<1>8. Stored!Running(c) = r BY DEF Stored!Running, on
<1>. HIDE DEF r
<1>9. ASSUME v1 \in on PROVE r = v1
  <2>. DEFINE n == Len(v2)
  <2>1. n \in Nat /\ on \subseteq 1 .. n /\ v1 \in {0, n} BY <1>1, <1>2 DEF PoolFits
  <2>2. v1 \in 1 .. n /\ r \in 1 .. n /\ v1 <= r BY <1>7, <1>9, <2>1
  <2>. HIDE DEF n
  <2>3. v1 = n BY <2>1, <2>2
  <2>. QED BY <2>1, <2>2, <2>3
<1>. QED BY <1>1, <1>7, <1>8, <1>9 DEF on

LEMMA PoolStart == ASSUME Stored!PoolInit PROVE Stored!PoolInv
<1>1. PICK asked \in PoolAsks :
          v3 = [c \in PoolCalls |-> [op |-> asked[c].op, dsn |-> asked[c].dsn, pc |-> "idle", on |-> {},
                                     listed |-> {}, read |-> [t \in {} |-> ""], answer |-> ""]]
  BY DEF Stored!PoolInit
<1>2. \A c \in PoolCalls : asked[c].op \in {"query", "validate", "close"} /\ asked[c].dsn \in PoolDatabases
  BY DEF PoolAsks, PoolCall, PoolCalls, PoolDatabases
<1>. DEFINE none == [t \in {} |-> ""]
<1>3. none \in UNION {[S -> {"right", "wrong", "none"}] : S \in SUBSET PoolTables} /\ DOMAIN none = {}
  <2>1. none \in [{} -> {"right", "wrong", "none"}] /\ {} \in SUBSET PoolTables OBVIOUS
  <2>. QED BY <2>1
<1>. HIDE DEF none
<1>4. v3 \in [PoolCalls -> Stored!CallsOfPools]
  BY <1>1, <1>2, <1>3 DEF Stored!CallsOfPools, none
<1>5. v4 \in [PoolDatabases -> Stored!Tabled]
  <2>. DEFINE right == [t \in PoolTables |-> "right"]
              wrong == [t \in PoolTables |-> IF t \in PoolCritical THEN "wrong" ELSE "none"]
  <2>1. right \in Stored!Tabled /\ wrong \in Stored!Tabled BY DEF Stored!Tabled
  <2>2. v4 \in {[d \in PoolDatabases |-> m] : m \in {right, wrong}} BY DEF Stored!PoolInit
  <2>. HIDE DEF right, wrong
  <2>3. PICK m \in {right, wrong} : v4 = [d \in PoolDatabases |-> m] BY <2>2
  <2>. QED BY <2>1, <2>3
<1>6. v5 \in [PoolCalls -> SUBSET Stored!Tabled] BY DEF Stored!PoolInit
<1>7. PoolFits(v1, v2)
  <2>1. v1 = 0 /\ v2 = << >> BY DEF Stored!PoolInit
  <2>2. Len(v2) = 0 /\ DOMAIN v2 = {} BY <2>1
  <2>3. v2 \in Seq([dsn : PoolDatabases, state : {"open", "ending", "ended"}]) BY <2>1
  <2>. QED BY <2>1, <2>2, <2>3 DEF PoolFits
<1>8. ASSUME NEW c \in PoolCalls PROVE CallFits(v3[c], v5[c], c \in v6, v1, v2, v4)
  <2>1. /\ v3[c].op \in {"query", "validate", "close"} /\ v3[c].pc = "idle" /\ v3[c].on = {}
        /\ DOMAIN v3[c].read = {} /\ v3[c].answer = ""
    BY <1>1, <1>2, <1>3 DEF none
  <2>2. Judges(v3[c], v5[c]) BY <2>1 DEF Judges
  <2>3. ~Works(v3[c]) BY <2>1 DEF Works
  <2>. QED BY <2>1, <2>2, <2>3 DEF CallFits
<1>9. \A c, d \in PoolCalls : v3[c].pc = "ending" /\ v3[d].pc = "ending" => d = c BY <1>1
<1>. QED BY <1>4, <1>5, <1>6, <1>7, <1>8, <1>9, PoolIsSo

\* A step of one call that leaves the pool, the tables and the shadows alone.
LEMMA OneCallMoves ==
    ASSUME Stored!PoolInv, NEW c \in PoolCalls, NEW k \in Stored!CallsOfPools, NEW m \in SUBSET Stored!Tabled,
           v3' = [v3 EXCEPT ![c] = k], v5' = [v5 EXCEPT ![c] = m], UNCHANGED <<v1, v2, v4, v6>>,
           k.pc # "ending", CallFits(k, m, c \in v6, v1, v2, v4)
    PROVE  Stored!PoolInv'
<1>1. /\ PoolFits(v1, v2) /\ v3 \in [PoolCalls -> Stored!CallsOfPools]
      /\ v4 \in [PoolDatabases -> Stored!Tabled] /\ v5 \in [PoolCalls -> SUBSET Stored!Tabled]
      /\ \A d \in PoolCalls : CallFits(v3[d], v5[d], d \in v6, v1, v2, v4)
      /\ \A d, e \in PoolCalls : v3[d].pc = "ending" /\ v3[e].pc = "ending" => e = d
  BY PoolParts
<1>2. v3' \in [PoolCalls -> Stored!CallsOfPools] /\ v5' \in [PoolCalls -> SUBSET Stored!Tabled] BY <1>1
<1>3. ASSUME NEW d \in PoolCalls PROVE CallFits(v3'[d], v5'[d], d \in v6', v1', v2', v4')
  <2>1. CASE d = c
    <3>1. v3'[d] = k /\ v5'[d] = m BY <1>1, <2>1
    <3>. QED BY <2>1, <3>1
  <2>2. CASE d # c
    <3>1. v3'[d] = v3[d] /\ v5'[d] = v5[d] BY <1>1, <2>2
    <3>. QED BY <1>1, <3>1
  <2>. QED BY <2>1, <2>2
<1>4. \A d \in PoolCalls : v3'[d].pc = "ending" => v3[d].pc = "ending"
  <2>1. v3'[c] = k /\ \A d \in PoolCalls : d # c => v3'[d] = v3[d] BY <1>1
  <2>. QED BY <2>1
<1>5. \A d, e \in PoolCalls : v3'[d].pc = "ending" /\ v3'[e].pc = "ending" => e = d BY <1>1, <1>4
<1>6. PoolFits(v1', v2') /\ v4' \in [PoolDatabases -> Stored!Tabled] BY <1>1
<1>. QED BY <1>2, <1>3, <1>5, <1>6, PoolPrimed

PoolCallOf(op, dsn, pc, on, listed, read, answer) ==
    [op |-> op, dsn |-> dsn, pc |-> pc, on |-> on, listed |-> listed, read |-> read, answer |-> answer]

LEMMA PoolCallIs ==
    ASSUME NEW k \in Stored!CallsOfPools
    PROVE  k = PoolCallOf(k.op, k.dsn, k.pc, k.on, k.listed, k.read, k.answer)
BY DEF Stored!CallsOfPools, PoolCallOf

LEMMA PoolCallHas ==
    ASSUME NEW op, NEW dsn, NEW pc, NEW on, NEW listed, NEW read, NEW answer
    PROVE  LET k == PoolCallOf(op, dsn, pc, on, listed, read, answer)
           IN  k.op = op /\ k.dsn = dsn /\ k.pc = pc /\ k.on = on /\ k.listed = listed /\ k.read = read
               /\ k.answer = answer
BY DEF PoolCallOf

CallPcs == {"idle", "connected", "querying", "judging", "ending", "done"}
CallOps == {"query", "validate", "describe", "close"}
CallAnswers == {"", "failed", "rows", "valid", "invalid", "closed"}
CallReads == UNION {[S -> {"right", "wrong", "none"}] : S \in SUBSET PoolTables}

LEMMA PoolCallTyped ==
    ASSUME NEW x \in Stored!CallsOfPools, NEW op \in CallOps, NEW pc \in CallPcs, NEW on \in SUBSET Nat,
           NEW listed \in SUBSET PoolTables, NEW read \in CallReads, NEW answer \in CallAnswers
    PROVE  PoolCallOf(op, x.dsn, pc, on, listed, read, answer) \in Stored!CallsOfPools
BY DEF PoolCallOf, Stored!CallsOfPools, CallPcs, CallOps, CallAnswers, CallReads

LEMMA PoolCallFields ==
    ASSUME NEW x \in Stored!CallsOfPools
    PROVE  /\ x.op \in CallOps /\ x.dsn \in PoolDatabases /\ x.pc \in CallPcs /\ x.on \in SUBSET Nat
           /\ x.listed \in SUBSET PoolTables /\ x.read \in CallReads /\ x.answer \in CallAnswers
BY DEF Stored!CallsOfPools, CallPcs, CallOps, CallAnswers, CallReads

LEMMA PoolCallOp ==
    ASSUME NEW o, NEW d, NEW p, NEW n, NEW l, NEW r, NEW a, NEW q
    PROVE  [PoolCallOf(o, d, p, n, l, r, a) EXCEPT !.op = q] = PoolCallOf(q, d, p, n, l, r, a)
BY DEF PoolCallOf

LEMMA PoolCallPc ==
    ASSUME NEW o, NEW d, NEW p, NEW n, NEW l, NEW r, NEW a, NEW q
    PROVE  [PoolCallOf(o, d, p, n, l, r, a) EXCEPT !.pc = q] = PoolCallOf(o, d, q, n, l, r, a)
BY DEF PoolCallOf

LEMMA PoolCallOn ==
    ASSUME NEW o, NEW d, NEW p, NEW n, NEW l, NEW r, NEW a, NEW q
    PROVE  [PoolCallOf(o, d, p, n, l, r, a) EXCEPT !.on = q] = PoolCallOf(o, d, p, q, l, r, a)
BY DEF PoolCallOf

LEMMA PoolCallListed ==
    ASSUME NEW o, NEW d, NEW p, NEW n, NEW l, NEW r, NEW a, NEW q
    PROVE  [PoolCallOf(o, d, p, n, l, r, a) EXCEPT !.listed = q] = PoolCallOf(o, d, p, n, q, r, a)
BY DEF PoolCallOf

LEMMA PoolCallRead ==
    ASSUME NEW o, NEW d, NEW p, NEW n, NEW l, NEW r, NEW a, NEW q
    PROVE  [PoolCallOf(o, d, p, n, l, r, a) EXCEPT !.read = q] = PoolCallOf(o, d, p, n, l, q, a)
BY DEF PoolCallOf

LEMMA PoolCallAnswer ==
    ASSUME NEW o, NEW d, NEW p, NEW n, NEW l, NEW r, NEW a, NEW q
    PROVE  [PoolCallOf(o, d, p, n, l, r, a) EXCEPT !.answer = q] = PoolCallOf(o, d, p, n, l, r, q)
BY DEF PoolCallOf

LEMMA PoolCallAnswers ==
    ASSUME NEW x \in Stored!CallsOfPools, NEW pc, NEW answer
    PROVE  [x EXCEPT !.pc = pc, !.answer = answer]
               = PoolCallOf(x.op, x.dsn, pc, x.on, x.listed, x.read, answer)
<1>1. PICK o, d, p, n, l, r, a : x = PoolCallOf(o, d, p, n, l, r, a) BY PoolCallIs
<1>2. x.op = o /\ x.dsn = d /\ x.pc = p /\ x.on = n /\ x.listed = l /\ x.read = r /\ x.answer = a
  BY <1>1, PoolCallHas
<1>3. [x EXCEPT !.pc = pc] = PoolCallOf(o, d, pc, n, l, r, a) BY <1>1, PoolCallPc
<1>4. [x EXCEPT !.pc = pc, !.answer = answer] = PoolCallOf(o, d, pc, n, l, r, answer)
  <2>. DEFINE y == [x EXCEPT !.pc = pc]
  <2>1. [x EXCEPT !.pc = pc, !.answer = answer] = [y EXCEPT !.answer = answer] OBVIOUS
  <2>2. y = PoolCallOf(o, d, pc, n, l, r, a) BY <1>3
  <2>3. [PoolCallOf(o, d, pc, n, l, r, a) EXCEPT !.answer = answer] = PoolCallOf(o, d, pc, n, l, r, answer) BY PoolCallAnswer
  <2>. HIDE DEF y
  <2>. QED BY <2>1, <2>2, <2>3
<1>. QED BY <1>2, <1>4

LEMMA PoolCallRuns ==
    ASSUME NEW x \in Stored!CallsOfPools, NEW pc, NEW on
    PROVE  [x EXCEPT !.pc = pc, !.on = on]
               = PoolCallOf(x.op, x.dsn, pc, on, x.listed, x.read, x.answer)
<1>1. PICK o, d, p, n, l, r, a : x = PoolCallOf(o, d, p, n, l, r, a) BY PoolCallIs
<1>2. x.op = o /\ x.dsn = d /\ x.pc = p /\ x.on = n /\ x.listed = l /\ x.read = r /\ x.answer = a
  BY <1>1, PoolCallHas
<1>3. [x EXCEPT !.pc = pc] = PoolCallOf(o, d, pc, n, l, r, a) BY <1>1, PoolCallPc
<1>4. [x EXCEPT !.pc = pc, !.on = on] = PoolCallOf(o, d, pc, on, l, r, a)
  <2>. DEFINE y == [x EXCEPT !.pc = pc]
  <2>1. [x EXCEPT !.pc = pc, !.on = on] = [y EXCEPT !.on = on] OBVIOUS
  <2>2. y = PoolCallOf(o, d, pc, n, l, r, a) BY <1>3
  <2>3. [PoolCallOf(o, d, pc, n, l, r, a) EXCEPT !.on = on] = PoolCallOf(o, d, pc, on, l, r, a) BY PoolCallOn
  <2>. HIDE DEF y
  <2>. QED BY <2>1, <2>2, <2>3
<1>. QED BY <1>2, <1>4

LEMMA PoolCallReads ==
    ASSUME NEW x \in Stored!CallsOfPools, NEW read, NEW pc
    PROVE  [x EXCEPT !.read = read, !.pc = pc]
               = PoolCallOf(x.op, x.dsn, pc, x.on, x.listed, read, x.answer)
<1>1. PICK o, d, p, n, l, r, a : x = PoolCallOf(o, d, p, n, l, r, a) BY PoolCallIs
<1>2. x.op = o /\ x.dsn = d /\ x.pc = p /\ x.on = n /\ x.listed = l /\ x.read = r /\ x.answer = a
  BY <1>1, PoolCallHas
<1>3. [x EXCEPT !.read = read] = PoolCallOf(o, d, p, n, l, read, a) BY <1>1, PoolCallRead
<1>4. [x EXCEPT !.read = read, !.pc = pc] = PoolCallOf(o, d, pc, n, l, read, a)
  <2>. DEFINE y == [x EXCEPT !.read = read]
  <2>1. [x EXCEPT !.read = read, !.pc = pc] = [y EXCEPT !.pc = pc] OBVIOUS
  <2>2. y = PoolCallOf(o, d, p, n, l, read, a) BY <1>3
  <2>3. [PoolCallOf(o, d, p, n, l, read, a) EXCEPT !.pc = pc] = PoolCallOf(o, d, pc, n, l, read, a) BY PoolCallPc
  <2>. HIDE DEF y
  <2>. QED BY <2>1, <2>2, <2>3
<1>. QED BY <1>2, <1>4

HasListed(x, listed, op, pc, answer) ==
    [x EXCEPT !.listed = listed, !.op = op, !.pc = pc, !.answer = answer]

LEMMA PoolCallLists ==
    ASSUME NEW x \in Stored!CallsOfPools, NEW listed, NEW op, NEW pc, NEW answer
    PROVE  HasListed(x, listed, op, pc, answer)
               = PoolCallOf(op, x.dsn, pc, x.on, listed, x.read, answer)
<1>1. PICK o, d, p, n, l, r, a : x = PoolCallOf(o, d, p, n, l, r, a) BY PoolCallIs
<1>2. x.op = o /\ x.dsn = d /\ x.pc = p /\ x.on = n /\ x.listed = l /\ x.read = r /\ x.answer = a
  BY <1>1, PoolCallHas
<1>3. [x EXCEPT !.listed = listed] = PoolCallOf(o, d, p, n, listed, r, a) BY <1>1, PoolCallListed
<1>4. [x EXCEPT !.listed = listed, !.op = op] = PoolCallOf(op, d, p, n, listed, r, a)
  <2>. DEFINE y == [x EXCEPT !.listed = listed]
  <2>1. [x EXCEPT !.listed = listed, !.op = op] = [y EXCEPT !.op = op] OBVIOUS
  <2>2. y = PoolCallOf(o, d, p, n, listed, r, a) BY <1>3
  <2>3. [PoolCallOf(o, d, p, n, listed, r, a) EXCEPT !.op = op] = PoolCallOf(op, d, p, n, listed, r, a) BY PoolCallOp
  <2>. HIDE DEF y
  <2>. QED BY <2>1, <2>2, <2>3
<1>5. [x EXCEPT !.listed = listed, !.op = op, !.pc = pc] = PoolCallOf(op, d, pc, n, listed, r, a)
  <2>. DEFINE y == [x EXCEPT !.listed = listed, !.op = op]
  <2>1. [x EXCEPT !.listed = listed, !.op = op, !.pc = pc] = [y EXCEPT !.pc = pc] OBVIOUS
  <2>2. y = PoolCallOf(op, d, p, n, listed, r, a) BY <1>4
  <2>3. [PoolCallOf(op, d, p, n, listed, r, a) EXCEPT !.pc = pc] = PoolCallOf(op, d, pc, n, listed, r, a) BY PoolCallPc
  <2>. HIDE DEF y
  <2>. QED BY <2>1, <2>2, <2>3
<1>6. [x EXCEPT !.listed = listed, !.op = op, !.pc = pc, !.answer = answer] = PoolCallOf(op, d, pc, n, listed, r, answer)
  <2>. DEFINE y == [x EXCEPT !.listed = listed, !.op = op, !.pc = pc]
  <2>1. [x EXCEPT !.listed = listed, !.op = op, !.pc = pc, !.answer = answer] = [y EXCEPT !.answer = answer] OBVIOUS
  <2>2. y = PoolCallOf(op, d, pc, n, listed, r, a) BY <1>5
  <2>3. [PoolCallOf(op, d, pc, n, listed, r, a) EXCEPT !.answer = answer] = PoolCallOf(op, d, pc, n, listed, r, answer) BY PoolCallAnswer
  <2>. HIDE DEF y
  <2>. QED BY <2>1, <2>2, <2>3
<1>. QED BY <1>2, <1>6 DEF HasListed

LEMMA PoolIsOne ==
    ASSUME PoolFits(v1, v2), NEW q \in DOMAIN v2
    PROVE  v2[q] \in [dsn : PoolDatabases, state : {"open", "ending", "ended"}] /\ v2[q].dsn \in PoolDatabases
<1>. DEFINE T == [dsn : PoolDatabases, state : {"open", "ending", "ended"}]
<1>1. v2 \in Seq(T) BY DEF PoolFits
<1>2. v2[q] \in T
  <2>. HIDE DEF T
  <2>. QED BY <1>1
<1>. QED BY <1>2

\* A call that is over, with what it has learnt.
LEMMA PoolCallEnds ==
    ASSUME Stored!PoolInv, NEW c \in PoolCalls, NEW answer \in {"failed", "rows", "valid", "invalid", "closed"},
           v3' = [v3 EXCEPT ![c].pc = "done", ![c].answer = answer], UNCHANGED <<v1, v2, v4, v5, v6>>,
           c \in v6 \/ Judges([v3[c] EXCEPT !.pc = "done", !.answer = answer], v5[c])
    PROVE  Stored!PoolInv'
<1>. DEFINE x == v3[c]
            k == PoolCallOf(x.op, x.dsn, "done", x.on, x.listed, x.read, answer)
<1>1. x \in Stored!CallsOfPools /\ v5[c] \in SUBSET Stored!Tabled /\ v3 \in [PoolCalls -> Stored!CallsOfPools]
      /\ v5 \in [PoolCalls -> SUBSET Stored!Tabled] /\ CallFits(x, v5[c], c \in v6, v1, v2, v4)
  BY PoolParts
<1>2. [x EXCEPT !.pc = "done", !.answer = answer] = k BY <1>1, PoolCallAnswers
<1>3. v3' = [v3 EXCEPT ![c] = k] BY <1>1, <1>2
<1>4. v5' = [v5 EXCEPT ![c] = v5[c]] BY <1>1
<1>5. k.op = x.op /\ k.dsn = x.dsn /\ k.pc = "done" /\ k.on = x.on /\ k.listed = x.listed /\ k.read = x.read
  BY PoolCallHas
<1>6. k \in Stored!CallsOfPools
  <2>. DEFINE pc == "done"
  <2>1. pc \in CallPcs /\ answer \in CallAnswers BY DEF CallPcs, CallAnswers
  <2>2. x.op \in CallOps /\ x.on \in SUBSET Nat /\ x.listed \in SUBSET PoolTables /\ x.read \in CallReads
    BY <1>1, PoolCallFields
  <2>. HIDE DEF pc, x
  <2>3. PoolCallOf(x.op, x.dsn, pc, x.on, x.listed, x.read, answer) \in Stored!CallsOfPools
    BY <1>1, <2>1, <2>2, PoolCallTyped
  <2>. QED BY <2>3 DEF pc, x
<1>7. c \in v6 \/ Judges(k, v5[c]) BY <1>2
<1>. HIDE DEF k, x
<1>8. CallFits(k, v5[c], c \in v6, v1, v2, v4) BY <1>1, <1>5, <1>7 DEF CallFits, Works
<1>. QED BY <1>1, <1>3, <1>4, <1>5, <1>6, <1>8, OneCallMoves

LEMMA PoolFails ==
    ASSUME Stored!PoolInv, NEW c \in PoolCalls, Stored!Fail(c), UNCHANGED <<v1, v2, v4, v5, v6>>
    PROVE  Stored!PoolInv'
<1>1. [v3[c] EXCEPT !.pc = "done", !.answer = "failed"].answer = "failed"
  BY PoolParts DEF Stored!CallsOfPools
<1>2. Judges([v3[c] EXCEPT !.pc = "done", !.answer = "failed"], v5[c]) BY <1>1 DEF Judges
<1>. QED BY <1>2, PoolCallEnds DEF Stored!Fail

LEMMA PoolRows ==
    ASSUME Stored!PoolInv, NEW c \in PoolCalls, Stored!QueryReturns(c) PROVE Stored!PoolInv'
<1>1. [v3[c] EXCEPT !.pc = "done", !.answer = "rows"].answer = "rows"
  BY PoolParts DEF Stored!CallsOfPools
<1>2. Judges([v3[c] EXCEPT !.pc = "done", !.answer = "rows"], v5[c]) BY <1>1 DEF Judges
<1>3. v3' = [v3 EXCEPT ![c].pc = "done", ![c].answer = "rows"] /\ UNCHANGED <<v1, v2, v4, v5, v6>>
  BY DEF Stored!QueryReturns
<1>. QED BY <1>2, <1>3, PoolCallEnds

LEMMA PoolQuery ==
    ASSUME Stored!PoolInv, NEW c \in PoolCalls, Stored!Query(c) PROVE Stored!PoolInv'
<1>. DEFINE x == v3[c]
            k == PoolCallOf(x.op, x.dsn, "querying", x.on \cup {v1}, x.listed, x.read, x.answer)
            now == v4[v2[v1].dsn]
            m == v5[c] \cup {now}
<1>1. /\ x \in Stored!CallsOfPools /\ v3 \in [PoolCalls -> Stored!CallsOfPools]
      /\ v5 \in [PoolCalls -> SUBSET Stored!Tabled] /\ v4 \in [PoolDatabases -> Stored!Tabled]
      /\ CallFits(x, v5[c], c \in v6, v1, v2, v4) /\ PoolFits(v1, v2)
  BY PoolParts
<1>2. UNCHANGED <<v1, v2, v4, v6>> /\ x.pc = "connected" /\ x.op # "close" BY DEF Stored!Query
<1>3. CASE v1 = 0 \/ v2[v1].state # "open" BY <1>3, PoolFails DEF Stored!Query
<1>4. CASE v1 # 0 /\ v2[v1].state = "open"
  <2>1. v3' = [v3 EXCEPT ![c].pc = "querying", ![c].on = @ \cup {v1}] /\ v5' = [v5 EXCEPT ![c] = @ \cup {now}]
    BY <1>4 DEF Stored!Query
  <2>2. v3' = [v3 EXCEPT ![c] = [x EXCEPT !.pc = "querying", !.on = @ \cup {v1}]] BY <1>1, <2>1
  <2>3. [x EXCEPT !.pc = "querying", !.on = @ \cup {v1}] = k BY <1>1, PoolCallRuns
  <2>4. v3' = [v3 EXCEPT ![c] = k] /\ v5' = [v5 EXCEPT ![c] = m] BY <1>1, <2>1, <2>2, <2>3
  <2>5. v1 \in DOMAIN v2 /\ v1 \in Nat /\ v2[v1].dsn \in PoolDatabases
    <3>1. Len(v2) \in Nat /\ DOMAIN v2 = 1 .. Len(v2) /\ v1 = Len(v2) BY <1>1, <1>4 DEF PoolFits
    <3>2. v1 \in DOMAIN v2 /\ v1 \in Nat BY <1>4, <3>1
    <3>. QED BY <1>1, <3>2, PoolIsOne
  <2>6. m \in SUBSET Stored!Tabled BY <1>1, <2>5
  <2>7. k \in Stored!CallsOfPools
    <3>. DEFINE on == x.on \cup {v1}
    <3>1. on \in SUBSET Nat BY <1>1, <2>5, PoolCallFields
    <3>2. x.op \in CallOps /\ x.listed \in SUBSET PoolTables /\ x.read \in CallReads /\ x.answer \in CallAnswers
      BY <1>1, PoolCallFields
    <3>. DEFINE pc == "querying"
    <3>4. pc \in CallPcs BY DEF CallPcs
    <3>. HIDE DEF on, pc, x
    <3>3. PoolCallOf(x.op, x.dsn, pc, on, x.listed, x.read, x.answer) \in Stored!CallsOfPools
      BY <1>1, <3>1, <3>2, <3>4, PoolCallTyped
    <3>. QED BY <3>3 DEF on, pc, x
  <2>8. k.op = x.op /\ k.dsn = x.dsn /\ k.pc = "querying" /\ k.on = x.on \cup {v1} /\ k.listed = x.listed
        /\ k.read = x.read /\ k.answer = x.answer
    BY PoolCallHas
  <2>9. x.answer = "" BY <1>1, <1>2 DEF CallFits
  <2>. HIDE DEF k
  <2>10. c \in v6 \/ Serves(k, m, v1, v2, v4)
    <3>1. SUFFICES ASSUME c \notin v6 PROVE Serves(k, m, v1, v2, v4) OBVIOUS
    <3>2. Serves(x, v5[c], v1, v2, v4) BY <1>1, <1>2, <3>1 DEF CallFits, Works
    <3>3. now = v4[k.dsn] /\ now \in m /\ v5[c] \subseteq m BY <2>8, <3>2 DEF Serves
    <3>. HIDE DEF m, now
    <3>4. k.op = "describe" => Reads(k, m) BY <1>2, <2>8, <3>2, <3>3 DEF Serves, Reads
    <3>. QED BY <2>8, <3>2, <3>3, <3>4 DEF Serves
  <2>11. c \in v6 \/ \A q \in k.on : v2[q].dsn = k.dsn BY <2>8, <2>10, <1>1 DEF CallFits, Serves
  <2>12. Judges(k, m) BY <2>8, <2>9 DEF Judges
  <2>. HIDE DEF m, now
  <2>13. CallFits(k, m, c \in v6, v1, v2, v4)
    BY <1>1, <1>2, <2>5, <2>8, <2>9, <2>10, <2>11, <2>12 DEF CallFits
  <2>. QED BY <1>1, <1>2, <2>4, <2>6, <2>7, <2>8, <2>13, OneCallMoves
<1>. QED BY <1>3, <1>4

\* What the tables are to a call under way.
LEMMA PoolNow ==
    ASSUME Stored!PoolInv, NEW c \in PoolCalls, v3[c].pc = "querying"
    PROVE  /\ Stored!Now(c) \in Stored!Tabled
           /\ c \notin v6 /\ v3[c].op # "close" => Stored!Now(c) \in v5[c]
<1>1. CallFits(v3[c], v5[c], c \in v6, v1, v2, v4) /\ PoolFits(v1, v2) /\ v4 \in [PoolDatabases -> Stored!Tabled]
  BY PoolParts
<1>2. v1 \in v3[c].on BY <1>1 DEF CallFits
<1>3. Stored!Running(c) = v1 /\ v1 \in DOMAIN v2 BY <1>2, RunsOn
<1>4. Stored!Now(c) = v4[v2[v1].dsn] BY <1>3 DEF Stored!Now
<1>5. v2[v1].dsn \in PoolDatabases BY <1>1, <1>3, PoolIsOne
<1>6. ASSUME c \notin v6, v3[c].op # "close" PROVE Stored!Now(c) \in v5[c]
  <2>1. Serves(v3[c], v5[c], v1, v2, v4) BY <1>1, <1>6 DEF CallFits, Works
  <2>. QED BY <1>2, <1>4, <1>6, <2>1 DEF Serves
<1>. QED BY <1>1, <1>4, <1>5, <1>6

LEMMA PoolLists ==
    ASSUME Stored!PoolInv, NEW c \in PoolCalls, Stored!ListTables(c) PROVE Stored!PoolInv'
<1>. DEFINE x == v3[c]
            now == Stored!Now(c)
            listed == {t \in PoolTables : now[t] # "none"}
            pc == IF listed = {} THEN "done" ELSE "connected"
            answer == IF listed = {} THEN "invalid" ELSE ""
            k == PoolCallOf("describe", x.dsn, pc, x.on, listed, x.read, answer)
<1>1. /\ x \in Stored!CallsOfPools /\ v3 \in [PoolCalls -> Stored!CallsOfPools]
      /\ v5 \in [PoolCalls -> SUBSET Stored!Tabled]
      /\ CallFits(x, v5[c], c \in v6, v1, v2, v4)
  BY PoolParts
<1>2. UNCHANGED <<v1, v2, v4, v5, v6>> /\ x.pc = "querying" /\ x.op = "validate" BY DEF Stored!ListTables
<1>3. v3' = [v3 EXCEPT ![c] = k]
  <2>1. v3' = [v3 EXCEPT ![c].listed = listed, ![c].op = "describe", ![c].pc = pc, ![c].answer = answer]
    BY DEF Stored!ListTables
  <2>. HIDE DEF pc, answer, listed
  <2>2. v3' = [v3 EXCEPT ![c] = [x EXCEPT !.listed = listed, !.op = "describe", !.pc = pc, !.answer = answer]]
    BY <1>1, <2>1
  <2>3. [x EXCEPT !.listed = listed, !.op = "describe", !.pc = pc, !.answer = answer] = k
    <3>. DEFINE op == "describe"
    <3>. HIDE DEF op, x
    <3>1. HasListed(x, listed, op, pc, answer) = PoolCallOf(op, x.dsn, pc, x.on, listed, x.read, answer)
      BY <1>1, PoolCallLists
    <3>. QED BY <3>1 DEF op, x, HasListed
  <2>. QED BY <2>2, <2>3
<1>4. v5' = [v5 EXCEPT ![c] = v5[c]] BY <1>1, <1>2
<1>5. k.op = "describe" /\ k.dsn = x.dsn /\ k.pc = pc /\ k.on = x.on /\ k.listed = listed /\ k.read = x.read
      /\ k.answer = answer
  <2>. HIDE DEF pc, answer, listed
  <2>. QED BY PoolCallHas
<1>6. k \in Stored!CallsOfPools
  <2>. DEFINE op == "describe"
  <2>1. op \in CallOps /\ pc \in CallPcs /\ answer \in CallAnswers /\ listed \in SUBSET PoolTables
    BY DEF CallOps, CallPcs, CallAnswers
  <2>2. x.on \in SUBSET Nat /\ x.read \in CallReads BY <1>1, PoolCallFields
  <2>. HIDE DEF pc, answer, listed, op, x
  <2>3. PoolCallOf(op, x.dsn, pc, x.on, listed, x.read, answer) \in Stored!CallsOfPools
    BY <1>1, <2>1, <2>2, PoolCallTyped
  <2>. QED BY <2>3 DEF op, x
<1>7. DOMAIN x.read = {} BY <1>1, <1>2 DEF CallFits
<1>8. c \notin v6 => now \in v5[c] BY <1>2, PoolNow
<1>9. c \in v6 \/ Reads(k, v5[c])
  <2>1. k.pc # "judging" BY <1>5
  <2>. QED BY <1>5, <1>7, <1>8, <2>1 DEF Reads
<1>10. c \in v6 \/ Judges(k, v5[c])
  <2>1. CASE listed = {}
    <3>1. "events" \in PoolTables BY DEF PoolTables
    <3>2. now["events"] = "none" BY <2>1, <3>1
    <3>3. k.answer = "invalid" BY <1>5, <2>1
    <3>. QED BY <1>8, <3>1, <3>2, <3>3 DEF Judges
  <2>2. CASE listed # {}
    <3>1. k.answer = "" BY <1>5, <2>2
    <3>. QED BY <3>1 DEF Judges
  <2>. QED BY <2>1, <2>2
<1>11. c \in v6 \/ ~Works(k) \/ Serves(k, v5[c], v1, v2, v4)
  <2>1. c \in v6 \/ Serves(x, v5[c], v1, v2, v4) BY <1>1, <1>2 DEF CallFits, Works
  <2>. HIDE DEF k, pc, answer, listed, now
  <2>. QED BY <1>2, <1>5, <1>9, <2>1 DEF Serves
<1>12. pc \in {"done", "connected"} /\ (pc # "done" => answer = "") OBVIOUS
<1>. HIDE DEF k, pc, answer, listed, now
<1>13. CallFits(k, v5[c], c \in v6, v1, v2, v4)
  BY <1>1, <1>5, <1>10, <1>11, <1>12 DEF CallFits
<1>. QED BY <1>1, <1>2, <1>3, <1>4, <1>5, <1>6, <1>12, <1>13, OneCallMoves

LEMMA PoolReads ==
    ASSUME Stored!PoolInv, NEW c \in PoolCalls, Stored!GetTableInfo(c) PROVE Stored!PoolInv'
<1>. DEFINE x == v3[c]
            now == Stored!Now(c)
<1>1. /\ x \in Stored!CallsOfPools /\ v3 \in [PoolCalls -> Stored!CallsOfPools]
      /\ v5 \in [PoolCalls -> SUBSET Stored!Tabled]
      /\ CallFits(x, v5[c], c \in v6, v1, v2, v4)
  BY PoolParts
<1>2. UNCHANGED <<v1, v2, v4, v5, v6>> /\ x.pc = "querying" /\ x.op = "describe" BY DEF Stored!GetTableInfo
<1>3. now \in Stored!Tabled /\ (c \notin v6 => now \in v5[c]) BY <1>2, PoolNow
<1>4. PICK t \in Stored!Unread(c) :
          v3' = [v3 EXCEPT ![c].read = [u \in DOMAIN @ \cup {t} |-> IF u = t THEN now[t] ELSE @[u]],
                           ![c].pc = IF Stored!Unread(c) = {t} THEN "judging" ELSE "connected"]
  BY DEF Stored!GetTableInfo
<1>5. Stored!Unread(c) = x.listed \ DOMAIN x.read BY DEF Stored!Unread
<1>. DEFINE pc == IF Stored!Unread(c) = {t} THEN "judging" ELSE "connected"
            read == [u \in DOMAIN x.read \cup {t} |-> IF u = t THEN now[t] ELSE x.read[u]]
            k == PoolCallOf(x.op, x.dsn, pc, x.on, x.listed, read, x.answer)
<1>6. v3' = [v3 EXCEPT ![c] = k]
  <2>. HIDE DEF pc
  <2>1. v3' = [v3 EXCEPT ![c] = [x EXCEPT !.read = read, !.pc = pc]] BY <1>1, <1>4 DEF pc
  <2>. HIDE DEF read, x
  <2>2. [x EXCEPT !.read = read, !.pc = pc] = k BY <1>1, PoolCallReads
  <2>. QED BY <2>1, <2>2 DEF x
<1>7. v5' = [v5 EXCEPT ![c] = v5[c]] BY <1>1, <1>2
<1>8. k.op = "describe" /\ k.dsn = x.dsn /\ k.pc = pc /\ k.on = x.on /\ k.listed = x.listed /\ k.read = read
      /\ k.answer = x.answer
  <2>. HIDE DEF pc, read
  <2>. QED BY <1>2, PoolCallHas
<1>9. x.listed \in SUBSET PoolTables /\ x.read \in CallReads /\ x.op \in CallOps /\ x.on \in SUBSET Nat
      /\ x.answer \in CallAnswers
  BY <1>1, PoolCallFields
<1>10. t \in PoolTables /\ t \in x.listed /\ t \notin DOMAIN x.read BY <1>5, <1>9
<1>11. read \in CallReads
  <2>. DEFINE D == DOMAIN x.read \cup {t}
  <2>1. PICK S \in SUBSET PoolTables : x.read \in [S -> {"right", "wrong", "none"}] BY <1>9 DEF CallReads
  <2>2. D \in SUBSET PoolTables BY <1>10, <2>1
  <2>3. now[t] \in {"right", "wrong", "none"} BY <1>3, <1>10 DEF Stored!Tabled
  <2>4. read \in [D -> {"right", "wrong", "none"}] BY <2>1, <2>3
  <2>. HIDE DEF D, read
  <2>. QED BY <2>2, <2>4 DEF CallReads
<1>12. pc \in CallPcs /\ pc \in {"judging", "connected"} BY DEF CallPcs
<1>13. k \in Stored!CallsOfPools
  <2>. HIDE DEF pc, read, x
  <2>1. PoolCallOf(x.op, x.dsn, pc, x.on, x.listed, read, x.answer) \in Stored!CallsOfPools
    BY <1>1, <1>9, <1>11, <1>12, PoolCallTyped
  <2>. QED BY <2>1
<1>14. c \in v6 \/ Serves(x, v5[c], v1, v2, v4) BY <1>1, <1>2 DEF CallFits, Works
<1>15. c \in v6 \/ Reads(k, v5[c])
  <2>1. SUFFICES ASSUME c \notin v6 PROVE Reads(k, v5[c]) OBVIOUS
  <2>2. Reads(x, v5[c]) BY <1>2, <1>14, <2>1 DEF Serves
  <2>3. DOMAIN read = DOMAIN x.read \cup {t} OBVIOUS
  <2>4. ASSUME NEW u \in DOMAIN read PROVE \E y \in v5[c] : y[u] = read[u]
    <3>1. CASE u = t BY <1>3, <2>1, <3>1
    <3>2. CASE u # t
      <4>1. u \in DOMAIN x.read /\ read[u] = x.read[u] BY <2>3, <2>4, <3>2
      <4>. QED BY <2>2, <4>1 DEF Reads
    <3>. QED BY <3>1, <3>2
  <2>5. pc = "judging" => DOMAIN read = x.listed
    <3>1. SUFFICES ASSUME pc = "judging" PROVE DOMAIN read = x.listed OBVIOUS
    <3>2. Stored!Unread(c) = {t} BY <3>1
    <3>3. DOMAIN x.read \subseteq x.listed BY <2>2 DEF Reads
    <3>. QED BY <1>5, <2>3, <3>2, <3>3
  <2>6. DOMAIN read \subseteq x.listed BY <1>10, <2>2, <2>3 DEF Reads
  <2>. HIDE DEF k, pc, read
  <2>. QED BY <1>8, <2>2, <2>4, <2>5, <2>6 DEF Reads
<1>. HIDE DEF k, pc, read, now
<1>16. c \in v6 \/ Serves(k, v5[c], v1, v2, v4) BY <1>2, <1>8, <1>14, <1>15 DEF Serves
<1>17. x.answer = "" BY <1>1, <1>2 DEF CallFits
<1>18. Judges(k, v5[c]) BY <1>8, <1>17 DEF Judges
<1>19. CallFits(k, v5[c], c \in v6, v1, v2, v4)
  BY <1>1, <1>8, <1>12, <1>16, <1>17, <1>18 DEF CallFits
<1>. QED BY <1>1, <1>2, <1>6, <1>7, <1>8, <1>12, <1>13, <1>19, OneCallMoves

\* What was read decides what is answered.
LEMMA PoolValidates ==
    ASSUME Stored!PoolInv, NEW c \in PoolCalls, Stored!ValidateSchema(c) PROVE Stored!PoolInv'
<1>. DEFINE x == v3[c]
            answer == IF Stored!Valid(c) THEN "valid" ELSE "invalid"
            k == [x EXCEPT !.pc = "done", !.answer = answer]
<1>1. x \in Stored!CallsOfPools /\ CallFits(x, v5[c], c \in v6, v1, v2, v4) BY PoolParts
<1>2. /\ UNCHANGED <<v1, v2, v4, v5, v6>> /\ x.pc = "judging"
      /\ v3' = [v3 EXCEPT ![c].pc = "done", ![c].answer = answer]
  BY DEF Stored!ValidateSchema
<1>3. k.answer = answer
  <2>. HIDE DEF answer
  <2>. QED BY <1>1 DEF Stored!CallsOfPools
<1>4. c \in v6 \/ Judges(k, v5[c])
  <2>1. SUFFICES ASSUME c \notin v6 PROVE Judges(k, v5[c]) OBVIOUS
  <2>2. Reads(x, v5[c]) /\ DOMAIN x.read = x.listed
    BY <1>1, <1>2, <2>1 DEF CallFits, Works, Serves, Reads
  <2>3. PICK y \in v5[c] : x.listed = {t \in PoolTables : y[t] # "none"} BY <2>2 DEF Reads
  <2>4. PoolCritical \subseteq PoolTables BY DEF PoolCritical, PoolTables
  <2>5. Stored!Valid(c) <=> /\ PoolTables \subseteq x.listed
                            /\ \A t \in x.listed \cap PoolCritical : x.read[t] # "wrong"
    BY DEF Stored!Valid
  <2>6. CASE Stored!Valid(c)
    <3>1. answer = "valid" BY <2>6
    <3>2. \A t \in PoolTables : y[t] # "none" BY <2>3, <2>5, <2>6
    <3>3. ASSUME NEW t \in PoolCritical PROVE \E z \in v5[c] : z[t] # "wrong"
      <4>1. t \in x.listed /\ x.read[t] # "wrong" BY <2>4, <2>5, <2>6
      <4>2. PICK z \in v5[c] : z[t] = x.read[t] BY <2>2, <4>1 DEF Reads
      <4>. QED BY <4>1, <4>2
    <3>. HIDE DEF k, answer
    <3>. QED BY <1>3, <3>1, <3>2, <3>3 DEF Judges
  <2>7. CASE ~Stored!Valid(c)
    <3>1. answer = "invalid" BY <2>7
    <3>2. \E z \in v5[c], t \in PoolTables : z[t] = "none" \/ (t \in PoolCritical /\ z[t] = "wrong")
      <4>1. CASE ~(PoolTables \subseteq x.listed) BY <2>3, <4>1
      <4>2. CASE PoolTables \subseteq x.listed
        <5>1. PICK t \in x.listed \cap PoolCritical : x.read[t] = "wrong" BY <2>5, <2>7, <4>2
        <5>2. PICK z \in v5[c] : z[t] = x.read[t] BY <2>2, <5>1 DEF Reads
        <5>. QED BY <2>4, <5>1, <5>2
      <4>. QED BY <4>1, <4>2
    <3>. HIDE DEF k, answer
    <3>. QED BY <1>3, <3>1, <3>2 DEF Judges
  <2>. QED BY <2>6, <2>7
<1>5. answer \in {"failed", "rows", "valid", "invalid", "closed"} OBVIOUS
<1>. HIDE DEF answer
<1>. QED BY <1>2, <1>4, <1>5, PoolCallEnds

\* The first who connects makes the pool, and all who come later find it.
LEMMA PoolConnects ==
    ASSUME Stored!PoolInv, NEW c \in PoolCalls, Stored!CreateDBConnection(c) PROVE Stored!PoolInv'
<1>. DEFINE x == v3[c]
            k == PoolCallOf(x.op, x.dsn, "connected", x.on, x.listed, x.read, x.answer)
            T == [dsn : PoolDatabases, state : {"open", "ending", "ended"}]
<1>1. /\ x \in Stored!CallsOfPools /\ v3 \in [PoolCalls -> Stored!CallsOfPools]
      /\ v5 \in [PoolCalls -> SUBSET Stored!Tabled] /\ v4 \in [PoolDatabases -> Stored!Tabled]
      /\ \A d \in PoolCalls : CallFits(v3[d], v5[d], d \in v6, v1, v2, v4)
      /\ PoolFits(v1, v2)
      /\ \A d, e \in PoolCalls : v3[d].pc = "ending" /\ v3[e].pc = "ending" => e = d
  BY PoolParts
<1>2. UNCHANGED <<v4, v5>> /\ x.pc = "idle" /\ v3' = [v3 EXCEPT ![c].pc = "connected"]
  BY DEF Stored!CreateDBConnection
<1>3. v6' = IF v1 # 0 /\ v2[v1].dsn # x.dsn THEN v6 \cup {c} ELSE v6 BY DEF Stored!CreateDBConnection
<1>4. v3' = [v3 EXCEPT ![c] = k]
  <2>1. v3' = [v3 EXCEPT ![c] = [x EXCEPT !.pc = "connected"]] BY <1>1, <1>2
  <2>2. [x EXCEPT !.pc = "connected"] = k
    <3>. DEFINE pc == "connected"
    <3>. HIDE DEF pc, x
    <3>1. x = PoolCallOf(x.op, x.dsn, x.pc, x.on, x.listed, x.read, x.answer) BY <1>1, PoolCallIs
    <3>2. PICK y : y = x OBVIOUS
    <3>3. [PoolCallOf(y.op, y.dsn, y.pc, y.on, y.listed, y.read, y.answer) EXCEPT !.pc = pc]
              = PoolCallOf(y.op, y.dsn, pc, y.on, y.listed, y.read, y.answer)
      BY PoolCallPc
    <3>. QED BY <3>1, <3>2, <3>3 DEF pc
  <2>. QED BY <2>1, <2>2
<1>5. k.op = x.op /\ k.dsn = x.dsn /\ k.pc = "connected" /\ k.on = x.on /\ k.listed = x.listed
      /\ k.read = x.read /\ k.answer = x.answer
  BY PoolCallHas
<1>6. k \in Stored!CallsOfPools
  <2>. DEFINE pc == "connected"
  <2>1. pc \in CallPcs BY DEF CallPcs
  <2>2. x.op \in CallOps /\ x.on \in SUBSET Nat /\ x.listed \in SUBSET PoolTables /\ x.read \in CallReads
        /\ x.answer \in CallAnswers /\ x.dsn \in PoolDatabases
    BY <1>1, PoolCallFields
  <2>. HIDE DEF pc, x
  <2>3. PoolCallOf(x.op, x.dsn, pc, x.on, x.listed, x.read, x.answer) \in Stored!CallsOfPools
    BY <1>1, <2>1, <2>2, PoolCallTyped
  <2>. QED BY <2>3 DEF pc, x
<1>7. x.op # "describe" /\ x.on = {} /\ x.answer = "" /\ DOMAIN x.read = {} BY <1>1, <1>2 DEF CallFits
<1>8. v3' \in [PoolCalls -> Stored!CallsOfPools] BY <1>1, <1>4, <1>6
<1>. HIDE DEF k
<1>9. v3'[c] = k /\ \A d \in PoolCalls : d # c => v3'[d] = v3[d] BY <1>1, <1>4
<1>10. \A d \in PoolCalls : v3'[d].pc = "ending" => v3[d].pc = "ending" BY <1>5, <1>9
<1>11. \A d, e \in PoolCalls : v3'[d].pc = "ending" /\ v3'[e].pc = "ending" => e = d BY <1>1, <1>10
<1>12. v4' \in [PoolDatabases -> Stored!Tabled] /\ v5' \in [PoolCalls -> SUBSET Stored!Tabled] BY <1>1, <1>2
<1>13. \A d \in PoolCalls : d # c => (d \in v6' <=> d \in v6) BY <1>3
<1>14. CASE v1 # 0
  <2>1. UNCHANGED <<v1, v2>> BY <1>14 DEF Stored!CreateDBConnection, Stored!MakesPool
  <2>2. ASSUME NEW d \in PoolCalls, d # c PROVE CallFits(v3'[d], v5'[d], d \in v6', v1', v2', v4')
    <3>1. d \in v6' <=> d \in v6 BY <1>13, <2>2
    <3>2. CallFits(v3[d], v5[d], d \in v6, v1, v2, v4) BY <1>1
    <3>. QED BY <1>2, <1>9, <2>1, <2>2, <3>1, <3>2 DEF CallFits
  <2>3. CallFits(k, v5[c], c \in v6', v1, v2, v4)
    <3>1. c \in v6' \/ Serves(k, v5[c], v1, v2, v4) BY <1>3, <1>5, <1>7, <1>14 DEF Serves
    <3>2. Judges(k, v5[c]) BY <1>5, <1>7 DEF Judges
    <3>. QED BY <1>5, <1>7, <3>1, <3>2 DEF CallFits
  <2>4. CallFits(v3'[c], v5'[c], c \in v6', v1', v2', v4') BY <1>2, <1>9, <2>1, <2>3
  <2>5. \A d \in PoolCalls : CallFits(v3'[d], v5'[d], d \in v6', v1', v2', v4') BY <2>2, <2>4
  <2>6. PoolFits(v1', v2') BY <1>1, <2>1
  <2>. QED BY <1>8, <1>11, <1>12, <2>5, <2>6, PoolPrimed
<1>15. CASE v1 = 0
  <2>. DEFINE new == [dsn |-> x.dsn, state |-> "open"]
  <2>1. v2' = Append(v2, new) /\ v1' = Len(v2') /\ v6' = v6
    BY <1>3, <1>15 DEF Stored!CreateDBConnection, Stored!MakesPool, Stored!MadeFor
  <2>2. new \in T /\ new.dsn = x.dsn /\ new.state = "open" BY <1>1, PoolCallFields
  <2>3. v2 \in Seq(T) /\ \A q \in DOMAIN v2 : v2[q].state = "ended" BY <1>1, <1>15 DEF PoolFits
  <2>. HIDE DEF new, T
  <2>. DEFINE n == Len(v2)
  <2>4. n \in Nat /\ DOMAIN v2 = 1 .. n BY <2>3
  <2>5. v2' \in Seq(T) /\ Len(v2') = n + 1 /\ DOMAIN v2' = 1 .. n + 1 BY <2>1, <2>2, <2>3
  <2>6. v2'[n + 1] = new /\ \A q \in DOMAIN v2 : v2'[q] = v2[q] BY <2>1, <2>2, <2>3
  <2>7. v1' = n + 1 BY <2>1, <2>5
  <2>. HIDE DEF n
  <2>8. \A q \in DOMAIN v2' : q = n + 1 \/ (q \in DOMAIN v2 /\ q # n + 1) BY <2>4, <2>5
  <2>9. PoolFits(v1', v2')
    <3>1. ASSUME NEW q \in DOMAIN v2' PROVE v2'[q].state = "ended" <=> q # v1'
      <4>1. CASE q = n + 1 BY <2>2, <2>6, <2>7, <4>1
      <4>2. CASE q # n + 1
        <5>1. q \in DOMAIN v2 /\ v2'[q] = v2[q] BY <2>6, <2>8, <4>2
        <5>. QED BY <2>3, <2>7, <4>2, <5>1
      <4>. QED BY <4>1, <4>2
    <3>2. v2' \in Seq([dsn : PoolDatabases, state : {"open", "ending", "ended"}]) BY <2>5 DEF T
    <3>3. v1' = Len(v2') BY <2>1
    <3>. QED BY <3>1, <3>2, <3>3 DEF PoolFits
  <2>10. 0 \notin DOMAIN v2 /\ DOMAIN v2 \subseteq DOMAIN v2' /\ n + 1 \in DOMAIN v2' /\ n + 1 # 0
    BY <2>4, <2>5
  <2>11. ASSUME NEW d \in PoolCalls, d # c PROVE CallFits(v3'[d], v5'[d], d \in v6', v1', v2', v4')
    <3>1. CallFits(v3[d], v5[d], d \in v6, v1, v2, v4) BY <1>1
    <3>2. v3[d].pc # "querying" /\ v3[d].pc # "ending" BY <1>15, <2>10, <3>1 DEF CallFits
    <3>3. d \in v6 \/ ~Works(v3[d]) BY <1>15, <3>1 DEF CallFits, Serves
    <3>4. d \in v6 \/ \A q \in v3[d].on : v2'[q].dsn = v3[d].dsn BY <2>6, <3>1 DEF CallFits
    <3>5. v3[d].on \subseteq DOMAIN v2' BY <2>10, <3>1 DEF CallFits
    <3>6. CallFits(v3[d], v5[d], d \in v6, v1', v2', v4)
      BY <3>1, <3>2, <3>3, <3>4, <3>5 DEF CallFits
    <3>. QED BY <1>2, <1>9, <2>1, <2>11, <3>6
  <2>12. CallFits(k, v5[c], c \in v6, v1', v2', v4)
    <3>1. Serves(k, v5[c], v1', v2', v4) BY <1>5, <1>7, <2>2, <2>6, <2>7, <2>10 DEF Serves
    <3>2. Judges(k, v5[c]) BY <1>5, <1>7 DEF Judges
    <3>. QED BY <1>5, <1>7, <3>1, <3>2 DEF CallFits
  <2>13. CallFits(v3'[c], v5'[c], c \in v6', v1', v2', v4') BY <1>2, <1>9, <2>1, <2>12
  <2>14. \A d \in PoolCalls : CallFits(v3'[d], v5'[d], d \in v6', v1', v2', v4') BY <2>11, <2>13
  <2>. QED BY <1>8, <1>11, <1>12, <2>9, <2>14, PoolPrimed
<1>. QED BY <1>14, <1>15

LEMMA PoolStateMoves ==
    ASSUME PoolFits(v1, v2), v1 \in DOMAIN v2, NEW s \in {"open", "ending", "ended"},
           v2' = [v2 EXCEPT ![v1].state = s]
    PROVE  /\ v2' \in Seq([dsn : PoolDatabases, state : {"open", "ending", "ended"}])
           /\ Len(v2') = Len(v2) /\ DOMAIN v2' = DOMAIN v2
           /\ \A q \in DOMAIN v2 : v2'[q].dsn = v2[q].dsn /\ (q # v1 => v2'[q] = v2[q])
           /\ v2'[v1].state = s
<1>. DEFINE T == [dsn : PoolDatabases, state : {"open", "ending", "ended"}]
            p == v2[v1]
            new == [p EXCEPT !.state = s]
<1>1. p \in T /\ v2 \in Seq(T) BY PoolIsOne DEF PoolFits
<1>2. new \in T /\ new.dsn = p.dsn /\ new.state = s
  <2>. HIDE DEF p
  <2>. QED BY <1>1
<1>3. v2' = [v2 EXCEPT ![v1] = new] OBVIOUS
<1>. HIDE DEF T, new
<1>4. v2' \in Seq(T) /\ Len(v2') = Len(v2) /\ DOMAIN v2' = DOMAIN v2 BY <1>1, <1>2, <1>3
<1>5. v2'[v1] = new /\ \A q \in DOMAIN v2 : q # v1 => v2'[q] = v2[q] BY <1>3
<1>6. \A q \in DOMAIN v2 : v2'[q].dsn = v2[q].dsn BY <1>2, <1>5
<1>. QED BY <1>2, <1>4, <1>5, <1>6 DEF T

\* A close lets the pool's clients go before the pool does.
LEMMA PoolCloses ==
    ASSUME Stored!PoolInv, NEW c \in PoolCalls, Stored!Close(c) PROVE Stored!PoolInv'
<1>. DEFINE x == v3[c]
            k == PoolCallOf(x.op, x.dsn, "ending", {v1}, x.listed, x.read, x.answer)
<1>1. /\ x \in Stored!CallsOfPools /\ v3 \in [PoolCalls -> Stored!CallsOfPools]
      /\ v5 \in [PoolCalls -> SUBSET Stored!Tabled] /\ v4 \in [PoolDatabases -> Stored!Tabled]
      /\ \A d \in PoolCalls : CallFits(v3[d], v5[d], d \in v6, v1, v2, v4)
      /\ PoolFits(v1, v2)
      /\ \A d, e \in PoolCalls : v3[d].pc = "ending" /\ v3[e].pc = "ending" => e = d
  BY PoolParts
<1>2. UNCHANGED <<v1, v4, v5, v6>> /\ x.pc = "connected" /\ x.op = "close" BY DEF Stored!Close
<1>3. CASE v1 = 0
  <2>1. v3' = [v3 EXCEPT ![c].pc = "done", ![c].answer = "closed"] /\ UNCHANGED v2 BY <1>3 DEF Stored!Close
  <2>2. [x EXCEPT !.pc = "done", !.answer = "closed"].answer = "closed" BY <1>1 DEF Stored!CallsOfPools
  <2>3. Judges([x EXCEPT !.pc = "done", !.answer = "closed"], v5[c]) BY <2>2 DEF Judges
  <2>. QED BY <1>2, <2>1, <2>3, PoolCallEnds
<1>4. CASE v1 # 0 /\ v2[v1].state # "open"
  <2>1. Stored!Fail(c) /\ UNCHANGED v2 BY <1>4 DEF Stored!Close
  <2>. QED BY <1>2, <2>1, PoolFails
<1>5. CASE v1 # 0 /\ v2[v1].state = "open"
  <2>1. v2' = [v2 EXCEPT ![v1].state = "ending"] /\ v3' = [v3 EXCEPT ![c].pc = "ending", ![c].on = {v1}]
    BY <1>5 DEF Stored!Close
  <2>2. v1 \in DOMAIN v2 /\ v1 \in Nat
    <3>. DEFINE n == Len(v2)
    <3>1. n \in Nat /\ DOMAIN v2 = 1 .. n /\ v1 = n BY <1>1, <1>5 DEF PoolFits
    <3>. HIDE DEF n
    <3>. QED BY <1>5, <3>1
  <2>3. /\ v2' \in Seq([dsn : PoolDatabases, state : {"open", "ending", "ended"}])
        /\ Len(v2') = Len(v2) /\ DOMAIN v2' = DOMAIN v2
        /\ \A q \in DOMAIN v2 : v2'[q].dsn = v2[q].dsn /\ (q # v1 => v2'[q] = v2[q])
        /\ v2'[v1].state = "ending"
    BY <1>1, <2>1, <2>2, PoolStateMoves
  <2>4. PoolFits(v1', v2')
    <3>1. ASSUME NEW q \in DOMAIN v2' PROVE v2'[q].state = "ended" <=> q # v1'
      BY <1>1, <1>2, <1>5, <2>3 DEF PoolFits
    <3>2. v1' \in {0, Len(v2')} BY <1>1, <1>2, <2>3 DEF PoolFits
    <3>. QED BY <2>3, <3>1, <3>2 DEF PoolFits
  <2>5. v3' = [v3 EXCEPT ![c] = k]
    <3>. DEFINE pc == "ending"
                on == {v1}
    <3>1. v3' = [v3 EXCEPT ![c] = [x EXCEPT !.pc = pc, !.on = on]] BY <1>1, <2>1
    <3>. HIDE DEF pc, on, x
    <3>2. [x EXCEPT !.pc = pc, !.on = on] = PoolCallOf(x.op, x.dsn, pc, on, x.listed, x.read, x.answer)
      BY <1>1, PoolCallRuns
    <3>. QED BY <3>1, <3>2 DEF pc, on, x
  <2>6. k.op = x.op /\ k.dsn = x.dsn /\ k.pc = "ending" /\ k.on = {v1} /\ k.listed = x.listed
        /\ k.read = x.read /\ k.answer = x.answer
    BY PoolCallHas
  <2>7. k \in Stored!CallsOfPools
    <3>. DEFINE pc == "ending"
                on == {v1}
    <3>1. pc \in CallPcs /\ on \in SUBSET Nat BY <2>2 DEF CallPcs
    <3>2. x.op \in CallOps /\ x.listed \in SUBSET PoolTables /\ x.read \in CallReads /\ x.answer \in CallAnswers
      BY <1>1, PoolCallFields
    <3>. HIDE DEF pc, on, x
    <3>3. PoolCallOf(x.op, x.dsn, pc, on, x.listed, x.read, x.answer) \in Stored!CallsOfPools
      BY <1>1, <3>1, <3>2, PoolCallTyped
    <3>. QED BY <3>3 DEF pc, on, x
  <2>. HIDE DEF k
  <2>8. v3'[c] = k /\ \A d \in PoolCalls : d # c => v3'[d] = v3[d] BY <1>1, <2>5
  <2>9. v3' \in [PoolCalls -> Stored!CallsOfPools] BY <1>1, <2>5, <2>7
  <2>10. \A d \in PoolCalls : v3[d].pc # "ending"
    <3>1. ASSUME NEW d \in PoolCalls, v3[d].pc = "ending" PROVE FALSE
      <4>1. CallFits(v3[d], v5[d], d \in v6, v1, v2, v4) BY <1>1
      <4>2. v2[v1].state = "ending" BY <3>1, <4>1 DEF CallFits
      <4>. QED BY <1>5, <4>2
    <3>. QED BY <3>1
  <2>11. \A d, e \in PoolCalls : v3'[d].pc = "ending" /\ v3'[e].pc = "ending" => e = d BY <2>8, <2>10
  <2>12. ASSUME NEW d \in PoolCalls, d # c PROVE CallFits(v3'[d], v5'[d], d \in v6', v1', v2', v4')
    <3>1. CallFits(v3[d], v5[d], d \in v6, v1, v2, v4) /\ v3[d].pc # "ending" BY <1>1, <2>10
    <3>2. d \in v6 \/ \A q \in v3[d].on : v2'[q].dsn = v3[d].dsn BY <2>3, <3>1 DEF CallFits
    <3>3. d \in v6 \/ ~Works(v3[d]) \/ Serves(v3[d], v5[d], v1, v2', v4)
      <4>1. v2'[v1].dsn = v2[v1].dsn BY <2>2, <2>3
      <4>. QED BY <3>1, <4>1 DEF CallFits, Serves
    <3>4. CallFits(v3[d], v5[d], d \in v6, v1, v2', v4)
      BY <2>3, <3>1, <3>2, <3>3 DEF CallFits
    <3>. QED BY <1>2, <2>8, <2>12, <3>4
  <2>13. CallFits(k, v5[c], c \in v6, v1, v2', v4)
    <3>1. CallFits(x, v5[c], c \in v6, v1, v2, v4) BY <1>1
    <3>2. x.answer = "" /\ DOMAIN x.read = {} BY <1>2, <3>1 DEF CallFits
    <3>3. c \in v6 \/ Serves(x, v5[c], v1, v2, v4) BY <1>2, <3>1 DEF CallFits, Works
    <3>4. v2'[v1].dsn = v2[v1].dsn /\ v2'[v1].state = "ending" BY <2>2, <2>3
    <3>5. c \in v6 \/ Serves(k, v5[c], v1, v2', v4) BY <1>2, <2>6, <3>3, <3>4 DEF Serves
    <3>6. Judges(k, v5[c]) BY <2>6, <3>2 DEF Judges
    <3>7. c \in v6 \/ \A q \in k.on : v2'[q].dsn = k.dsn BY <2>6, <3>5 DEF Serves
    <3>8. k.on \subseteq DOMAIN v2' BY <2>2, <2>3, <2>6
    <3>. QED BY <1>2, <2>6, <3>2, <3>4, <3>5, <3>6, <3>7, <3>8 DEF CallFits
  <2>14. CallFits(v3'[c], v5'[c], c \in v6', v1', v2', v4') BY <1>2, <2>8, <2>13
  <2>15. \A d \in PoolCalls : CallFits(v3'[d], v5'[d], d \in v6', v1', v2', v4') BY <2>12, <2>14
  <2>16. v4' \in [PoolDatabases -> Stored!Tabled] /\ v5' \in [PoolCalls -> SUBSET Stored!Tabled] BY <1>1, <1>2
  <2>. QED BY <2>4, <2>9, <2>11, <2>15, <2>16, PoolPrimed
<1>. QED BY <1>3, <1>4, <1>5

\* The pool is gone: no query ran on it, and all who were under way are shadowed.
LEMMA PoolEnds ==
    ASSUME Stored!PoolInv, NEW c \in PoolCalls, Stored!Ended(c) PROVE Stored!PoolInv'
<1>. DEFINE x == v3[c]
            answer == "closed"
            k == PoolCallOf(x.op, x.dsn, "done", x.on, x.listed, x.read, answer)
<1>1. /\ x \in Stored!CallsOfPools /\ v3 \in [PoolCalls -> Stored!CallsOfPools]
      /\ v5 \in [PoolCalls -> SUBSET Stored!Tabled] /\ v4 \in [PoolDatabases -> Stored!Tabled]
      /\ \A d \in PoolCalls : CallFits(v3[d], v5[d], d \in v6, v1, v2, v4)
      /\ PoolFits(v1, v2)
      /\ \A d, e \in PoolCalls : v3[d].pc = "ending" /\ v3[e].pc = "ending" => e = d
  BY PoolParts
<1>2. UNCHANGED <<v4, v5>> /\ x.pc = "ending" /\ v1' = 0 BY DEF Stored!Ended
<1>3. x.on = {v1} /\ x.answer = "" /\ x.on \subseteq DOMAIN v2 BY <1>1, <1>2 DEF CallFits
<1>4. Stored!Running(c) = v1 /\ v1 \in DOMAIN v2 BY <1>3, RunsOn
<1>5. /\ v2' = [v2 EXCEPT ![v1].state = "ended"]
      /\ v3' = [v3 EXCEPT ![c].pc = "done", ![c].answer = "closed"]
      /\ v6' = v6 \cup {d \in PoolCalls : v3[d].pc \notin {"idle", "done"}}
      /\ Stored!Busy(v1) = {}
  BY <1>4 DEF Stored!Ended, Stored!EndedWhen
<1>6. /\ v2' \in Seq([dsn : PoolDatabases, state : {"open", "ending", "ended"}])
      /\ Len(v2') = Len(v2) /\ DOMAIN v2' = DOMAIN v2
      /\ \A q \in DOMAIN v2 : v2'[q].dsn = v2[q].dsn /\ (q # v1 => v2'[q] = v2[q])
      /\ v2'[v1].state = "ended"
  BY <1>1, <1>4, <1>5, PoolStateMoves
<1>7. PoolFits(v1', v2')
  <2>1. ASSUME NEW q \in DOMAIN v2' PROVE v2'[q].state = "ended" <=> q # v1'
    <3>1. v2'[q].state = "ended" BY <1>1, <1>6 DEF PoolFits
    <3>2. 0 \notin DOMAIN v2
      <4>1. v2 \in Seq([dsn : PoolDatabases, state : {"open", "ending", "ended"}]) BY <1>1 DEF PoolFits
      <4>2. Len(v2) \in Nat /\ DOMAIN v2 = 1 .. Len(v2) BY <4>1
      <4>. QED BY <4>2
    <3>. QED BY <1>2, <1>6, <3>1, <3>2
  <2>. QED BY <1>2, <1>6, <2>1 DEF PoolFits
<1>8. v3' = [v3 EXCEPT ![c] = k]
  <2>. DEFINE pc == "done"
  <2>1. v3' = [v3 EXCEPT ![c] = [x EXCEPT !.pc = pc, !.answer = answer]] BY <1>1, <1>5
  <2>. HIDE DEF pc, answer, x
  <2>2. [x EXCEPT !.pc = pc, !.answer = answer] = PoolCallOf(x.op, x.dsn, pc, x.on, x.listed, x.read, answer)
    BY <1>1, PoolCallAnswers
  <2>. QED BY <2>1, <2>2 DEF pc, x
<1>9. k.op = x.op /\ k.dsn = x.dsn /\ k.pc = "done" /\ k.on = x.on /\ k.listed = x.listed
      /\ k.read = x.read /\ k.answer = "closed"
  BY PoolCallHas
<1>10. k \in Stored!CallsOfPools
  <2>. DEFINE pc == "done"
  <2>1. pc \in CallPcs /\ answer \in CallAnswers BY DEF CallPcs, CallAnswers
  <2>2. x.op \in CallOps /\ x.listed \in SUBSET PoolTables /\ x.read \in CallReads /\ x.on \in SUBSET Nat
    BY <1>1, PoolCallFields
  <2>. HIDE DEF pc, answer, x
  <2>3. PoolCallOf(x.op, x.dsn, pc, x.on, x.listed, x.read, answer) \in Stored!CallsOfPools
    BY <1>1, <2>1, <2>2, PoolCallTyped
  <2>. QED BY <2>3 DEF pc, x
<1>. HIDE DEF k
<1>11. v3'[c] = k /\ \A d \in PoolCalls : d # c => v3'[d] = v3[d] BY <1>1, <1>8
<1>12. v3' \in [PoolCalls -> Stored!CallsOfPools] BY <1>1, <1>8, <1>10
<1>13. \A d \in PoolCalls : v3'[d].pc # "ending"
  <2>1. \A d \in PoolCalls : d # c => v3[d].pc # "ending" BY <1>1, <1>2
  <2>. QED BY <1>9, <1>11, <2>1
<1>14. \A d \in PoolCalls : v3[d].pc # "querying"
  <2>1. ASSUME NEW d \in PoolCalls, v3[d].pc = "querying" PROVE FALSE
    <3>1. CallFits(v3[d], v5[d], d \in v6, v1, v2, v4) BY <1>1
    <3>2. v1 \in v3[d].on BY <2>1, <3>1 DEF CallFits
    <3>3. Stored!Running(d) = v1 BY <3>2, RunsOn
    <3>. QED BY <1>5, <2>1, <3>3 DEF Stored!Busy
  <2>. QED BY <2>1
<1>15. \A d \in PoolCalls : (d \notin v6' => d \notin v6) /\ (d \in v6' \/ ~Works(v3[d])) BY <1>5 DEF Works
<1>16. ASSUME NEW d \in PoolCalls, d # c PROVE CallFits(v3'[d], v5'[d], d \in v6', v1', v2', v4')
  <2>1. CallFits(v3[d], v5[d], d \in v6, v1, v2, v4) BY <1>1
  <2>2. v3[d].pc # "ending" /\ v3[d].pc # "querying" BY <1>11, <1>13, <1>14, <1>16
  <2>3. d \in v6' \/ (\A q \in v3[d].on : v2'[q].dsn = v3[d].dsn) BY <1>6, <1>15, <2>1 DEF CallFits
  <2>4. d \in v6' \/ Judges(v3[d], v5[d]) BY <1>15, <2>1 DEF CallFits
  <2>5. d \in v6' \/ ~Works(v3[d]) BY <1>15
  <2>6. CallFits(v3[d], v5[d], d \in v6', v1', v2', v4)
    BY <1>6, <2>1, <2>2, <2>3, <2>4, <2>5 DEF CallFits
  <2>. QED BY <1>2, <1>11, <1>16, <2>6
<1>17. CallFits(k, v5[c], c \in v6', v1', v2', v4)
  <2>1. c \in v6' BY <1>2, <1>5
  <2>2. CallFits(x, v5[c], c \in v6, v1, v2, v4) BY <1>1
  <2>. QED BY <1>3, <1>6, <1>9, <2>1, <2>2 DEF CallFits
<1>18. CallFits(v3'[c], v5'[c], c \in v6', v1', v2', v4') BY <1>2, <1>11, <1>17
<1>19. \A d \in PoolCalls : CallFits(v3'[d], v5'[d], d \in v6', v1', v2', v4') BY <1>16, <1>18
<1>20. v4' \in [PoolDatabases -> Stored!Tabled] /\ v5' \in [PoolCalls -> SUBSET Stored!Tabled] BY <1>1, <1>2
<1>. QED BY <1>7, <1>12, <1>13, <1>19, <1>20, PoolPrimed

\* A table changes under the calls that are reading it.
LEMMA PoolChanges ==
    ASSUME Stored!PoolInv, Stored!Change PROVE Stored!PoolInv'
<1>1. /\ v3 \in [PoolCalls -> Stored!CallsOfPools]
      /\ v5 \in [PoolCalls -> SUBSET Stored!Tabled] /\ v4 \in [PoolDatabases -> Stored!Tabled]
      /\ \A d \in PoolCalls : CallFits(v3[d], v5[d], d \in v6, v1, v2, v4)
      /\ PoolFits(v1, v2)
      /\ \A d, e \in PoolCalls : v3[d].pc = "ending" /\ v3[e].pc = "ending" => e = d
  BY PoolParts
<1>2. UNCHANGED <<v1, v2, v3, v6>> BY DEF Stored!Change
<1>3. v4' \in [PoolDatabases -> Stored!Tabled]
  <2>1. PICK d \in PoolDatabases, t \in PoolTables, state \in {"right", "none"} :
            v4' = [v4 EXCEPT ![d][t] = state]
    BY DEF Stored!Change
  <2>. DEFINE row == [v4[d] EXCEPT ![t] = state]
  <2>2. v4[d] \in [PoolTables -> {"right", "wrong", "none"}] BY <1>1 DEF Stored!Tabled
  <2>3. row \in [PoolTables -> {"right", "wrong", "none"}] BY <2>2
  <2>4. v4' = [v4 EXCEPT ![d] = row] BY <2>1
  <2>. HIDE DEF row
  <2>. QED BY <1>1, <2>3, <2>4 DEF Stored!Tabled
<1>4. v5' = [c \in PoolCalls |->
                 IF v3[c].pc = "done" \/ v3[c].on = {} THEN v5[c]
                 ELSE v5[c] \cup {v4'[v2[Stored!Running(c)].dsn]}]
  BY DEF Stored!Change
<1>5. ASSUME NEW c \in PoolCalls
      PROVE  v5'[c] \in SUBSET Stored!Tabled /\ CallFits(v3'[c], v5'[c], c \in v6', v1', v2', v4')
  <2>1. CallFits(v3[c], v5[c], c \in v6, v1, v2, v4) /\ v5[c] \in SUBSET Stored!Tabled BY <1>1
  <2>2. CASE v3[c].pc = "done" \/ v3[c].on = {}
    <3>1. v5'[c] = v5[c] BY <1>4, <2>2
    <3>2. CallFits(v3[c], v5[c], c \in v6, v1, v2, v4')
      BY <2>1, <2>2 DEF CallFits, Works, Serves
    <3>. QED BY <1>2, <2>1, <3>1, <3>2
  <2>3. CASE v3[c].pc # "done" /\ v3[c].on # {}
    <3>. DEFINE now == v4'[v2[Stored!Running(c)].dsn]
                m == v5[c] \cup {now}
    <3>1. v5'[c] = m BY <1>4, <2>3
    <3>2. Stored!Running(c) \in v3[c].on /\ Stored!Running(c) \in DOMAIN v2 BY <2>3, RunsOn
    <3>3. v2[Stored!Running(c)].dsn \in PoolDatabases BY <1>1, <3>2, PoolIsOne
    <3>4. now \in Stored!Tabled /\ m \in SUBSET Stored!Tabled BY <1>3, <2>1, <3>3
    <3>5. now \in m /\ v5[c] \subseteq m OBVIOUS
    <3>6. c \in v6 \/ ~Works(v3[c]) \/ Serves(v3[c], m, v1, v2, v4')
      <4>1. SUFFICES ASSUME c \notin v6, Works(v3[c]) PROVE Serves(v3[c], m, v1, v2, v4') OBVIOUS
      <4>2. Serves(v3[c], v5[c], v1, v2, v4) BY <2>1, <4>1 DEF CallFits
      <4>3. Stored!Running(c) = v1 BY <3>2, <4>2 DEF Serves
      <4>4. now = v4'[v3[c].dsn] BY <4>2, <4>3 DEF Serves
      <4>. HIDE DEF now, m
      <4>5. v3[c].op = "describe" => Reads(v3[c], m) BY <3>5, <4>2 DEF Serves, Reads
      <4>. QED BY <3>5, <4>2, <4>4, <4>5 DEF Serves
    <3>7. Judges(v3[c], m)
      <4>1. v3[c].answer = "" BY <2>1, <2>3 DEF CallFits
      <4>. QED BY <4>1 DEF Judges
    <3>. HIDE DEF now, m
    <3>8. CallFits(v3[c], m, c \in v6, v1, v2, v4') BY <2>1, <3>6, <3>7 DEF CallFits
    <3>. QED BY <1>2, <3>1, <3>4, <3>8
  <2>. QED BY <2>2, <2>3
<1>6. v5' \in [PoolCalls -> SUBSET Stored!Tabled]
  <2>1. DOMAIN v5' = PoolCalls /\ v5' = [c \in PoolCalls |-> v5'[c]] BY <1>4
  <2>. QED BY <1>5, <2>1
<1>7. \A d, e \in PoolCalls : v3'[d].pc = "ending" /\ v3'[e].pc = "ending" => e = d BY <1>1, <1>2
<1>8. PoolFits(v1', v2') /\ v3' \in [PoolCalls -> Stored!CallsOfPools] BY <1>1, <1>2
<1>. QED BY <1>3, <1>5, <1>6, <1>7, <1>8, PoolPrimed

LEMMA PoolKeeps == ASSUME Stored!PoolInv, Stored!PoolNext PROVE Stored!PoolInv'
<1>1. ASSUME NEW c \in PoolCalls, Stored!QueryFails(c) PROVE Stored!PoolInv'
  <2>1. Stored!Fail(c) /\ UNCHANGED <<v1, v2, v4, v5, v6>> BY <1>1 DEF Stored!QueryFails
  <2>. QED BY <2>1, PoolFails
<1>. QED BY <1>1, PoolConnects, PoolQuery, PoolRows, PoolLists, PoolReads, PoolValidates, PoolCloses,
            PoolEnds, PoolChanges DEF Stored!PoolNext

LEMMA PoolStays ==
    ASSUME Stored!PoolInv, UNCHANGED <<v1, v2, v3, v4, v5, v6, v7>> PROVE Stored!PoolInv'
<1>1. /\ PoolFits(v1, v2) /\ v3 \in [PoolCalls -> Stored!CallsOfPools]
      /\ v4 \in [PoolDatabases -> Stored!Tabled] /\ v5 \in [PoolCalls -> SUBSET Stored!Tabled]
      /\ \A c \in PoolCalls : CallFits(v3[c], v5[c], c \in v6, v1, v2, v4)
      /\ \A c, d \in PoolCalls : v3[c].pc = "ending" /\ v3[d].pc = "ending" => d = c
  BY PoolParts
<1>. QED BY <1>1, PoolPrimed

LEMMA PoolHolds ==
    ASSUME Stored!PoolInv
    PROVE  Stored!ValidWasThere /\ Stored!NoPoolLeaks /\ Stored!AskedIsServed
<1>1. Stored!ValidWasThere BY DEF Stored!PoolInv
<1>2. PoolFits(v1, v2) /\ \A c \in PoolCalls : CallFits(v3[c], v5[c], c \in v6, v1, v2, v4) BY PoolParts
<1>3. ASSUME NEW p \in DOMAIN v2, v2[p].state = "ended", NEW c \in PoolCalls,
             v3[c].pc = "querying", Stored!Running(c) = p
      PROVE  FALSE
  <2>1. v1 \in v3[c].on BY <1>2, <1>3 DEF CallFits
  <2>2. p = v1 BY <1>3, <2>1, RunsOn
  <2>. QED BY <1>2, <1>3, <2>2 DEF PoolFits
<1>4. Stored!NoPoolLeaks BY <1>2, <1>3 DEF Stored!NoPoolLeaks, Stored!Busy, PoolFits
<1>5. Stored!AskedIsServed BY <1>2 DEF Stored!AskedIsServed, CallFits
<1>. QED BY <1>1, <1>4, <1>5

-----------------------------------------------------------------------------
(***************************************************************************)
(* Sessions and their tokens.                                              *)
(***************************************************************************)
LEMMA SecondsBelow ==
    ASSUME NEW t \in Nat
    PROVE  Session!Seconds(t) \in Nat /\ Session!Seconds(t) <= t /\ t <= Session!Seconds(t) + 1
BY DEF Session!Seconds

LEMMA TokensLastAsTold == ASSUME Session!SessionInv PROVE Session!LastsAsTold
<1>. SUFFICES ASSUME NEW n \in DOMAIN v3, NEW kind \in Session!Kinds
              PROVE  LET t == Session!Token(n, kind)
                         told == v3[n].told[kind]
                         owner == v2[v3[n].sid].entity
                     IN /\ t \notin v4 /\ v1 < told => Session!AuthenticateRequest(t, "nobody") = owner
                        /\ v1 > told \/ t \in v4 => Session!AuthenticateRequest(t, "nobody") = "nobody"
  BY DEF Session!LastsAsTold, Session!Tokens, Session!Token
<1>1. Session!Token(n, kind) \in Session!Tokens
      /\ Session!Token(n, kind).n = n /\ Session!Token(n, kind).kind = kind
  BY DEF Session!Tokens, Session!Token
<1>2. v1 \in Nat /\ v3[n].told[kind] \in Nat
      /\ v3[n].exp[kind] = Session!Seconds(v3[n].told[kind])
  <2>1. v3 \in Seq(Session!PairsThere) BY DEF Session!SessionInv
  <2>2. v3[n] \in Session!PairsThere BY <2>1
  <2>3. v3[n].told \in Session!Times BY <2>2 DEF Session!PairsThere
  <2>. QED BY <2>3 DEF Session!SessionInv, Session!Times, Session!Kinds
<1>3. /\ v3[n].exp[kind] \in Nat /\ v3[n].exp[kind] <= v3[n].told[kind]
      /\ v3[n].told[kind] <= v3[n].exp[kind] + 1
  BY <1>2, SecondsBelow
<1>4. Session!Verify(Session!Token(n, kind)) <=>
          Session!Token(n, kind) \notin v4 /\ v3[n].exp[kind] >= v1
  BY <1>1 DEF Session!Verify
<1>5. Session!AuthenticateRequest(Session!Token(n, kind), "nobody") =
          IF Session!Verify(Session!Token(n, kind)) THEN v2[v3[n].sid].entity ELSE "nobody"
  BY <1>1 DEF Session!AuthenticateRequest
<1>. QED BY <1>2, <1>3, <1>4, <1>5

\* What holds of a call while there are so many sessions.
CallHolds(k, n) ==
    /\ k \in Session!CallsThere
    /\ k.op = "mfa" => k.pc = "got"
    /\ k.pc = "verified" => k.id \in 1 .. n
    /\ k.pc = "got" => k.id \in 1 .. n /\ k.copy # <<>>

\* What holds of a pair.
PairHolds(p, n) ==
    /\ p \in Session!PairsThere
    /\ p.sid \in 1 .. n
    /\ \A kind \in Session!Kinds : p.exp[kind] = Session!Seconds(p.told[kind])

LEMMA IdleIsACall ==
    Session!Idle \in Session!CallsThere /\ Session!Idle.op = "none" /\ Session!Idle.pc = "idle"
<1>1. <<>> \in Seq(Session!SessionsThere) OBVIOUS
<1>. QED BY <1>1 DEF Session!Idle, Session!CallsThere, Session!Token, Session!TokensThere,
        Session!Kinds

LEMMA EndedIsACall ==
    /\ [Session!Idle EXCEPT !.pc = "ended"] \in Session!CallsThere
    /\ \A n : CallHolds([Session!Idle EXCEPT !.pc = "ended"], n)
<1>. DEFINE k == [Session!Idle EXCEPT !.pc = "ended"]
<1>1. k \in Session!CallsThere /\ k.op = "none" /\ k.pc = "ended"
  BY IdleIsACall DEF Session!CallsThere
<1>. HIDE DEF k
<1>2. \A n : CallHolds(k, n) BY <1>1 DEF CallHolds
<1>. QED BY <1>1, <1>2 DEF k

LEMMA SessionStart == ASSUME Session!Init PROVE Session!SessionInv
<1>1. /\ v1 = 1 /\ v2 = <<>> /\ v3 = <<>> /\ v5 = [c \in SessionCalls |-> Session!Idle]
  BY DEF Session!Init
<1>. QED BY <1>1, IdleIsACall DEF Session!SessionInv

LEMMA SessionParts ==
    Session!SessionInv <=>
        /\ v1 \in Nat
        /\ v2 \in Seq(Session!SessionsThere)
        /\ v3 \in Seq(Session!PairsThere)
        /\ v5 \in [SessionCalls -> Session!CallsThere]
        /\ \A c \in SessionCalls : CallHolds(v5[c], Len(v2))
        /\ \A n \in DOMAIN v3 : PairHolds(v3[n], Len(v2))
BY DEF Session!SessionInv, CallHolds, PairHolds

\* Sessions stay or one more is made, a call goes on, and a pair is given out.
LEMMA SessionMoves ==
    ASSUME Session!SessionInv, v1' \in Nat,
           v2' \in Seq(Session!SessionsThere), Len(v2') >= Len(v2),
           \/ v5' = v5
           \/ \E c \in SessionCalls, k \in Session!CallsThere :
                  v5' = [v5 EXCEPT ![c] = k] /\ CallHolds(k, Len(v2')),
           \/ v3' = v3
           \/ \E p \in Session!PairsThere : v3' = Append(v3, p) /\ PairHolds(p, Len(v2'))
    PROVE  Session!SessionInv'
<1>. DEFINE n == Len(v2) m == Len(v2')
<1>1. n \in Nat /\ m \in Nat /\ n <= m /\ 1 .. n \subseteq 1 .. m BY DEF Session!SessionInv
<1>2. /\ v3 \in Seq(Session!PairsThere) /\ v5 \in [SessionCalls -> Session!CallsThere]
      /\ \A c \in SessionCalls : CallHolds(v5[c], n)
      /\ \A i \in DOMAIN v3 : PairHolds(v3[i], n)
  BY SessionParts
<1>3. DOMAIN v2' = 1 .. m OBVIOUS
<1>. HIDE DEF n, m
<1>4. \A k : CallHolds(k, n) => CallHolds(k, m) BY <1>1 DEF CallHolds
<1>5. \A p : PairHolds(p, n) => PairHolds(p, m) BY <1>1 DEF PairHolds
<1>6. v5' \in [SessionCalls -> Session!CallsThere] /\ \A c \in SessionCalls : CallHolds(v5'[c], m)
  <2>1. CASE v5' = v5 BY <1>2, <1>4, <2>1
  <2>2. CASE \E c \in SessionCalls, k \in Session!CallsThere :
                 v5' = [v5 EXCEPT ![c] = k] /\ CallHolds(k, m)
    BY <1>2, <1>4, <2>2
  <2>. QED BY <2>1, <2>2 DEF m
<1>7. v3' \in Seq(Session!PairsThere) /\ \A i \in DOMAIN v3' : PairHolds(v3'[i], m)
  <2>1. CASE v3' = v3 BY <1>2, <1>5, <2>1
  <2>2. CASE \E p \in Session!PairsThere : v3' = Append(v3, p) /\ PairHolds(p, m)
    <3>1. PICK p \in Session!PairsThere : v3' = Append(v3, p) /\ PairHolds(p, m) BY <2>2
    <3>2. v3' \in Seq(Session!PairsThere) BY <1>2, <3>1
    <3>3. ASSUME NEW i \in DOMAIN v3' PROVE PairHolds(v3'[i], m)
      <4>1. CASE i \in DOMAIN v3
        <5>1. v3'[i] = v3[i] BY <1>2, <3>1, <4>1
        <5>. QED BY <1>2, <1>5, <4>1, <5>1
      <4>2. CASE i \notin DOMAIN v3
        <5>1. v3'[i] = p BY <1>2, <3>1, <3>3, <4>2
        <5>. QED BY <3>1, <5>1
      <4>. QED BY <4>1, <4>2
    <3>. QED BY <3>2, <3>3
  <2>. QED BY <2>1, <2>2 DEF m
<1>. QED BY <1>3, <1>6, <1>7 DEF Session!SessionInv, CallHolds, PairHolds

LEMMA CallMoves ==
    ASSUME Session!SessionInv, UNCHANGED <<v1, v2>>,
           NEW c \in SessionCalls, NEW k \in Session!CallsThere,
           v5' = [v5 EXCEPT ![c] = k], CallHolds(k, Len(v2)),
           \/ v3' = v3
           \/ \E p \in Session!PairsThere : v3' = Append(v3, p) /\ PairHolds(p, Len(v2))
    PROVE  Session!SessionInv'
<1>1. v1 \in Nat /\ v2 \in Seq(Session!SessionsThere) BY DEF Session!SessionInv
<1>2. v1' \in Nat /\ v2' \in Seq(Session!SessionsThere) /\ Len(v2') = Len(v2)
      /\ Len(v2') >= Len(v2)
  BY <1>1
<1>3. \E d \in SessionCalls, l \in Session!CallsThere :
          v5' = [v5 EXCEPT ![d] = l] /\ CallHolds(l, Len(v2'))
  <2>1. CallHolds(k, Len(v2')) BY <1>2
  <2>. QED BY <2>1, Zenon
<1>4. \/ v3' = v3
      \/ \E p \in Session!PairsThere : v3' = Append(v3, p) /\ PairHolds(p, Len(v2'))
  BY <1>2
<1>. QED BY <1>2, <1>3, <1>4, SessionMoves

LEMMA SessionsAreThere ==
    ASSUME Session!SessionInv, NEW s \in DOMAIN v2 PROVE v2[s] \in Session!SessionsThere
BY DEF Session!SessionInv

\* A pair of tokens for a session that is there.
LEMMA SessionGenerates ==
    ASSUME Session!SessionInv, NEW n \in Nat, NEW s \in 1 .. n,
           NEW from \in SUBSET Session!TokensThere, NEW late \in BOOLEAN,
           Session!Generate(s, from, late)
    PROVE  \E p \in Session!PairsThere :
               /\ v3' = Append(v3, p) /\ PairHolds(p, n)
               /\ p.sid = s /\ p.from = from /\ p.late = late
<1>. DEFINE access == v1 + AccessFor
            refresh == v1 + RefreshFor
            p == [sid |-> s, from |-> from, late |-> late,
                  exp |-> [access |-> Session!Seconds(access), refresh |-> Session!Seconds(refresh)],
                  told |-> [access |-> access, refresh |-> refresh]]
<1>1. access \in Nat /\ refresh \in Nat BY GuardsAssumption DEF Session!SessionInv
<1>2. v3' = Append(v3, p) BY DEF Session!Generate
<1>. HIDE DEF access, refresh
<1>3. Session!Seconds(access) \in Nat /\ Session!Seconds(refresh) \in Nat BY <1>1, SecondsBelow
<1>4. p \in Session!PairsThere BY <1>1, <1>3 DEF Session!PairsThere, Session!Times
<1>5. PairHolds(p, n) BY <1>4 DEF PairHolds, Session!Kinds
<1>6. p.sid = s /\ p.from = from /\ p.late = late OBVIOUS
<1>. HIDE DEF p
<1>. QED BY <1>2, <1>4, <1>5, <1>6

LEMMA SessionIsGiven ==
    ASSUME Session!SessionInv, Session!Generate(Len(v2) + 1, {}, FALSE)
    PROVE  \E p \in Session!PairsThere :
               v3' = Append(v3, p) /\ PairHolds(p, Len(v2) + 1) /\ p.from = {} /\ ~p.late
<1>. DEFINE n == Len(v2) + 1
            id == Len(v2) + 1
            no == FALSE
            from == {}
<1>1. n \in Nat /\ id \in 1 .. n BY DEF Session!SessionInv
<1>2. from \in SUBSET Session!TokensThere /\ no \in BOOLEAN /\ ~no /\ from = {} OBVIOUS
<1>3. Session!Generate(id, from, no) OBVIOUS
<1>. HIDE DEF n, id, no, from
<1>4. PICK p \in Session!PairsThere :
          v3' = Append(v3, p) /\ PairHolds(p, n) /\ p.sid = id /\ p.from = from /\ p.late = no
  BY <1>1, <1>2, <1>3, SessionGenerates, SMTT(30)
<1>. QED BY <1>2, <1>4 DEF n

LEMMA RefreshIsGiven ==
    ASSUME Session!SessionInv, NEW c \in SessionCalls, v5[c].pc = "got",
           Session!Generate(v5[c].id, {v5[c].token}, v5[c].late)
    PROVE  \E p \in Session!PairsThere :
               /\ v3' = Append(v3, p) /\ PairHolds(p, Len(v2))
               /\ p.sid = v5[c].id /\ p.from = {v5[c].token} /\ (p.late <=> v5[c].late)
<1>. DEFINE n == Len(v2)
            id == v5[c].id
            late == v5[c].late
            from == {v5[c].token}
<1>1. v5[c] \in Session!CallsThere /\ id \in 1 .. n /\ n \in Nat
  BY SessionParts DEF CallHolds
<1>2. from \in SUBSET Session!TokensThere /\ late \in BOOLEAN BY <1>1 DEF Session!CallsThere
<1>3. Session!Generate(id, from, late) OBVIOUS
<1>. HIDE DEF n, id, late, from
<1>4. PICK p \in Session!PairsThere :
          v3' = Append(v3, p) /\ PairHolds(p, n) /\ p.sid = id /\ p.from = from /\ p.late = late
  BY <1>1, <1>2, <1>3, SessionGenerates, SMTT(30)
<1>. QED BY <1>4 DEF n, id, late, from

\* What a call is that begins, and one that has read its session.
LEMMA MfaBegins ==
    ASSUME Session!SessionInv, NEW s \in DOMAIN v2, NEW c \in SessionCalls, Session!VerifyMfa(c, s)
    PROVE  \E k \in Session!CallsThere :
               /\ v5' = [v5 EXCEPT ![c] = k]
               /\ k.op = "mfa" /\ k.pc = "got" /\ k.id = s /\ k.copy = <<v2[s]>> /\ ~k.late
<1>. DEFINE none == Session!Token(0, "refresh")
            no == FALSE
            empty == <<>>
            copy == <<v2[s]>>
            k == [Session!Idle EXCEPT !.op = "mfa", !.pc = "got", !.id = s, !.copy = copy]
<1>1. v5' = [v5 EXCEPT ![c] = k] BY DEF Session!VerifyMfa
<1>2. copy \in Seq(Session!SessionsThere) BY SessionsAreThere
<1>3. none \in Session!TokensThere /\ s \in Nat /\ no \in BOOLEAN /\ ~no
  BY DEF Session!Token, Session!TokensThere, Session!Kinds, Session!SessionInv
<1>4. Session!Idle = [op |-> "none", pc |-> "idle", token |-> none, id |-> 0,
                      copy |-> empty, late |-> no]
  BY DEF Session!Idle
<1>5. k = [Session!Idle EXCEPT !.op = "mfa", !.pc = "got", !.id = s, !.copy = copy] OBVIOUS
<1>6. copy = <<v2[s]>> OBVIOUS
<1>. HIDE DEF none, no, empty, copy, k
<1>7. k = [op |-> "mfa", pc |-> "got", token |-> none, id |-> s, copy |-> copy, late |-> no]
  BY <1>4, <1>5
<1>8. k \in Session!CallsThere /\ k.op = "mfa" /\ k.pc = "got" /\ k.id = s /\ k.copy = copy /\ ~k.late
  BY <1>2, <1>3, <1>7 DEF Session!CallsThere
<1>. QED BY <1>1, <1>6, <1>8

LEMMA RefreshBegins ==
    ASSUME Session!SessionInv, NEW t \in Session!Tokens, NEW c \in SessionCalls,
           Session!Refresh(c, t)
    PROVE  /\ t \in Session!TokensThere /\ t.n \in DOMAIN v3
           /\ \E k \in Session!CallsThere :
                  /\ v5' = [v5 EXCEPT ![c] = k]
                  /\ k.op = "refresh" /\ k.pc = "verified" /\ k.token = t
                  /\ k.id = v3[t.n].sid /\ (k.late => k.id \in v6)
<1>. DEFINE none == Session!Token(0, "refresh")
            no == FALSE
            empty == <<>>
            id == v3[t.n].sid
            late == id \in v6
            k == [Session!Idle EXCEPT !.op = "refresh", !.pc = "verified", !.token = t,
                                      !.id = id, !.late = late]
<1>1. v5' = [v5 EXCEPT ![c] = k] BY DEF Session!Refresh
<1>2. t \in Session!TokensThere /\ t.n \in DOMAIN v3
  BY DEF Session!Tokens, Session!Token, Session!TokensThere, Session!SessionInv
<1>3. id \in Nat /\ late \in BOOLEAN
  <2>1. v3[t.n] \in Session!PairsThere BY <1>2 DEF Session!SessionInv
  <2>. QED BY <2>1 DEF Session!PairsThere
<1>4. (late => id \in v6) /\ empty \in Seq(Session!SessionsThere) OBVIOUS
<1>5. Session!Idle = [op |-> "none", pc |-> "idle", token |-> none, id |-> 0,
                      copy |-> empty, late |-> no]
  BY DEF Session!Idle
<1>6. k = [Session!Idle EXCEPT !.op = "refresh", !.pc = "verified", !.token = t, !.id = id,
                              !.late = late]
  OBVIOUS
<1>. HIDE DEF none, no, empty, id, late, k
<1>7. k = [op |-> "refresh", pc |-> "verified", token |-> t, id |-> id, copy |-> empty,
           late |-> late]
  BY <1>5, <1>6
<1>8. /\ k \in Session!CallsThere /\ k.op = "refresh" /\ k.pc = "verified" /\ k.token = t
      /\ k.id = id /\ (k.late <=> late)
  BY <1>2, <1>3, <1>4, <1>7 DEF Session!CallsThere
<1>. QED BY <1>1, <1>2, <1>4, <1>8 DEF id

LEMMA SessionIsRead ==
    ASSUME Session!SessionInv, NEW c \in SessionCalls, Session!GetSession(c)
    PROVE  \E k \in Session!CallsThere :
               /\ v5' = [v5 EXCEPT ![c] = k]
               /\ k.op = v5[c].op /\ k.pc = "got" /\ k.token = v5[c].token
               /\ k.id = v5[c].id /\ k.copy = <<v2[k.id]>> /\ (k.late <=> v5[c].late)
               /\ k.id \in DOMAIN v2
<1>. DEFINE copy == <<v2[v5[c].id]>>
            k == [v5[c] EXCEPT !.pc = "got", !.copy = copy]
<1>1. v5' = [v5 EXCEPT ![c] = k] /\ v5[c].pc = "verified" BY DEF Session!GetSession
<1>2. v5[c] \in Session!CallsThere /\ v5[c].id \in DOMAIN v2 BY <1>1 DEF Session!SessionInv
<1>3. copy \in Seq(Session!SessionsThere) BY <1>2, SessionsAreThere
<1>4. copy = <<v2[v5[c].id]>> OBVIOUS
<1>. HIDE DEF copy
<1>5. /\ k \in Session!CallsThere /\ k.op = v5[c].op /\ k.pc = "got" /\ k.token = v5[c].token
      /\ k.id = v5[c].id /\ k.copy = copy /\ (k.late <=> v5[c].late)
  BY <1>2, <1>3 DEF Session!CallsThere
<1>. HIDE DEF k
<1>. QED BY <1>1, <1>2, <1>4, <1>5

LEMMA SessionKeeps ==
    ASSUME Session!SessionInv, Session!Next PROVE Session!SessionInv'
<1>. DEFINE Same == UNCHANGED <<v1, v2, v3, v5>>
<1>1. /\ v1 \in Nat /\ v2 \in Seq(Session!SessionsThere) /\ Len(v2) \in Nat
      /\ v3 \in Seq(Session!PairsThere) /\ v5 \in [SessionCalls -> Session!CallsThere]
      /\ \A c \in SessionCalls : CallHolds(v5[c], Len(v2))
      /\ \A n \in DOMAIN v3 : PairHolds(v3[n], Len(v2))
  BY SessionParts
<1>2. ASSUME Same \/ (v1' \in Nat /\ UNCHANGED <<v2, v3, v5>>) PROVE Session!SessionInv'
  BY <1>1, <1>2, SessionMoves
<1>3. CASE Session!Tick BY <1>1, <1>2, <1>3 DEF Session!Tick
<1>4. ASSUME NEW e \in Entities, Session!Authenticate(e) PROVE Session!SessionInv'
  <2>. DEFINE s == [entity |-> e, expiresAt |-> v1 + SessionFor, mfaVerified |-> FALSE,
                    revoked |-> FALSE]
  <2>1. s \in Session!SessionsThere BY <1>1, GuardsAssumption DEF Session!SessionsThere
  <2>2. v2' = Append(v2, s) /\ v1' = v1 /\ v5' = v5
        /\ Session!Generate(Len(v2) + 1, {}, FALSE)
    BY <1>4 DEF Session!Authenticate
  <2>. HIDE DEF s
  <2>3. v2' \in Seq(Session!SessionsThere) /\ Len(v2') = Len(v2) + 1
    BY <1>1, <2>1, <2>2
  <2>4. \E p \in Session!PairsThere : v3' = Append(v3, p) /\ PairHolds(p, Len(v2) + 1)
    BY <2>2, SessionIsGiven
  <2>5. \E p \in Session!PairsThere : v3' = Append(v3, p) /\ PairHolds(p, Len(v2'))
    BY <2>3, <2>4
  <2>. QED BY <1>1, <2>2, <2>3, <2>5, SessionMoves
<1>5. ASSUME NEW e \in Entities, Session!RevokeAll(e) PROVE Session!SessionInv'
  <2>1. v2' = [s \in DOMAIN v2 |->
                  IF v2[s].entity = e THEN [v2[s] EXCEPT !.revoked = TRUE] ELSE v2[s]]
        /\ UNCHANGED <<v1, v3, v5>>
    BY <1>5 DEF Session!RevokeAll
  <2>2. \A s \in DOMAIN v2 : v2[s] \in Session!SessionsThere
                               /\ [v2[s] EXCEPT !.revoked = TRUE] \in Session!SessionsThere
    BY SessionsAreThere DEF Session!SessionsThere
  <2>3. v2' \in Seq(Session!SessionsThere) /\ Len(v2') = Len(v2) BY <1>1, <2>1, <2>2
  <2>. QED BY <1>1, <2>1, <2>3, SessionMoves
<1>6. ASSUME NEW s \in DOMAIN v2, Session!Revoke(s) PROVE Session!SessionInv'
  <2>1. v2' = [v2 EXCEPT ![s] = [v2[s] EXCEPT !.revoked = TRUE]] /\ UNCHANGED <<v1, v3, v5>>
    BY <1>6 DEF Session!Revoke
  <2>2. [v2[s] EXCEPT !.revoked = TRUE] \in Session!SessionsThere
    BY SessionsAreThere DEF Session!SessionsThere
  <2>3. v2' \in Seq(Session!SessionsThere) /\ Len(v2') = Len(v2) BY <1>1, <2>1, <2>2
  <2>. QED BY <1>1, <2>1, <2>3, SessionMoves
<1>7. ASSUME NEW s \in DOMAIN v2, NEW c \in SessionCalls, Session!VerifyMfa(c, s)
      PROVE  Session!SessionInv'
  <2>1. PICK k \in Session!CallsThere :
            /\ v5' = [v5 EXCEPT ![c] = k]
            /\ k.op = "mfa" /\ k.pc = "got" /\ k.id = s /\ k.copy = <<v2[s]>> /\ ~k.late
    BY <1>7, MfaBegins, Zenon
  <2>2. UNCHANGED <<v1, v2, v3>> BY <1>7 DEF Session!VerifyMfa
  <2>3. s \in 1 .. Len(v2) /\ k.copy # <<>> BY <1>1, <2>1
  <2>4. CallHolds(k, Len(v2)) BY <2>1, <2>3 DEF CallHolds
  <2>. QED BY <1>1, <2>1, <2>2, <2>4, CallMoves
<1>8. ASSUME NEW t \in Session!Tokens, Session!RevokeToken(t) PROVE Session!SessionInv'
  BY <1>2, <1>8 DEF Session!RevokeToken
<1>9. ASSUME NEW t \in Session!Tokens, NEW c \in SessionCalls, Session!Refresh(c, t)
      PROVE  Session!SessionInv'
  <2>1. PICK k \in Session!CallsThere :
            /\ v5' = [v5 EXCEPT ![c] = k] /\ t.n \in DOMAIN v3
            /\ k.op = "refresh" /\ k.pc = "verified" /\ k.id = v3[t.n].sid
    BY <1>9, RefreshBegins
  <2>2. UNCHANGED <<v1, v2, v3>> BY <1>9 DEF Session!Refresh
  <2>3. v3[t.n].sid \in 1 .. Len(v2) BY <1>1, <2>1 DEF PairHolds
  <2>4. CallHolds(k, Len(v2)) BY <2>1, <2>3 DEF CallHolds
  <2>. QED BY <1>1, <2>1, <2>2, <2>4, CallMoves
<1>10. ASSUME NEW c \in SessionCalls, Session!GetSession(c) PROVE Session!SessionInv'
  <2>1. PICK k \in Session!CallsThere :
            /\ v5' = [v5 EXCEPT ![c] = k] /\ k.id \in DOMAIN v2
            /\ k.pc = "got" /\ k.copy = <<v2[k.id]>>
    BY <1>10, SessionIsRead
  <2>2. UNCHANGED <<v1, v2, v3>> BY <1>10 DEF Session!GetSession
  <2>3. k.id \in 1 .. Len(v2) /\ k.copy # <<>> BY <1>1, <2>1
  <2>4. CallHolds(k, Len(v2)) BY <2>1, <2>3 DEF CallHolds
  <2>. QED BY <1>1, <2>1, <2>2, <2>4, CallMoves
<1>11. ASSUME NEW c \in SessionCalls, Session!EndRefresh(c) PROVE Session!SessionInv'
  <2>. DEFINE k == [Session!Idle EXCEPT !.pc = "ended"]
  <2>1. v5' = [v5 EXCEPT ![c] = k] /\ v5[c].pc = "got" /\ UNCHANGED <<v1, v2>>
        /\ (v3' = v3 \/ Session!Generate(v5[c].id, {v5[c].token}, v5[c].late))
    BY <1>11 DEF Session!EndRefresh
  <2>2. CASE v3' = v3
    <3>1. k \in Session!CallsThere /\ CallHolds(k, Len(v2)) BY EndedIsACall
    <3>. HIDE DEF k
    <3>. QED BY <1>1, <2>1, <2>2, <3>1, CallMoves
  <2>3. CASE Session!Generate(v5[c].id, {v5[c].token}, v5[c].late)
    <3>1. PICK p \in Session!PairsThere :
              /\ v3' = Append(v3, p) /\ PairHolds(p, Len(v2))
              /\ p.sid = v5[c].id /\ p.from = {v5[c].token} /\ (p.late <=> v5[c].late)
      BY <2>1, <2>3, RefreshIsGiven, Zenon
    <3>2. k \in Session!CallsThere /\ CallHolds(k, Len(v2)) BY EndedIsACall
    <3>. HIDE DEF k
    <3>. QED BY <1>1, <2>1, <3>1, <3>2, CallMoves
  <2>. QED BY <2>1, <2>2, <2>3
<1>12. ASSUME NEW c \in SessionCalls, NEW isValid \in BOOLEAN, Session!EndVerifyMfa(c, isValid)
       PROVE  Session!SessionInv'
  <2>. DEFINE k == [Session!Idle EXCEPT !.pc = "ended"]
              s == [Head(v5[c].copy) EXCEPT !.mfaVerified = TRUE]
  <2>1. v5' = [v5 EXCEPT ![c] = k] /\ v5[c].op = "mfa" /\ UNCHANGED <<v1, v3>>
        /\ (v2' = v2 \/ v2' = [v2 EXCEPT ![v5[c].id] = s])
    BY <1>12 DEF Session!EndVerifyMfa
  <2>2. v5[c] \in Session!CallsThere /\ v5[c].copy # <<>> BY <1>1, <2>1 DEF CallHolds
  <2>3. v5[c].copy \in Seq(Session!SessionsThere) BY <2>2 DEF Session!CallsThere
  <2>4. Head(v5[c].copy) \in Session!SessionsThere BY <2>2, <2>3
  <2>5. s \in Session!SessionsThere BY <2>4 DEF Session!SessionsThere
  <2>6. k \in Session!CallsThere /\ \A n : CallHolds(k, n) BY EndedIsACall
  <2>. HIDE DEF k, s
  <2>7. v2' \in Seq(Session!SessionsThere) /\ Len(v2') = Len(v2) BY <1>1, <2>1, <2>5
  <2>8. v1' \in Nat /\ Len(v2') >= Len(v2) /\ v3' = v3 BY <1>1, <2>1, <2>7
  <2>9. \E d \in SessionCalls, l \in Session!CallsThere :
            v5' = [v5 EXCEPT ![d] = l] /\ CallHolds(l, Len(v2'))
    BY <2>1, <2>6, Zenon
  <2>. QED BY <2>7, <2>8, <2>9, SessionMoves
<1>. QED BY <1>3, <1>4, <1>5, <1>6, <1>7, <1>8, <1>9, <1>10, <1>11, <1>12 DEF Session!Next

\* What is revoked stays so: a call that is about to write a session, or that
\* was asked for when it was revoked already, has seen that it is.
CallSees(k, ids, read) ==
    /\ k.late => k.id \in ids
    /\ k.pc = "got" /\ k.id \in ids \ read /\ (k.op = "mfa" \/ k.late) => Head(k.copy).revoked

LEMMA EndedParts ==
    Session!EndedInv <=>
        /\ v6 \subseteq DOMAIN v2
        /\ \A s \in v6 \ v7 : v2[s].revoked
        /\ \A c \in SessionCalls : CallSees(v5[c], v6, v7)
        /\ \A n \in DOMAIN v3 : v3[n].late => v3[n].sid \in v7
BY DEF Session!EndedInv, CallSees

LEMMA EndedStart == ASSUME Session!Init PROVE Session!EndedInv
<1>1. Session!Idle.late = FALSE /\ Session!Idle.pc = "idle" BY DEF Session!Idle
<1>. QED BY <1>1 DEF Session!Init, Session!EndedInv

\* A call goes on, and a pair is given out.
LEMMA EndedMoves ==
    ASSUME Session!SessionInv, Session!EndedInv, UNCHANGED <<v6, v7>>,
           DOMAIN v2 \subseteq DOMAIN v2', \A s \in v6 \ v7 : v2'[s].revoked,
           \/ v5' = v5
           \/ \E c \in SessionCalls, k \in Session!CallsThere :
                  v5' = [v5 EXCEPT ![c] = k] /\ CallSees(k, v6, v7),
           \/ v3' = v3
           \/ \E p \in Session!PairsThere : v3' = Append(v3, p) /\ (p.late => p.sid \in v7)
    PROVE  Session!EndedInv'
<1>1. /\ v6 \subseteq DOMAIN v2
      /\ \A c \in SessionCalls : CallSees(v5[c], v6, v7)
      /\ \A n \in DOMAIN v3 : v3[n].late => v3[n].sid \in v7
      /\ v3 \in Seq(Session!PairsThere) /\ v5 \in [SessionCalls -> Session!CallsThere]
  BY EndedParts DEF Session!SessionInv
<1>2. \A c \in SessionCalls : CallSees(v5'[c], v6, v7)
  <2>1. CASE v5' = v5 BY <1>1, <2>1
  <2>2. CASE \E c \in SessionCalls, k \in Session!CallsThere :
                 v5' = [v5 EXCEPT ![c] = k] /\ CallSees(k, v6, v7)
    BY <1>1, <2>2
  <2>. QED BY <2>1, <2>2
<1>3. \A n \in DOMAIN v3' : v3'[n].late => v3'[n].sid \in v7
  <2>1. CASE v3' = v3 BY <1>1, <2>1
  <2>2. CASE \E p \in Session!PairsThere : v3' = Append(v3, p) /\ (p.late => p.sid \in v7)
    <3>1. PICK p \in Session!PairsThere : v3' = Append(v3, p) /\ (p.late => p.sid \in v7) BY <2>2
    <3>2. ASSUME NEW i \in DOMAIN v3' PROVE v3'[i] = p \/ (i \in DOMAIN v3 /\ v3'[i] = v3[i])
      BY <1>1, <3>1, <3>2
    <3>. QED BY <1>1, <3>1, <3>2
  <2>. QED BY <2>1, <2>2
<1>. QED BY <1>1, <1>2, <1>3 DEF Session!EndedInv, CallSees

LEMMA IdleNotLate ==
    LET k == [Session!Idle EXCEPT !.pc = "ended"] IN k.pc = "ended" /\ k.op = "none" /\ ~k.late
<1>. DEFINE none == Session!Token(0, "refresh")
            no == FALSE
            empty == <<>>
            k == [Session!Idle EXCEPT !.pc = "ended"]
<1>1. Session!Idle = [op |-> "none", pc |-> "idle", token |-> none, id |-> 0,
                      copy |-> empty, late |-> no]
  BY DEF Session!Idle
<1>2. k = [Session!Idle EXCEPT !.pc = "ended"] /\ ~no OBVIOUS
<1>. HIDE DEF none, no, empty, k
<1>3. k.pc = "ended" /\ k.op = "none" /\ ~k.late BY <1>1, <1>2
<1>. QED BY <1>3 DEF k

\* A revocation: of these sessions no copy was read to be written back.
LEMMA EndedEnds ==
    ASSUME Session!SessionInv, Session!EndedInv, NEW ids \in SUBSET DOMAIN v2, Session!Ends(ids),
           v3' = v3, v5' = v5, DOMAIN v2' = DOMAIN v2,
           \A s \in DOMAIN v2 : s \in ids \/ v2[s].revoked => v2'[s].revoked
    PROVE  Session!EndedInv'
<1>1. /\ v6 \subseteq DOMAIN v2 /\ \A s \in v6 \ v7 : v2[s].revoked
      /\ \A c \in SessionCalls : CallSees(v5[c], v6, v7)
      /\ \A n \in DOMAIN v3 : v3[n].late => v3[n].sid \in v7
  BY EndedParts
<1>2. /\ v6' = v6 \cup ids /\ v7 \subseteq v7'
      /\ \A c \in SessionCalls : v5[c].op = "mfa" /\ v5[c].id \in ids => v5[c].id \in v7'
  BY DEF Session!Ends
<1>3. v6' \subseteq DOMAIN v2' /\ \A s \in v6' \ v7' : v2'[s].revoked BY <1>1, <1>2
<1>4. \A c \in SessionCalls : CallSees(v5'[c], v6', v7') BY <1>1, <1>2 DEF CallSees
<1>5. \A n \in DOMAIN v3' : v3'[n].late => v3'[n].sid \in v7' BY <1>1, <1>2
<1>. QED BY <1>3, <1>4, <1>5 DEF Session!EndedInv, CallSees

LEMMA EndedKeeps ==
    ASSUME Session!SessionInv, Session!EndedInv, Session!Next PROVE Session!EndedInv'
<1>1. /\ v2 \in Seq(Session!SessionsThere) /\ Len(v2) \in Nat
      /\ v5 \in [SessionCalls -> Session!CallsThere]
      /\ \A c \in SessionCalls : CallHolds(v5[c], Len(v2))
  BY SessionParts
<1>2. /\ v6 \subseteq DOMAIN v2 /\ \A s \in v6 \ v7 : v2[s].revoked
      /\ \A c \in SessionCalls : CallSees(v5[c], v6, v7)
  BY EndedParts
<1>3. ASSUME UNCHANGED <<v2, v3, v5, v6, v7>> PROVE Session!EndedInv'
  BY <1>2, <1>3, EndedMoves
<1>4. CASE Session!Tick BY <1>3, <1>4 DEF Session!Tick
<1>5. ASSUME NEW e \in Entities, Session!Authenticate(e) PROVE Session!EndedInv'
  <2>. DEFINE s == [entity |-> e, expiresAt |-> v1 + SessionFor, mfaVerified |-> FALSE,
                    revoked |-> FALSE]
  <2>1. v2' = Append(v2, s) /\ UNCHANGED <<v5, v6, v7>> /\ Session!Generate(Len(v2) + 1, {}, FALSE)
    BY <1>5 DEF Session!Authenticate
  <2>. HIDE DEF s
  <2>2. PICK p \in Session!PairsThere :
            v3' = Append(v3, p) /\ PairHolds(p, Len(v2) + 1) /\ p.from = {} /\ ~p.late
    BY <2>1, SessionIsGiven
  <2>3. v3' = Append(v3, p) /\ ~p.late BY <2>2
  <2>4. DOMAIN v2 \subseteq DOMAIN v2' /\ \A d \in DOMAIN v2 : v2'[d] = v2[d] BY <1>1, <2>1
  <2>5. \A d \in v6 \ v7 : v2'[d].revoked BY <1>2, <2>4
  <2>. QED BY <2>1, <2>3, <2>4, <2>5, EndedMoves
<1>6. ASSUME NEW e \in Entities, Session!RevokeAll(e) PROVE Session!EndedInv'
  <2>. DEFINE ids == {s \in DOMAIN v2 : v2[s].entity = e}
  <2>1. /\ v2' = [s \in DOMAIN v2 |-> IF s \in ids THEN [v2[s] EXCEPT !.revoked = TRUE] ELSE v2[s]]
        /\ Session!Ends(ids) /\ v3' = v3 /\ v5' = v5
    BY <1>6 DEF Session!RevokeAll
  <2>2. ids \in SUBSET DOMAIN v2 OBVIOUS
  <2>. HIDE DEF ids
  <2>3. \A s \in DOMAIN v2 : [v2[s] EXCEPT !.revoked = TRUE].revoked
    BY SessionsAreThere DEF Session!SessionsThere
  <2>4. DOMAIN v2' = DOMAIN v2 BY <2>1
  <2>5. \A s \in DOMAIN v2 : s \in ids \/ v2[s].revoked => v2'[s].revoked BY <2>1, <2>3
  <2>. QED BY <2>1, <2>2, <2>4, <2>5, EndedEnds
<1>7. ASSUME NEW s \in DOMAIN v2, Session!Revoke(s) PROVE Session!EndedInv'
  <2>1. /\ v2' = [v2 EXCEPT ![s] = [v2[s] EXCEPT !.revoked = TRUE]]
        /\ Session!Ends({s}) /\ v3' = v3 /\ v5' = v5
    BY <1>7 DEF Session!Revoke
  <2>2. {s} \in SUBSET DOMAIN v2 OBVIOUS
  <2>3. [v2[s] EXCEPT !.revoked = TRUE].revoked BY SessionsAreThere DEF Session!SessionsThere
  <2>4. DOMAIN v2' = DOMAIN v2 BY <2>1
  <2>5. \A d \in DOMAIN v2 : d \in {s} \/ v2[d].revoked => v2'[d].revoked BY <2>1, <2>3
  <2>. QED BY <2>1, <2>2, <2>4, <2>5, EndedEnds
<1>8. ASSUME NEW s \in DOMAIN v2, NEW c \in SessionCalls, Session!VerifyMfa(c, s)
      PROVE  Session!EndedInv'
  <2>1. PICK k \in Session!CallsThere :
            /\ v5' = [v5 EXCEPT ![c] = k]
            /\ k.op = "mfa" /\ k.pc = "got" /\ k.id = s /\ k.copy = <<v2[s]>> /\ ~k.late
    BY <1>8, MfaBegins, Zenon
  <2>2. UNCHANGED <<v2, v3, v6, v7>> BY <1>8 DEF Session!VerifyMfa
  <2>3. Head(k.copy) = v2[s] BY <2>1
  <2>4. CallSees(k, v6, v7) BY <1>2, <2>1, <2>3 DEF CallSees
  <2>. QED BY <1>2, <2>1, <2>2, <2>4, EndedMoves
<1>9. ASSUME NEW t \in Session!Tokens, Session!RevokeToken(t) PROVE Session!EndedInv'
  BY <1>3, <1>9 DEF Session!RevokeToken
<1>10. ASSUME NEW t \in Session!Tokens, NEW c \in SessionCalls, Session!Refresh(c, t)
       PROVE  Session!EndedInv'
  <2>1. PICK k \in Session!CallsThere :
            v5' = [v5 EXCEPT ![c] = k] /\ k.pc = "verified" /\ (k.late => k.id \in v6)
    BY <1>10, RefreshBegins
  <2>2. UNCHANGED <<v2, v3, v6, v7>> BY <1>10 DEF Session!Refresh
  <2>3. CallSees(k, v6, v7) BY <2>1 DEF CallSees
  <2>. QED BY <1>2, <2>1, <2>2, <2>3, EndedMoves
<1>11. ASSUME NEW c \in SessionCalls, Session!GetSession(c) PROVE Session!EndedInv'
  <2>1. PICK k \in Session!CallsThere :
            /\ v5' = [v5 EXCEPT ![c] = k] /\ k.copy = <<v2[k.id]>> /\ k.id = v5[c].id
            /\ (k.late <=> v5[c].late)
    BY <1>11, SessionIsRead
  <2>2. UNCHANGED <<v2, v3, v6, v7>> BY <1>11 DEF Session!GetSession
  <2>3. Head(k.copy) = v2[k.id] BY <2>1
  <2>4. CallSees(k, v6, v7) BY <1>2, <2>1, <2>3 DEF CallSees
  <2>. QED BY <1>2, <2>1, <2>2, <2>4, EndedMoves
<1>12. ASSUME NEW c \in SessionCalls, Session!EndRefresh(c) PROVE Session!EndedInv'
  <2>. DEFINE k == [Session!Idle EXCEPT !.pc = "ended"]
  <2>1. /\ v5' = [v5 EXCEPT ![c] = k] /\ v5[c].pc = "got" /\ UNCHANGED <<v2, v6, v7>>
        /\ \/ v3' = v3
           \/ /\ ~Head(v5[c].copy).revoked
              /\ Session!Generate(v5[c].id, {v5[c].token}, v5[c].late)
    BY <1>12 DEF Session!EndRefresh
  <2>2. k \in Session!CallsThere /\ k.pc = "ended" /\ ~k.late BY IdleNotLate, EndedIsACall
  <2>. HIDE DEF k
  <2>3. CallSees(k, v6, v7) BY <2>2 DEF CallSees
  <2>4. v3' = v3 \/ \E p \in Session!PairsThere : v3' = Append(v3, p) /\ (p.late => p.sid \in v7)
    <3>1. CASE v3' = v3 BY <3>1
    <3>2. CASE /\ ~Head(v5[c].copy).revoked
               /\ Session!Generate(v5[c].id, {v5[c].token}, v5[c].late)
      <4>1. PICK p \in Session!PairsThere :
                /\ v3' = Append(v3, p) /\ PairHolds(p, Len(v2))
                /\ p.sid = v5[c].id /\ p.from = {v5[c].token} /\ (p.late <=> v5[c].late)
        BY <2>1, <3>2, RefreshIsGiven, Zenon
      <4>2. v5[c].late => v5[c].id \in v7 BY <1>2, <2>1, <3>2 DEF CallSees
      <4>. QED BY <4>1, <4>2
    <3>. QED BY <2>1, <3>1, <3>2
  <2>. QED BY <1>2, <2>1, <2>2, <2>3, <2>4, EndedMoves
<1>13. ASSUME NEW c \in SessionCalls, NEW isValid \in BOOLEAN, Session!EndVerifyMfa(c, isValid)
       PROVE  Session!EndedInv'
  <2>. DEFINE k == [Session!Idle EXCEPT !.pc = "ended"]
              s == [Head(v5[c].copy) EXCEPT !.mfaVerified = TRUE]
  <2>1. v5' = [v5 EXCEPT ![c] = k] /\ v5[c].op = "mfa" /\ UNCHANGED <<v3, v6, v7>>
        /\ (v2' = v2 \/ v2' = [v2 EXCEPT ![v5[c].id] = s])
    BY <1>13 DEF Session!EndVerifyMfa
  <2>2. k \in Session!CallsThere /\ k.pc = "ended" /\ ~k.late BY IdleNotLate, EndedIsACall
  <2>3. v5[c] \in Session!CallsThere /\ v5[c].copy # <<>> /\ v5[c].pc = "got"
    BY <1>1, <2>1 DEF CallHolds
  <2>4. v5[c].copy \in Seq(Session!SessionsThere) BY <2>3 DEF Session!CallsThere
  <2>5. Head(v5[c].copy) \in Session!SessionsThere BY <2>3, <2>4
  <2>6. s.revoked <=> Head(v5[c].copy).revoked BY <2>5 DEF Session!SessionsThere
  <2>. HIDE DEF k, s
  <2>7. CallSees(k, v6, v7) BY <2>2 DEF CallSees
  <2>8. v5[c].id \in v6 \ v7 => s.revoked BY <1>2, <2>1, <2>3, <2>6 DEF CallSees
  <2>9. DOMAIN v2 \subseteq DOMAIN v2' /\ \A d \in v6 \ v7 : v2'[d].revoked
    BY <1>2, <2>1, <2>8
  <2>. QED BY <2>1, <2>2, <2>7, <2>9, EndedMoves
<1>. QED BY <1>4, <1>5, <1>6, <1>7, <1>8, <1>9, <1>10, <1>11, <1>12, <1>13 DEF Session!Next

\* No other refresh of the token a call refreshes is under way or has ended,
\* unless they met.
Alone(c, k) ==
    k.op = "refresh" =>
        /\ \A d \in SessionCalls \ {c} : v5[d].op = "refresh" /\ v5[d].token = k.token => k.token \in v8
        /\ \A n \in DOMAIN v3 : k.token \in v3[n].from => k.token \in v8

LEMMA RefreshParts ==
    Session!RefreshInv <=>
        /\ \A c \in SessionCalls : Alone(c, v5[c])
        /\ \A n \in DOMAIN v3 : v3[n].from \subseteq v4
        /\ \A m, n \in DOMAIN v3 :
               m # n /\ v3[m].from # {} /\ v3[m].from = v3[n].from => v3[m].from \subseteq v8
BY DEF Session!RefreshInv, Alone

LEMMA RefreshStart == ASSUME Session!Init PROVE Session!RefreshInv
<1>1. v3 = <<>> /\ \A c \in SessionCalls : v5[c].op = "none" BY IdleIsACall DEF Session!Init
<1>. QED BY <1>1 DEF Session!RefreshInv

\* A call goes on, and a pair is given out that stands on no other.
LEMMA RefreshMoves ==
    ASSUME Session!SessionInv, Session!RefreshInv, v4 \subseteq v4', v8 \subseteq v8',
           \/ v5' = v5
           \/ \E c \in SessionCalls, k \in Session!CallsThere :
                  /\ v5' = [v5 EXCEPT ![c] = k]
                  /\ \/ k.op # "refresh"
                     \/ k.op = v5[c].op /\ k.token = v5[c].token
                     \/ /\ k.token \notin v4
                        /\ \A d \in SessionCalls :
                               v5[d].op = "refresh" /\ v5[d].token = k.token => k.token \in v8',
           v3' = v3 \/ \E p \in Session!PairsThere : v3' = Append(v3, p) /\ p.from = {}
    PROVE  Session!RefreshInv'
<1>1. /\ \A c \in SessionCalls : v5[c].op = "refresh" =>
             /\ \A d \in SessionCalls \ {c} : v5[d].op = "refresh" /\ v5[d].token = v5[c].token =>
                    v5[c].token \in v8
             /\ \A n \in DOMAIN v3 : v5[c].token \in v3[n].from => v5[c].token \in v8
      /\ \A n \in DOMAIN v3 : v3[n].from \subseteq v4
      /\ \A m, n \in DOMAIN v3 :
             m # n /\ v3[m].from # {} /\ v3[m].from = v3[n].from => v3[m].from \subseteq v8
  BY DEF Session!RefreshInv
<1>2. v3 \in Seq(Session!PairsThere) /\ v5 \in [SessionCalls -> Session!CallsThere]
  BY DEF Session!SessionInv
<1>3. \A n \in DOMAIN v3' :
          v3'[n].from = {} \/ (n \in DOMAIN v3 /\ v3'[n].from = v3[n].from)
  <2>1. CASE v3' = v3 BY <2>1
  <2>2. CASE \E p \in Session!PairsThere : v3' = Append(v3, p) /\ p.from = {} BY <1>2, <2>2
  <2>. QED BY <2>1, <2>2
<1>4. \A n \in DOMAIN v3' : v3'[n].from \subseteq v4' BY <1>1, <1>3
<1>5. \A m, n \in DOMAIN v3' :
          m # n /\ v3'[m].from # {} /\ v3'[m].from = v3'[n].from => v3'[m].from \subseteq v8'
  BY <1>1, <1>3
<1>. DEFINE Fits(e) == v5'[e].op = "refresh" =>
                /\ \A d \in SessionCalls \ {e} :
                       v5'[d].op = "refresh" /\ v5'[d].token = v5'[e].token => v5'[e].token \in v8'
                /\ \A n \in DOMAIN v3 : v5'[e].token \in v3[n].from => v5'[e].token \in v8'
<1>6. \A e \in SessionCalls : Fits(e)
  <2>1. CASE v5' = v5 BY <1>1, <2>1
  <2>2. ASSUME NEW c \in SessionCalls, NEW k \in Session!CallsThere, v5' = [v5 EXCEPT ![c] = k],
               \/ k.op # "refresh"
               \/ k.op = v5[c].op /\ k.token = v5[c].token
               \/ /\ k.token \notin v4
                  /\ \A d \in SessionCalls :
                         v5[d].op = "refresh" /\ v5[d].token = k.token => k.token \in v8'
        PROVE  \A e \in SessionCalls : Fits(e)
    <3>1. v5'[c] = k /\ \A d \in SessionCalls \ {c} : v5'[d] = v5[d] BY <1>2, <2>2
    <3>2. TAKE e \in SessionCalls
    <3>3. CASE k.op = v5[c].op /\ k.token = v5[c].token
      <4>1. \A d \in SessionCalls : v5'[d].op = v5[d].op /\ v5'[d].token = v5[d].token
        BY <3>1, <3>3
      <4>. QED BY <1>1, <4>1
    <3>4. CASE e # c /\ (k.op # "refresh" \/ \A d \in SessionCalls :
                              v5[d].op = "refresh" /\ v5[d].token = k.token => k.token \in v8')
      <4>1. v5'[e] = v5[e] BY <3>1, <3>4
      <4>. QED BY <1>1, <3>1, <3>4, <4>1
    <3>5. CASE /\ e = c /\ k.token \notin v4
               /\ \A d \in SessionCalls :
                      v5[d].op = "refresh" /\ v5[d].token = k.token => k.token \in v8'
      <4>1. \A n \in DOMAIN v3 : k.token \notin v3[n].from BY <1>1, <3>5
      <4>. QED BY <3>1, <3>5, <4>1
    <3>6. CASE e = c /\ k.op # "refresh" BY <3>1, <3>6
    <3>. QED BY <2>2, <3>3, <3>4, <3>5, <3>6
  <2>. QED BY <2>1, <2>2
<1>7. \A c \in SessionCalls : v5'[c].op = "refresh" =>
          \A n \in DOMAIN v3' : v5'[c].token \in v3'[n].from => v5'[c].token \in v8'
  BY <1>3, <1>6
<1>. QED BY <1>4, <1>5, <1>6, <1>7 DEF Session!RefreshInv

\* A refresh ends: its token gives a pair and no other from now on.
LEMMA RefreshEnds ==
    ASSUME Session!SessionInv, Session!RefreshInv, NEW c \in SessionCalls, NEW p, NEW k,
           v5[c].op = "refresh", v5' = [v5 EXCEPT ![c] = k], k.op # "refresh",
           v4' = v4 \cup {v5[c].token}, v8' = v8, v3' = Append(v3, p), p.from = {v5[c].token}
    PROVE  Session!RefreshInv'
<1>. DEFINE t == v5[c].token
<1>1. /\ \A d \in SessionCalls : Alone(d, v5[d])
      /\ \A n \in DOMAIN v3 : v3[n].from \subseteq v4
      /\ \A m, n \in DOMAIN v3 :
             m # n /\ v3[m].from # {} /\ v3[m].from = v3[n].from => v3[m].from \subseteq v8
  BY RefreshParts
<1>2. /\ \A d \in SessionCalls \ {c} : v5[d].op = "refresh" /\ v5[d].token = t => t \in v8
      /\ \A n \in DOMAIN v3 : t \in v3[n].from => t \in v8
  BY <1>1 DEF Alone
<1>3. v3 \in Seq(Session!PairsThere) /\ v5 \in [SessionCalls -> Session!CallsThere]
  BY DEF Session!SessionInv
<1>4. \A n \in DOMAIN v3' :
          (n = Len(v3) + 1 /\ v3'[n].from = {t}) \/ (n \in DOMAIN v3 /\ v3'[n] = v3[n])
  BY <1>3
<1>. HIDE DEF t
<1>5. v5'[c] = k /\ \A d \in SessionCalls \ {c} : v5'[d] = v5[d] BY <1>3
<1>6. \A n \in DOMAIN v3' : v3'[n].from \subseteq v4' BY <1>1, <1>4 DEF t
<1>7. ASSUME NEW m \in DOMAIN v3', NEW n \in DOMAIN v3', m # n, v3'[m].from # {},
             v3'[m].from = v3'[n].from
      PROVE  v3'[m].from \subseteq v8'
  BY <1>1, <1>2, <1>4, <1>7
<1>8. ASSUME NEW d \in SessionCalls, v5'[d].op = "refresh"
      PROVE  /\ \A e \in SessionCalls \ {d} : v5'[e].op = "refresh" /\ v5'[e].token = v5'[d].token =>
                    v5'[d].token \in v8'
             /\ \A n \in DOMAIN v3' : v5'[d].token \in v3'[n].from => v5'[d].token \in v8'
  <2>1. d # c /\ v5'[d] = v5[d] BY <1>5, <1>8
  <2>2. /\ \A e \in SessionCalls \ {d} : v5[e].op = "refresh" /\ v5[e].token = v5[d].token =>
               v5[d].token \in v8
        /\ \A n \in DOMAIN v3 : v5[d].token \in v3[n].from => v5[d].token \in v8
    BY <1>1, <1>8, <2>1 DEF Alone
  <2>3. v5[d].token = t => t \in v8 BY <1>2, <1>8, <2>1
  <2>. QED BY <1>4, <1>5, <2>1, <2>2, <2>3
<1>. QED BY <1>6, <1>7, <1>8 DEF Session!RefreshInv

LEMMA RefreshKeeps ==
    ASSUME Session!SessionInv, Session!RefreshInv, Session!Next PROVE Session!RefreshInv'
<1>1. v5 \in [SessionCalls -> Session!CallsThere] /\ Len(v2) \in Nat
      /\ \A c \in SessionCalls : CallHolds(v5[c], Len(v2))
  BY SessionParts
<1>2. ASSUME UNCHANGED <<v3, v5, v8>>, v4 \subseteq v4' PROVE Session!RefreshInv'
  BY <1>2, RefreshMoves
<1>3. CASE Session!Tick BY <1>2, <1>3 DEF Session!Tick
<1>4. ASSUME NEW e \in Entities, Session!Authenticate(e) PROVE Session!RefreshInv'
  <2>1. UNCHANGED <<v4, v5, v8>> /\ Session!Generate(Len(v2) + 1, {}, FALSE)
    BY <1>4 DEF Session!Authenticate
  <2>2. PICK p \in Session!PairsThere :
            v3' = Append(v3, p) /\ PairHolds(p, Len(v2) + 1) /\ p.from = {} /\ ~p.late
    BY <2>1, SessionIsGiven
  <2>. QED BY <2>1, <2>2, RefreshMoves
<1>5. ASSUME NEW e \in Entities, Session!RevokeAll(e) PROVE Session!RefreshInv'
  BY <1>2, <1>5 DEF Session!RevokeAll
<1>6. ASSUME NEW s \in DOMAIN v2, Session!Revoke(s) PROVE Session!RefreshInv'
  BY <1>2, <1>6 DEF Session!Revoke
<1>7. ASSUME NEW s \in DOMAIN v2, NEW c \in SessionCalls, Session!VerifyMfa(c, s)
      PROVE  Session!RefreshInv'
  <2>1. PICK k \in Session!CallsThere :
            /\ v5' = [v5 EXCEPT ![c] = k]
            /\ k.op = "mfa" /\ k.pc = "got" /\ k.id = s /\ k.copy = <<v2[s]>> /\ ~k.late
    BY <1>7, MfaBegins, Zenon
  <2>2. UNCHANGED <<v3, v4, v8>> BY <1>7 DEF Session!VerifyMfa
  <2>. QED BY <2>1, <2>2, RefreshMoves
<1>8. ASSUME NEW t \in Session!Tokens, Session!RevokeToken(t) PROVE Session!RefreshInv'
  BY <1>2, <1>8 DEF Session!RevokeToken
<1>9. ASSUME NEW t \in Session!Tokens, NEW c \in SessionCalls, Session!Refresh(c, t)
      PROVE  Session!RefreshInv'
  <2>1. PICK k \in Session!CallsThere : v5' = [v5 EXCEPT ![c] = k] /\ k.token = t
    BY <1>9, RefreshBegins
  <2>2. UNCHANGED <<v3, v4>> BY <1>9 DEF Session!Refresh
  <2>3. /\ t \notin v4 /\ v8 \subseteq v8'
        /\ \A d \in SessionCalls : v5[d].op = "refresh" /\ v5[d].token = t => t \in v8'
    BY <1>9 DEF Session!Refresh, Session!Verify
  <2>. QED BY <2>1, <2>2, <2>3, RefreshMoves
<1>10. ASSUME NEW c \in SessionCalls, Session!GetSession(c) PROVE Session!RefreshInv'
  <2>1. PICK k \in Session!CallsThere :
            v5' = [v5 EXCEPT ![c] = k] /\ k.op = v5[c].op /\ k.token = v5[c].token
    BY <1>10, SessionIsRead
  <2>2. UNCHANGED <<v3, v4, v8>> BY <1>10 DEF Session!GetSession
  <2>. QED BY <2>1, <2>2, RefreshMoves
<1>11. ASSUME NEW c \in SessionCalls, Session!EndRefresh(c) PROVE Session!RefreshInv'
  <2>. DEFINE k == [Session!Idle EXCEPT !.pc = "ended"]
  <2>1. /\ v5' = [v5 EXCEPT ![c] = k] /\ v5[c].pc = "got" /\ v5[c].op = "refresh" /\ v8' = v8
        /\ \/ v3' = v3 /\ v4' = v4
           \/ /\ v4' = v4 \cup {v5[c].token}
              /\ Session!Generate(v5[c].id, {v5[c].token}, v5[c].late)
    BY <1>11 DEF Session!EndRefresh
  <2>2. k \in Session!CallsThere /\ k.op # "refresh" BY IdleNotLate, EndedIsACall
  <2>. HIDE DEF k
  <2>3. CASE v3' = v3 /\ v4' = v4 BY <2>1, <2>2, <2>3, RefreshMoves
  <2>4. CASE /\ v4' = v4 \cup {v5[c].token}
             /\ Session!Generate(v5[c].id, {v5[c].token}, v5[c].late)
    <3>1. PICK p \in Session!PairsThere :
              /\ v3' = Append(v3, p) /\ PairHolds(p, Len(v2))
              /\ p.sid = v5[c].id /\ p.from = {v5[c].token} /\ (p.late <=> v5[c].late)
      BY <2>1, <2>4, RefreshIsGiven, Zenon
    <3>. QED BY <2>1, <2>2, <2>4, <3>1, RefreshEnds
  <2>. QED BY <2>1, <2>3, <2>4
<1>12. ASSUME NEW c \in SessionCalls, NEW isValid \in BOOLEAN, Session!EndVerifyMfa(c, isValid)
       PROVE  Session!RefreshInv'
  <2>. DEFINE k == [Session!Idle EXCEPT !.pc = "ended"]
  <2>1. v5' = [v5 EXCEPT ![c] = k] /\ UNCHANGED <<v3, v4, v8>> BY <1>12 DEF Session!EndVerifyMfa
  <2>2. k \in Session!CallsThere /\ k.op # "refresh" BY IdleNotLate, EndedIsACall
  <2>. HIDE DEF k
  <2>. QED BY <2>1, <2>2, RefreshMoves
<1>. QED BY <1>3, <1>4, <1>5, <1>6, <1>7, <1>8, <1>9, <1>10, <1>11, <1>12 DEF Session!Next

\* What was revoked stays so, and a token gives one pair.
LEMMA SessionsHold ==
    ASSUME Session!SessionInv, Session!EndedInv, Session!RefreshInv
    PROVE  Session!RefreshedOnce /\ Session!RevocationHolds
<1>1. Session!RefreshedOnce BY DEF Session!EndedInv, Session!RefreshInv, Session!RefreshedOnce
<1>2. \A s \in v6 \ v7 : v2[s].revoked BY DEF Session!EndedInv
<1>3. ASSUME NEW e \in Entities, NEW s \in Session!ListActive(e)
      PROVE  Session!Validate(s) /\ s \notin v6 \ v7
  <2>1. s \in DOMAIN v2 /\ ~v2[s].revoked /\ v2[s].expiresAt > v1 BY DEF Session!ListActive
  <2>2. v1 \in Nat /\ v2[s].expiresAt \in Nat
    BY <2>1, SessionsAreThere DEF Session!SessionInv, Session!SessionsThere
  <2>3. v1 <= v2[s].expiresAt BY <2>1, <2>2
  <2>. QED BY <1>2, <2>1, <2>3 DEF Session!Validate
<1>. QED BY <1>1, <1>2, <1>3 DEF Session!RevocationHolds

-----------------------------------------------------------------------------
(***************************************************************************)
(* The window of the endpoint.                                             *)
(***************************************************************************)
LEMMA EndpointCardinality == \A S : Endpoint!Cardinality(S) = Cardinality(S)
BY DEF Endpoint!Cardinality, Cardinality

\* What a concatenation has where.
LEMMA ConcatAt ==
    ASSUME NEW S, NEW s \in Seq(S), NEW t \in Seq(S), NEW n \in Nat, NEW m \in Nat,
           n = Len(s), m = Len(t), NEW all, all = n + m
    PROVE  /\ s \o t \in Seq(S) /\ Len(s \o t) = all
           /\ \A i \in 1 .. n : (s \o t)[i] = s[i]
           /\ \A i \in 1 .. m : \A j : j = n + i => (s \o t)[j] = t[i]
<1>1. s \o t \in Seq(S) /\ Len(s \o t) = Len(s) + Len(t) OBVIOUS
<1>2. \A i \in 1 .. Len(s) + Len(t) : (s \o t)[i] = IF i <= Len(s) THEN s[i] ELSE t[i - Len(s)]
  OBVIOUS
<1>3. ASSUME NEW i \in 1 .. n PROVE (s \o t)[i] = s[i] BY <1>2
<1>4. ASSUME NEW i \in 1 .. m PROVE (s \o t)[n + i] = t[i]
  <2>1. /\ n + i \in 1 .. Len(s) + Len(t) /\ n + i - Len(s) = i /\ ~ (n + i <= Len(s))
    OBVIOUS
  <2>. QED BY <1>2, <2>1
<1>. QED BY <1>1, <1>3, <1>4

\* What may be awaited on behalf of a request.
AwaitedSteps ==
    {"incr", "expire", "check", "appendCreated", "read", "appendRevoked", "list", "throw"}

\* The check and the record of the rate limiter, before any route.
LEMMA GateIs ==
    /\ Endpoint!Gate \in Seq(AwaitedSteps) /\ 5 = Len(Endpoint!Gate)
    /\ Endpoint!Gate[1] = "incr" /\ Endpoint!Gate[2] = "expire" /\ Endpoint!Gate[3] = "check"
    /\ Endpoint!Gate[4] = "incr" /\ Endpoint!Gate[5] = "expire"
<1>. DEFINE count == <<"incr", "expire">>
            check == count \o <<"check">>
            gate == check \o count
<1>1. count \in Seq(AwaitedSteps) /\ 2 = Len(count) /\ count[1] = "incr" /\ count[2] = "expire"
  BY DEF AwaitedSteps
<1>2. /\ check \in Seq(AwaitedSteps) /\ 3 = Len(check)
      /\ check[1] = "incr" /\ check[2] = "expire" /\ check[3] = "check"
  BY DEF AwaitedSteps
<1>3. Endpoint!Gate = gate BY DEF Endpoint!Gate, Endpoint!Count
<1>. HIDE DEF count, check
<1>4. /\ gate \in Seq(AwaitedSteps) /\ Len(gate) = 5
      /\ \A i \in 1 .. 3 : gate[i] = check[i]
      /\ \A i \in 1 .. 2 : \A j : j = 3 + i => gate[j] = count[i]
  <2>. DEFINE n == 3
              m == 2
              all == 5
  <2>1. n \in Nat /\ m \in Nat /\ n = Len(check) /\ m = Len(count) /\ all = n + m
    BY <1>1, <1>2
  <2>. HIDE DEF n, m, all
  <2>2. /\ gate \in Seq(AwaitedSteps) /\ Len(gate) = all
        /\ \A i \in 1 .. n : gate[i] = check[i]
        /\ \A i \in 1 .. m : \A j : j = n + i => gate[j] = count[i]
    <3>1. gate \in Seq(AwaitedSteps) BY <1>1, <1>2, <2>1, ConcatAt
    <3>2. Len(gate) = all BY <1>1, <1>2, <2>1, ConcatAt
    <3>3. \A i \in 1 .. n : gate[i] = check[i] BY <1>1, <1>2, <2>1, ConcatAt
    <3>4. \A i \in 1 .. m : \A j : j = n + i => gate[j] = count[i] BY <1>1, <1>2, <2>1, ConcatAt
    <3>. QED BY <3>1, <3>2, <3>3, <3>4
  <2>. QED BY <2>2 DEF n, m, all
<1>. HIDE DEF gate
<1>5. gate[1] = check[1] /\ gate[2] = check[2] /\ gate[3] = check[3] BY <1>4
<1>6. gate[4] = count[1] /\ gate[5] = count[2] BY <1>4
<1>. QED BY <1>1, <1>2, <1>3, <1>4, <1>5, <1>6

LEMMA GateFirst ==
    ASSUME NEW route \in Seq(AwaitedSteps)
    PROVE  /\ Endpoint!Gate \o route \in Seq(AwaitedSteps)
           /\ Len(Endpoint!Gate \o route) = 5 + Len(route)
           /\ (Endpoint!Gate \o route)[1] = "incr" /\ (Endpoint!Gate \o route)[2] = "expire"
           /\ (Endpoint!Gate \o route)[3] = "check"
           /\ (Endpoint!Gate \o route)[4] = "incr" /\ (Endpoint!Gate \o route)[5] = "expire"
           /\ \A i \in 1 .. Len(route) : \A j : j = 5 + i => (Endpoint!Gate \o route)[j] = route[i]
<1>. DEFINE gate == Endpoint!Gate
<1>1. /\ gate \o route \in Seq(AwaitedSteps) /\ Len(gate \o route) = 5 + Len(route)
      /\ \A i \in 1 .. 5 : (gate \o route)[i] = gate[i]
      /\ \A i \in 1 .. Len(route) : \A j : j = 5 + i => (gate \o route)[j] = route[i]
  <2>. DEFINE n == 5
              m == Len(route)
              all == n + m
  <2>1. n \in Nat /\ m \in Nat /\ n = Len(gate) /\ m = Len(route) BY GateIs
  <2>2. all = n + m OBVIOUS
  <2>. HIDE DEF n, m, all, gate
  <2>3. /\ gate \o route \in Seq(AwaitedSteps) /\ Len(gate \o route) = all
        /\ \A i \in 1 .. n : (gate \o route)[i] = gate[i]
        /\ \A i \in 1 .. m : \A j : j = n + i => (gate \o route)[j] = route[i]
    <3>1. gate \in Seq(AwaitedSteps) BY GateIs DEF gate
    <3>2. gate \o route \in Seq(AwaitedSteps) /\ Len(gate \o route) = all
      BY <2>1, <2>2, <3>1, ConcatAt
    <3>3. \A i \in 1 .. n : (gate \o route)[i] = gate[i] BY <2>1, <2>2, <3>1, ConcatAt
    <3>4. \A i \in 1 .. m : \A j : j = n + i => (gate \o route)[j] = route[i]
      BY <2>1, <2>2, <3>1, ConcatAt
    <3>. QED BY <3>2, <3>3, <3>4
  <2>. QED BY <2>3, Zenon DEF n, m, all
<1>2. /\ (gate \o route)[1] = gate[1] /\ (gate \o route)[2] = gate[2]
      /\ (gate \o route)[3] = gate[3] /\ (gate \o route)[4] = gate[4]
      /\ (gate \o route)[5] = gate[5]
  <2>. DEFINE all == gate \o route
  <2>1. \A i \in 1 .. 5 : all[i] = gate[i] BY <1>1
  <2>. HIDE DEF all, gate
  <2>2. all[1] = gate[1] /\ all[2] = gate[2] /\ all[3] = gate[3] /\ all[4] = gate[4] /\ all[5] = gate[5]
    BY <2>1
  <2>. QED BY <2>2 DEF all
<1>. QED BY <1>1, <1>2, GateIs, Zenon

\* What comes before the intents: five steps, and none for a delegation.
LEMMA StepsOf ==
    ASSUME NEW r \in EndpointRequests, v1[r] \in Endpoint!Operations
    PROVE  /\ v1[r] = "delegate" => Endpoint!Steps(r) = <<"appendCreated">>
           /\ v1[r] # "delegate" =>
                  /\ Len(Endpoint!Steps(r)) \in 5 .. 7
                  /\ Endpoint!Steps(r)[1] = "incr" /\ Endpoint!Steps(r)[2] = "expire"
                  /\ Endpoint!Steps(r)[3] = "check"
                  /\ Endpoint!Steps(r)[4] = "incr" /\ Endpoint!Steps(r)[5] = "expire"
                  /\ \A i \in 6 .. Len(Endpoint!Steps(r)) :
                         Endpoint!Steps(r)[i] \in {"appendCreated", "read", "appendRevoked",
                                                  "list", "throw"}
           /\ v1[r] = "revokeApiKey" =>
                  /\ Len(Endpoint!Steps(r)) = 7
                  /\ Endpoint!Steps(r)[6] = "read" /\ Endpoint!Steps(r)[7] = "appendRevoked"
           /\ v1[r] \notin {"delegate", "revokeApiKey"} =>
                  \A i \in 6 .. Len(Endpoint!Steps(r)) : Endpoint!Steps(r)[i] # "appendRevoked"
<1>1. CASE v1[r] = "delegate"
  BY <1>1 DEF Endpoint!Steps, Endpoint!Delegate, Endpoint!CreateKey
<1>2. CASE v1[r] # "delegate"
  <2>. DEFINE route == Endpoint!Route(r)
              steps == Endpoint!Gate \o route
              behind == {"appendCreated", "read", "appendRevoked", "list", "throw"}
  <2>1. \/ route = <<>> /\ v1[r] # "revokeApiKey"
        \/ route = <<"appendCreated">> /\ v1[r] # "revokeApiKey"
        \/ route = <<"list">> /\ v1[r] # "revokeApiKey"
        \/ route = <<"throw">> /\ v1[r] # "revokeApiKey"
        \/ route = <<"read", "appendRevoked">> /\ v1[r] = "revokeApiKey"
    BY <1>2 DEF Endpoint!Route, Endpoint!CreateKey, Endpoint!RevokeKey, Endpoint!ListKeys,
       Endpoint!CreateUser, Endpoint!PassOn, Endpoint!Operations
  <2>2. Endpoint!Steps(r) = steps BY <1>2 DEF Endpoint!Steps
  <2>. HIDE DEF route
  <2>3. /\ route \in Seq(AwaitedSteps) /\ Len(route) \in 0 .. 2
        /\ \A i \in 1 .. Len(route) : route[i] \in behind
        /\ v1[r] = "revokeApiKey" =>
               Len(route) = 2 /\ route[1] = "read" /\ route[2] = "appendRevoked"
        /\ v1[r] # "revokeApiKey" => \A i \in 1 .. Len(route) : route[i] # "appendRevoked"
    <3>1. CASE route = <<>> /\ v1[r] # "revokeApiKey" BY <3>1
    <3>2. ASSUME NEW what \in {"appendCreated", "list", "throw"}, route = <<what>>,
                 v1[r] # "revokeApiKey"
          PROVE  /\ route \in Seq(AwaitedSteps) /\ Len(route) \in 0 .. 2
                 /\ \A i \in 1 .. Len(route) : route[i] \in behind
                 /\ \A i \in 1 .. Len(route) : route[i] # "appendRevoked"
      <4>1. what \in AwaitedSteps BY DEF AwaitedSteps
      <4>2. route \in Seq(AwaitedSteps) /\ Len(route) = 1 /\ route[1] = what BY <3>2, <4>1
      <4>3. \A i \in 1 .. Len(route) : i = 1 BY <4>2
      <4>. QED BY <4>2, <4>3
    <3>3. CASE route = <<"read", "appendRevoked">> /\ v1[r] = "revokeApiKey"
      <4>1. /\ route \in Seq(AwaitedSteps) /\ Len(route) = 2
            /\ route[1] = "read" /\ route[2] = "appendRevoked"
        BY <3>3 DEF AwaitedSteps
      <4>2. \A i \in 1 .. Len(route) : i \in {1, 2} BY <4>1
      <4>. QED BY <3>3, <4>1, <4>2
    <3>. QED BY <2>1, <3>1, <3>2, <3>3
  <2>4. /\ Len(steps) = 5 + Len(route)
        /\ steps[1] = "incr" /\ steps[2] = "expire" /\ steps[3] = "check"
        /\ steps[4] = "incr" /\ steps[5] = "expire"
        /\ \A i \in 1 .. Len(route) : \A j : j = 5 + i => steps[j] = route[i]
    BY <2>3, GateFirst
  <2>. HIDE DEF steps
  <2>5. ASSUME NEW i \in 6 .. Len(steps)
        PROVE  i - 5 \in 1 .. Len(route) /\ steps[i] = route[i - 5]
    <3>1. i \in Nat /\ i - 5 \in 1 .. Len(route) /\ i = 5 + (i - 5) BY <2>3, <2>4, <2>5
    <3>. QED BY <2>4, <3>1
  <2>6. Len(steps) \in 5 .. 7 BY <2>3, <2>4
  <2>7. \A i \in 6 .. Len(steps) : steps[i] \in behind BY <2>3, <2>5
  <2>8. v1[r] # "revokeApiKey" => \A i \in 6 .. Len(steps) : steps[i] # "appendRevoked"
    BY <2>3, <2>5
  <2>9. v1[r] = "revokeApiKey" =>
            Len(steps) = 7 /\ steps[6] = "read" /\ steps[7] = "appendRevoked"
    <3>1. 6 = 5 + 1 /\ 7 = 5 + 2 OBVIOUS
    <3>2. SUFFICES ASSUME v1[r] = "revokeApiKey"
                   PROVE  Len(steps) = 7 /\ steps[6] = "read" /\ steps[7] = "appendRevoked"
      OBVIOUS
    <3>3. Len(route) = 2 /\ route[1] = "read" /\ route[2] = "appendRevoked" BY <2>3, <3>2
    <3>4. 1 \in 1 .. Len(route) /\ 2 \in 1 .. Len(route) BY <3>3
    <3>5. steps[6] = route[1] /\ steps[7] = route[2] BY <2>4, <3>1, <3>4
    <3>. QED BY <2>4, <3>3, <3>5
  <2>. QED BY <1>2, <2>2, <2>4, <2>6, <2>7, <2>8, <2>9
<1>. QED BY <1>1, <1>2

\* Where a request stands that is about to take a step.
LEMMA StepIsAt ==
    ASSUME Endpoint!AdmissionInv, NEW r \in EndpointRequests, NEW step, Endpoint!At(r, step)
    PROVE  /\ v4[r] = "none" /\ v3[r] \in Nat /\ v3[r] <= Len(Endpoint!Steps(r))
           /\ step = "incr" => v1[r] # "delegate" /\ v3[r] \in {1, 4}
           /\ step = "expire" => v1[r] # "delegate" /\ v3[r] \in {2, 5}
           /\ step = "check" => v1[r] # "delegate" /\ v3[r] = 3
           /\ step \in {"appendCreated", "read", "appendRevoked", "list", "throw"} =>
                  (v1[r] = "delegate" /\ v3[r] = 1) \/ (v1[r] # "delegate" /\ v3[r] > 5)
<1>1. v1[r] \in Endpoint!Operations /\ v3[r] \in Nat BY DEF Endpoint!AdmissionInv
<1>2. v4[r] = "none" /\ v3[r] \in 1 .. Len(Endpoint!Steps(r)) /\ Endpoint!Steps(r)[v3[r]] = step
  BY DEF Endpoint!At
<1>3. CASE v1[r] = "delegate" BY <1>1, <1>2, <1>3, StepsOf
<1>4. CASE v1[r] # "delegate"
  <2>1. v3[r] \in {1, 2, 3, 4, 5} \/ v3[r] \in 6 .. Len(Endpoint!Steps(r)) BY <1>2
  <2>. QED BY <1>1, <1>2, <1>4, <2>1, StepsOf
<1>. QED BY <1>3, <1>4

LEMMA CountsAreNumbers ==
    /\ IsFiniteSet(Endpoint!Counted) /\ IsFiniteSet(Endpoint!LetIn)
    /\ Endpoint!Cardinality(Endpoint!Counted) \in Nat /\ Endpoint!Cardinality(Endpoint!LetIn) \in Nat
    /\ Endpoint!Cardinality(Endpoint!LetIn) <= Endpoint!Cardinality(Endpoint!Counted)
<1>1. Endpoint!Counted \in SUBSET EndpointRequests /\ IsFiniteSet(EndpointRequests)
  BY GuardsAssumption DEF Endpoint!Counted
<1>2. IsFiniteSet(Endpoint!Counted) BY <1>1, FS_Subset
<1>3. Endpoint!LetIn \in SUBSET Endpoint!Counted BY DEF Endpoint!LetIn
<1>4. /\ IsFiniteSet(Endpoint!LetIn)
      /\ Cardinality(Endpoint!LetIn) <= Cardinality(Endpoint!Counted)
  BY <1>2, <1>3, FS_Subset
<1>5. Cardinality(Endpoint!Counted) \in Nat /\ Cardinality(Endpoint!LetIn) \in Nat
  BY <1>2, <1>4, FS_CardinalityType
<1>. QED BY <1>2, <1>4, <1>5, EndpointCardinality

LEMMA AdmissionStart == ASSUME Endpoint!Init PROVE Endpoint!AdmissionInv
<1>1. v1 \in [EndpointRequests -> Endpoint!Operations]
  BY GuardsAssumption DEF Endpoint!Init
<1>2. Endpoint!Counted = {} /\ Endpoint!LetIn = {}
  BY DEF Endpoint!Init, Endpoint!Counted, Endpoint!LetIn, Endpoint!Passed, Endpoint!Waiting
<1>3. Endpoint!Cardinality({}) = 0 BY FS_EmptySet, EndpointCardinality
<1>4. /\ v3 \in [EndpointRequests -> Nat] /\ v4 \in [EndpointRequests -> Endpoint!Answers]
      /\ v5 \in [EndpointRequests -> Endpoint!ReadThere] /\ v6 \in Endpoint!Counters
      /\ v6.n = 0
  BY DEF Endpoint!Init, Endpoint!Answers, Endpoint!ReadThere, Endpoint!Counters,
     Endpoint!NoCounter
<1>5. v9 \in Seq(Endpoint!KeyEvents) /\ v9 # <<>>
  <2>1. [type |-> "created", version |-> 1, by |-> 0] \in Endpoint!KeyEvents
    BY DEF Endpoint!KeyEvents
  <2>. QED BY <2>1 DEF Endpoint!Init
<1>6. \A r \in EndpointRequests : v3[r] \in 1 .. (Len(Endpoint!Steps(r)) + 1)
  <2>. SUFFICES ASSUME NEW r \in EndpointRequests
                PROVE  v3[r] \in 1 .. (Len(Endpoint!Steps(r)) + 1)
    OBVIOUS
  <2>1. Len(Endpoint!Steps(r)) \in Nat
    <3>1. v1[r] \in Endpoint!Operations BY <1>1
    <3>. QED BY <3>1, StepsOf
  <2>. QED BY <2>1 DEF Endpoint!Init
<1>7. \A r \in EndpointRequests : v5[r].window = 0 /\ v5[r].count = 0
  BY DEF Endpoint!Init
<1>8. v7 = 0 /\ v8 = 0 BY DEF Endpoint!Init
<1>9. WindowLimit \in Nat BY GuardsAssumption
<1>. QED
  BY <1>1, <1>2, <1>3, <1>4, <1>5, <1>6, <1>7, <1>8, <1>9
  DEF Endpoint!AdmissionInv, Endpoint!NoEternalWindow

\* A step of a request leaves all of the types and the order of windows.
LEMMA RequestMoves ==
    ASSUME Endpoint!AdmissionInv, NEW r \in EndpointRequests, NEW p, NEW a, NEW s,
           v1' = v1, v3' = [v3 EXCEPT ![r] = p], v4' = [v4 EXCEPT ![r] = a],
           v5' = [v5 EXCEPT ![r] = s], v7' = v7,
           p \in 1 .. (Len(Endpoint!Steps(r)) + 1), a \in Endpoint!Answers,
           s \in Endpoint!ReadThere, s.window <= v7, v1[r] = "delegate" => s.count = 0
    PROVE  /\ v1' \in [EndpointRequests -> Endpoint!Operations]
           /\ v3' \in [EndpointRequests -> Nat]
           /\ v4' \in [EndpointRequests -> Endpoint!Answers]
           /\ \A q \in EndpointRequests : v3'[q] \in 1 .. (Len(Endpoint!Steps(q)') + 1)
           /\ v5' \in [EndpointRequests -> Endpoint!ReadThere]
           /\ v7' \in Nat
           /\ \A q \in EndpointRequests : v5'[q].window <= v7'
           /\ \A q \in EndpointRequests : v1'[q] = "delegate" => v5'[q].count = 0
<1>1. \A q \in EndpointRequests : Endpoint!Steps(q)' = Endpoint!Steps(q)
  BY DEF Endpoint!Steps, Endpoint!Route
<1>2. \A q \in EndpointRequests : Len(Endpoint!Steps(q)) \in Nat
  BY StepsOf DEF Endpoint!AdmissionInv
<1>. QED BY <1>1, <1>2 DEF Endpoint!AdmissionInv

\* What is counted does not change with a request that is counted before and
\* after, or neither.
LEMMA CountsStay ==
    ASSUME Endpoint!AdmissionInv, NEW r \in EndpointRequests, NEW p, NEW a, NEW s,
           v1' = v1, v3' = [v3 EXCEPT ![r] = p], v4' = [v4 EXCEPT ![r] = a],
           v5' = [v5 EXCEPT ![r] = s], v7' = v7, s.window = v5[r].window,
           p > 3 /\ a # "limited" <=> Endpoint!Passed(r),
           v1[r] # "delegate" /\ p \in {2, 3} /\ a \in {"none", "lost"} <=> Endpoint!Waiting(r),
           Endpoint!Passed(r) \/ s.count = v5[r].count
    PROVE  Endpoint!Counted' = Endpoint!Counted /\ Endpoint!LetIn' = Endpoint!LetIn
<1>. /\ v3 \in [EndpointRequests -> Nat] /\ v4 \in [EndpointRequests -> Endpoint!Answers]
     /\ v5 \in [EndpointRequests -> Endpoint!ReadThere]
  BY DEF Endpoint!AdmissionInv
<1>1. \A q \in EndpointRequests :
          (Endpoint!Passed(q)' <=> Endpoint!Passed(q)) /\ (Endpoint!Waiting(q)' <=> Endpoint!Waiting(q))
  BY DEF Endpoint!Passed, Endpoint!Waiting
<1>2. \A q \in EndpointRequests : v5'[q].window = v5[q].window
  OBVIOUS
<1>3. Endpoint!Counted' = Endpoint!Counted BY <1>1, <1>2 DEF Endpoint!Counted
<1>4. \A q \in EndpointRequests : Endpoint!Passed(q) \/ v5'[q].count = v5[q].count
  OBVIOUS
<1>5. Endpoint!LetIn' = Endpoint!LetIn
  BY <1>1, <1>3, <1>4 DEF Endpoint!LetIn, Endpoint!Counted, Endpoint!Allowed
<1>. QED BY <1>3, <1>5

\* A step behind the limit, or of a process that dies, changes nothing that
\* the limit rests on.
LEMMA BehindTheLimit ==
    ASSUME Endpoint!AdmissionInv, NEW r \in EndpointRequests, NEW p, NEW a, NEW s,
           v1' = v1, v3' = [v3 EXCEPT ![r] = p], v4' = [v4 EXCEPT ![r] = a],
           v5' = [v5 EXCEPT ![r] = s], v6' = v6, v7' = v7, v8' = v8,
           v9' \in Seq(Endpoint!KeyEvents), v9' # <<>>,
           p \in 1 .. (Len(Endpoint!Steps(r)) + 1), a \in Endpoint!Answers \ {"limited"},
           s \in Endpoint!ReadThere, s.window = v5[r].window, s.count = v5[r].count,
           v4[r] = "none", p >= v3[r],
           \/ v1[r] = "delegate" \/ v3[r] > 5 \/ (p = v3[r] /\ a = "lost")
    PROVE  Endpoint!AdmissionInv'
<1>. /\ v1[r] \in Endpoint!Operations /\ v3[r] \in Nat /\ p \in Nat
     /\ v1[r] = "delegate" => v3[r] < 3 /\ p < 3
  <2>1. /\ v1[r] \in Endpoint!Operations /\ v3[r] \in Nat
        /\ v3[r] \in 1 .. (Len(Endpoint!Steps(r)) + 1)
    BY DEF Endpoint!AdmissionInv
  <2>2. Len(Endpoint!Steps(r)) \in Nat BY <2>1, StepsOf
  <2>3. CASE v1[r] = "delegate"
    <3>1. Len(Endpoint!Steps(r)) = 1 BY <2>1, <2>3, StepsOf
    <3>. QED BY <2>1, <3>1
  <2>. QED BY <2>1, <2>2, <2>3
<1>1. /\ s.window <= v7 /\ (v1[r] = "delegate" => s.count = 0)
      /\ v3[r] > 3 => v1[r] # "delegate"
  BY DEF Endpoint!AdmissionInv
<1>2. /\ p > 3 /\ a # "limited" <=> Endpoint!Passed(r)
      /\ v1[r] # "delegate" /\ p \in {2, 3} /\ a \in {"none", "lost"} <=> Endpoint!Waiting(r)
  BY DEF Endpoint!Passed, Endpoint!Waiting
<1>3. Endpoint!Counted' = Endpoint!Counted /\ Endpoint!LetIn' = Endpoint!LetIn
  BY <1>2, CountsStay
<1>4. Endpoint!NoEternalWindow'
  <2>1. CASE v6.n >= 1 /\ ~ v6.expires
    <3>1. PICK q \in EndpointRequests : /\ v3[q] \in {2, 5} /\ v5[q].count = 1
                                        /\ v4[q] \in {"none", "lost"}
      BY <2>1 DEF Endpoint!AdmissionInv, Endpoint!NoEternalWindow
    <3>2. CASE q # r
      <4>1. v3'[q] \in {2, 5} /\ v5'[q].count = 1 /\ v4'[q] \in {"none", "lost"}
        BY <3>1, <3>2
      <4>. QED BY <4>1 DEF Endpoint!NoEternalWindow
    <3>3. CASE q = r
      <4>1. v1[r] # "delegate" BY <3>1, <3>3 DEF Endpoint!AdmissionInv
      <4>2. p = v3[r] /\ a = "lost" BY <3>1, <3>3, <4>1
      <4>3. v3'[r] \in {2, 5} /\ v5'[r].count = 1 /\ v4'[r] \in {"none", "lost"}
        BY <3>1, <3>3, <4>2 DEF Endpoint!AdmissionInv
      <4>. QED BY <4>3 DEF Endpoint!NoEternalWindow
    <3>. QED BY <3>2, <3>3
  <2>. QED BY <2>1 DEF Endpoint!NoEternalWindow
<1>5. /\ v1' \in [EndpointRequests -> Endpoint!Operations]
      /\ v3' \in [EndpointRequests -> Nat]
      /\ v4' \in [EndpointRequests -> Endpoint!Answers]
      /\ \A q \in EndpointRequests : v3'[q] \in 1 .. (Len(Endpoint!Steps(q)') + 1)
      /\ v5' \in [EndpointRequests -> Endpoint!ReadThere]
      /\ v7' \in Nat
      /\ \A q \in EndpointRequests : v5'[q].window <= v7'
      /\ \A q \in EndpointRequests : v1'[q] = "delegate" => v5'[q].count = 0
  BY <1>1, RequestMoves
<1>6. /\ v6' \in Endpoint!Counters /\ v8' \in Nat /\ (~ v6'.there => v6'.n = 0)
      /\ Endpoint!Cardinality(Endpoint!Counted') <= v6'.n + v8'
      /\ Endpoint!Cardinality(Endpoint!LetIn') <= WindowLimit + v8'
  BY <1>3 DEF Endpoint!AdmissionInv
<1>. QED BY <1>4, <1>5, <1>6 DEF Endpoint!AdmissionInv

LEMMA BehindGoes ==
    ASSUME Endpoint!AdmissionInv, NEW r \in EndpointRequests, NEW s, Endpoint!Go(r),
           v5' = [v5 EXCEPT ![r] = s], UNCHANGED <<v1, v6, v7, v8>>,
           s \in Endpoint!ReadThere, s.window = v5[r].window, s.count = v5[r].count,
           v9' \in Seq(Endpoint!KeyEvents), v9' # <<>>, v4[r] = "none",
           v3[r] <= Len(Endpoint!Steps(r)), v1[r] = "delegate" \/ v3[r] > 5
    PROVE  Endpoint!AdmissionInv'
<1>. DEFINE p == v3[r] + 1
            a == v4[r]
<1>1. /\ v3 \in [EndpointRequests -> Nat] /\ v4 \in [EndpointRequests -> Endpoint!Answers]
      /\ v3[r] \in 1 .. (Len(Endpoint!Steps(r)) + 1) /\ v1[r] \in Endpoint!Operations
  BY DEF Endpoint!AdmissionInv
<1>2. Len(Endpoint!Steps(r)) \in Nat BY <1>1, StepsOf
<1>3. v3' = [v3 EXCEPT ![r] = p] BY DEF Endpoint!Go
<1>4. v4' = [v4 EXCEPT ![r] = a] BY <1>1 DEF Endpoint!Go
<1>5. p \in 1 .. (Len(Endpoint!Steps(r)) + 1) /\ p >= v3[r] BY <1>1, <1>2
<1>6. a \in Endpoint!Answers \ {"limited"} BY <1>1
<1>7. v1' = v1 /\ v6' = v6 /\ v7' = v7 /\ v8' = v8 OBVIOUS
<1>. HIDE DEF p, a
<1>. QED BY <1>3, <1>4, <1>5, <1>6, <1>7, BehindTheLimit

LEMMA BehindReturns ==
    ASSUME Endpoint!AdmissionInv, NEW r \in EndpointRequests, NEW a, Endpoint!Return(r, a),
           UNCHANGED <<v1, v5, v6, v7, v8, v9>>, a \in Endpoint!Answers \ {"limited"},
           v4[r] = "none", v1[r] = "delegate" \/ v3[r] > 5 \/ a = "lost"
    PROVE  Endpoint!AdmissionInv'
<1>. DEFINE p == v3[r]
            s == v5[r]
<1>1. /\ v3 \in [EndpointRequests -> Nat] /\ v5 \in [EndpointRequests -> Endpoint!ReadThere]
      /\ v9 \in Seq(Endpoint!KeyEvents) /\ v9 # <<>>
      /\ v3[r] \in 1 .. (Len(Endpoint!Steps(r)) + 1)
  BY DEF Endpoint!AdmissionInv
<1>2. v3' = [v3 EXCEPT ![r] = p] BY <1>1 DEF Endpoint!Return
<1>3. v4' = [v4 EXCEPT ![r] = a] BY DEF Endpoint!Return
<1>4. v5' = [v5 EXCEPT ![r] = s] BY <1>1
<1>5. /\ p \in 1 .. (Len(Endpoint!Steps(r)) + 1) /\ p >= v3[r]
      /\ s \in Endpoint!ReadThere /\ s.window = v5[r].window /\ s.count = v5[r].count
      /\ v1[r] = "delegate" \/ v3[r] > 5 \/ (p = v3[r] /\ a = "lost")
  BY <1>1
<1>6. v1' = v1 /\ v6' = v6 /\ v7' = v7 /\ v8' = v8 /\ v9' \in Seq(Endpoint!KeyEvents) /\ v9' # <<>>
  BY <1>1
<1>. HIDE DEF p, s
<1>. QED BY <1>2, <1>3, <1>4, <1>5, <1>6, BehindTheLimit

LEMMA AdmissionBehind ==
    ASSUME Endpoint!AdmissionInv, NEW r \in EndpointRequests,
           \/ Endpoint!CreateApiKey(r) \/ Endpoint!ReadLatest(r) \/ Endpoint!AppendRevoked(r)
           \/ Endpoint!ListApiKeys(r) \/ Endpoint!FailCreateUser(r) \/ Endpoint!Answer(r)
           \/ Endpoint!Lose(r)
    PROVE  Endpoint!AdmissionInv'
<1>. DEFINE There(s) == /\ s \in Endpoint!ReadThere /\ s.window = v5[r].window
                        /\ s.count = v5[r].count
            s0 == v5[r]
<1>1. /\ v5 \in [EndpointRequests -> Endpoint!ReadThere]
      /\ v9 \in Seq(Endpoint!KeyEvents) /\ v9 # <<>>
      /\ v3[r] \in 1 .. (Len(Endpoint!Steps(r)) + 1) /\ v1[r] \in Endpoint!Operations
  BY DEF Endpoint!AdmissionInv
<1>2. v5 = [v5 EXCEPT ![r] = s0] /\ There(s0) BY <1>1
<1>3. ASSUME NEW step \in {"appendCreated", "read", "appendRevoked", "list", "throw"},
             Endpoint!At(r, step)
      PROVE  /\ v4[r] = "none" /\ v3[r] <= Len(Endpoint!Steps(r))
             /\ v1[r] = "delegate" \/ v3[r] > 5
  BY <1>3, StepIsAt
<1>. HIDE DEF s0
<1>4. CASE Endpoint!CreateApiKey(r)
  <2>1. /\ Endpoint!At(r, "appendCreated") /\ Endpoint!Go(r)
        /\ UNCHANGED <<v1, v5, v6, v7, v8, v9>>
    BY <1>4 DEF Endpoint!CreateApiKey
  <2>2. v4[r] = "none" /\ v3[r] <= Len(Endpoint!Steps(r)) /\ (v1[r] = "delegate" \/ v3[r] > 5)
    BY <1>3, <2>1
  <2>3. v5' = [v5 EXCEPT ![r] = s0] /\ v9' \in Seq(Endpoint!KeyEvents) /\ v9' # <<>>
    BY <1>1, <1>2, <2>1
  <2>. QED BY <1>2, <2>1, <2>2, <2>3, BehindGoes
<1>5. CASE Endpoint!ListApiKeys(r) \/ Endpoint!FailCreateUser(r)
  <2>1. PICK a \in {"revoked", "live", "error"} : Endpoint!Return(r, a)
    BY <1>5 DEF Endpoint!ListApiKeys, Endpoint!FailCreateUser, Endpoint!Listed
  <2>2. /\ Endpoint!At(r, "list") \/ Endpoint!At(r, "throw")
        /\ UNCHANGED <<v1, v5, v6, v7, v8, v9>>
    BY <1>5 DEF Endpoint!ListApiKeys, Endpoint!FailCreateUser
  <2>3. v4[r] = "none" /\ (v1[r] = "delegate" \/ v3[r] > 5) BY <1>3, <2>2
  <2>4. a \in Endpoint!Answers \ {"limited"} BY DEF Endpoint!Answers
  <2>. QED BY <2>1, <2>2, <2>3, <2>4, BehindReturns
<1>6. CASE Endpoint!ReadLatest(r)
  <2>. DEFINE version == Endpoint!Last(v9).version
  <2>1. Endpoint!At(r, "read") /\ UNCHANGED <<v1, v6, v7, v8, v9>>
    BY <1>6 DEF Endpoint!ReadLatest
  <2>2. v4[r] = "none" /\ v3[r] <= Len(Endpoint!Steps(r)) /\ (v1[r] = "delegate" \/ v3[r] > 5)
    BY <1>3, <2>1
  <2>3. CASE Endpoint!Go(r) /\ v5' = [v5 EXCEPT ![r].latest = version]
    <3>. DEFINE s == [v5[r] EXCEPT !.latest = version]
    <3>1. version \in Nat
      <4>1. v9[Len(v9)] \in Endpoint!KeyEvents BY <1>1
      <4>. QED BY <4>1 DEF Endpoint!Last, Endpoint!KeyEvents
    <3>2. There(s)
      <4>1. v5[r] \in Endpoint!ReadThere BY <1>1
      <4>. QED BY <3>1, <4>1 DEF Endpoint!ReadThere
    <3>3. v5' = [v5 EXCEPT ![r] = s] BY <2>3
    <3>4. v9' \in Seq(Endpoint!KeyEvents) /\ v9' # <<>> BY <1>1, <2>1
    <3>. HIDE DEF s
    <3>. QED BY <2>1, <2>2, <2>3, <3>2, <3>3, <3>4, BehindGoes
  <2>4. CASE Endpoint!Return(r, "notfound") /\ UNCHANGED v5
    <3>. DEFINE a == "notfound"
    <3>1. Endpoint!Return(r, a) /\ UNCHANGED <<v1, v5, v6, v7, v8, v9>> BY <2>1, <2>4
    <3>2. a \in Endpoint!Answers \ {"limited"} BY DEF Endpoint!Answers
    <3>. HIDE DEF a
    <3>. QED BY <2>2, <3>1, <3>2, BehindReturns
  <2>. QED BY <1>6, <2>3, <2>4 DEF Endpoint!ReadLatest
<1>7. CASE Endpoint!AppendRevoked(r)
  <2>1. Endpoint!At(r, "appendRevoked") /\ UNCHANGED <<v1, v5, v6, v7, v8>>
    BY <1>7 DEF Endpoint!AppendRevoked
  <2>2. v4[r] = "none" /\ v3[r] <= Len(Endpoint!Steps(r)) /\ (v1[r] = "delegate" \/ v3[r] > 5)
    BY <1>3, <2>1
  <2>3. CASE Endpoint!Return(r, "error") /\ UNCHANGED v9
    <3>. DEFINE a == "error"
    <3>1. Endpoint!Return(r, a) /\ UNCHANGED <<v1, v5, v6, v7, v8, v9>> BY <2>1, <2>3
    <3>2. a \in Endpoint!Answers \ {"limited"} BY DEF Endpoint!Answers
    <3>. HIDE DEF a
    <3>. QED BY <2>2, <3>1, <3>2, BehindReturns
  <2>4. CASE /\ Endpoint!Go(r)
             /\ v9' = Append(v9, [type |-> "revoked", version |-> v5[r].latest + 1, by |-> r])
    <3>. DEFINE e == [type |-> "revoked", version |-> v5[r].latest + 1, by |-> r]
    <3>1. e \in Endpoint!KeyEvents
      <4>1. v5[r].latest \in Nat BY <1>1 DEF Endpoint!ReadThere
      <4>. QED BY <4>1 DEF Endpoint!KeyEvents
    <3>2. v9' = Append(v9, e) BY <2>4
    <3>. HIDE DEF e
    <3>3. v9' \in Seq(Endpoint!KeyEvents) /\ v9' # <<>> BY <1>1, <3>1, <3>2
    <3>4. v5' = [v5 EXCEPT ![r] = s0] BY <1>2, <2>1
    <3>. QED BY <1>2, <2>1, <2>2, <2>4, <3>3, <3>4, BehindGoes
  <2>. QED BY <1>7, <2>3, <2>4 DEF Endpoint!AppendRevoked, Endpoint!AppendKeyEvent
<1>8. CASE Endpoint!Answer(r)
  <2>. DEFINE a == "ok"
  <2>1. /\ v4[r] = "none" /\ v3[r] > Len(Endpoint!Steps(r)) /\ Endpoint!Return(r, a)
        /\ UNCHANGED <<v1, v5, v6, v7, v8, v9>>
    BY <1>8 DEF Endpoint!Answer
  <2>2. v1[r] = "delegate" \/ v3[r] > 5
    <3>1. CASE v1[r] # "delegate"
      <4>. DEFINE n == Len(Endpoint!Steps(r))
      <4>1. n \in 5 .. 7 BY <1>1, <3>1, StepsOf
      <4>2. v3[r] \in 1 .. (n + 1) /\ v3[r] > n BY <1>1, <2>1
      <4>. HIDE DEF n
      <4>. QED BY <4>1, <4>2
    <3>. QED BY <3>1
  <2>3. a \in Endpoint!Answers \ {"limited"} BY DEF Endpoint!Answers
  <2>. HIDE DEF a
  <2>. QED BY <2>1, <2>2, <2>3, BehindReturns
<1>9. CASE Endpoint!Lose(r)
  <2>. DEFINE a == "lost"
  <2>1. /\ v4[r] = "none" /\ Endpoint!Return(r, a) /\ UNCHANGED <<v1, v5, v6, v7, v8, v9>>
    BY <1>9 DEF Endpoint!Lose
  <2>2. a \in Endpoint!Answers \ {"limited"} /\ a = "lost" BY DEF Endpoint!Answers
  <2>. HIDE DEF a
  <2>. QED BY <2>1, <2>2, BehindReturns
<1>. QED BY <1>4, <1>5, <1>6, <1>7, <1>8, <1>9

\* The counter after a count.
CountsTo(c, n) == [c EXCEPT !.there = TRUE, !.n = n]

LEMMA CounterOf ==
    ASSUME NEW there, NEW n, NEW expires, NEW yes, NEW m, NEW c, NEW d,
           c = [there |-> there, n |-> n, expires |-> expires],
           d = [c EXCEPT !.there = yes, !.n = m]
    PROVE  /\ d = [there |-> yes, n |-> m, expires |-> expires]
           /\ d.expires = expires
OBVIOUS

LEMMA CounterIs ==
    ASSUME NEW c \in Endpoint!Counters, NEW n \in Int, NEW d, d = CountsTo(c, n)
    PROVE  d \in Endpoint!Counters /\ d.there /\ d.n = n /\ (d.expires <=> c.expires)
<1>. DEFINE yes == TRUE
<1>0. yes = TRUE /\ d = [c EXCEPT !.there = yes, !.n = n] BY DEF CountsTo
<1>. HIDE DEF yes
<1>1. PICK there \in BOOLEAN, m \in Int, expires \in BOOLEAN :
          c = [there |-> there, n |-> m, expires |-> expires]
  <2>1. c.there \in BOOLEAN /\ c.n \in Int /\ c.expires \in BOOLEAN BY DEF Endpoint!Counters
  <2>2. c = [there |-> c.there, n |-> c.n, expires |-> c.expires] BY DEF Endpoint!Counters
  <2>. QED BY <2>1, <2>2, Zenon
<1>2. d = [there |-> yes, n |-> n, expires |-> expires] /\ d.expires = expires
  BY <1>0, <1>1, CounterOf, Zenon
<1>3. d \in Endpoint!Counters BY <1>0, <1>1, <1>2 DEF Endpoint!Counters
<1>4. d.there BY <1>0, <1>2
<1>5. d.n = n BY <1>2
<1>6. d.expires <=> expires BY <1>2, Zenon
<1>7. c.expires <=> expires BY <1>1
<1>. QED BY <1>3, <1>4, <1>5, <1>6, <1>7

\* A count that is read: the request is one more that is counted, or was let
\* in before.
LEMMA AdmissionIncr ==
    ASSUME Endpoint!AdmissionInv, NEW r \in EndpointRequests, Endpoint!Incr(r)
    PROVE  Endpoint!AdmissionInv'
<1>. DEFINE p == v3[r] + 1
            s == [v5[r] EXCEPT !.count = v6.n + 1,
                               !.window = IF v3[r] = 1 THEN v7 ELSE v5[r].window,
                               !.began = IF v3[r] = 1 THEN Len(v9) ELSE v5[r].began]
<1>. /\ v3 \in [EndpointRequests -> Nat] /\ v4 \in [EndpointRequests -> Endpoint!Answers]
     /\ v5 \in [EndpointRequests -> Endpoint!ReadThere] /\ v6 \in Endpoint!Counters
     /\ v7 \in Nat /\ v8 \in Nat /\ v9 \in Seq(Endpoint!KeyEvents) /\ v9 # <<>>
     /\ v1[r] \in Endpoint!Operations /\ Len(v9) \in Nat /\ v5[r].window <= v7
     /\ v6.n \in Int /\ v5[r] \in Endpoint!ReadThere
  BY DEF Endpoint!AdmissionInv, Endpoint!Counters
<1>1. v4[r] = "none" /\ v3[r] <= Len(Endpoint!Steps(r)) /\ v1[r] # "delegate" /\ v3[r] \in {1, 4}
  BY StepIsAt DEF Endpoint!Incr
<1>2. s \in Endpoint!ReadThere /\ s.count = v6.n + 1 /\ s.window <= v7
      /\ s.window = IF v3[r] = 1 THEN v7 ELSE v5[r].window
  <2>. DEFINE count == v6.n + 1
              window == IF v3[r] = 1 THEN v7 ELSE v5[r].window
              began == IF v3[r] = 1 THEN Len(v9) ELSE v5[r].began
              x == v5[r]
  <2>1. count \in Int /\ window \in Nat /\ began \in Nat /\ window <= v7
    BY DEF Endpoint!ReadThere
  <2>2. s = [x EXCEPT !.count = count, !.window = window, !.began = began] OBVIOUS
  <2>3. /\ x = [count |-> x.count, window |-> x.window, latest |-> x.latest, began |-> x.began]
        /\ x.latest \in Nat
    BY DEF Endpoint!ReadThere
  <2>. HIDE DEF count, window, began, x, s
  <2>4. s = [count |-> count, window |-> window, latest |-> x.latest, began |-> began]
    BY <2>2, <2>3
  <2>5. s \in Endpoint!ReadThere BY <2>1, <2>3, <2>4 DEF Endpoint!ReadThere
  <2>6. s.count = count /\ s.window = window BY <2>4
  <2>. QED BY <2>1, <2>5, <2>6 DEF count, window
<1>3. /\ v3' = [v3 EXCEPT ![r] = p] /\ v4' = [v4 EXCEPT ![r] = v4[r]]
      /\ v5' = [v5 EXCEPT ![r] = s]
  BY DEF Endpoint!Incr, Endpoint!Go
<1>4. /\ v6' = [v6 EXCEPT !.there = TRUE, !.n = v6.n + 1]
      /\ UNCHANGED <<v1, v7, v8, v9>>
  BY DEF Endpoint!Incr
<1>5. v6' \in Endpoint!Counters /\ v6'.there /\ v6'.n = v6.n + 1 /\ (v6'.expires <=> v6.expires)
  <2>. DEFINE n == v6.n + 1
  <2>1. v6' = CountsTo(v6, n) /\ n \in Int BY <1>4 DEF CountsTo
  <2>. HIDE DEF n
  <2>2. v6' \in Endpoint!Counters /\ v6'.there /\ v6'.n = n /\ (v6'.expires <=> v6.expires)
    BY <2>1, CounterIs
  <2>. QED BY <2>2 DEF n
<1>. HIDE DEF s
<1>6. p \in 1 .. (Len(Endpoint!Steps(r)) + 1) BY <1>1, StepsOf
<1>7. /\ v1' \in [EndpointRequests -> Endpoint!Operations]
      /\ v3' \in [EndpointRequests -> Nat]
      /\ v4' \in [EndpointRequests -> Endpoint!Answers]
      /\ \A q \in EndpointRequests : v3'[q] \in 1 .. (Len(Endpoint!Steps(q)') + 1)
      /\ v5' \in [EndpointRequests -> Endpoint!ReadThere]
      /\ v7' \in Nat
      /\ \A q \in EndpointRequests : v5'[q].window <= v7'
      /\ \A q \in EndpointRequests : v1'[q] = "delegate" => v5'[q].count = 0
  BY <1>1, <1>2, <1>3, <1>4, <1>6, RequestMoves DEF Endpoint!AdmissionInv
<1>8. Endpoint!NoEternalWindow'
  <2>1. CASE v6'.n >= 1 /\ ~ v6'.expires
    <3>1. CASE v6.n >= 1
      <4>1. PICK q \in EndpointRequests : /\ v3[q] \in {2, 5} /\ v5[q].count = 1
                                          /\ v4[q] \in {"none", "lost"}
        BY <1>5, <2>1, <3>1 DEF Endpoint!AdmissionInv, Endpoint!NoEternalWindow
      <4>2. v3'[q] \in {2, 5} /\ v5'[q].count = 1 /\ v4'[q] \in {"none", "lost"}
        BY <1>1, <1>3, <4>1
      <4>. QED BY <4>2 DEF Endpoint!NoEternalWindow
    <3>2. CASE v6.n = 0
      <4>1. v3'[r] \in {2, 5} /\ v5'[r].count = 1 /\ v4'[r] \in {"none", "lost"}
        BY <1>1, <1>2, <1>3, <3>2
      <4>. QED BY <4>1 DEF Endpoint!NoEternalWindow
    <3>. QED BY <1>5, <2>1, <3>1, <3>2
  <2>. QED BY <2>1 DEF Endpoint!NoEternalWindow
<1>9. /\ Endpoint!Cardinality(Endpoint!Counted') <= v6'.n + v8'
      /\ Endpoint!Cardinality(Endpoint!LetIn') <= WindowLimit + v8'
  <2>1. CASE v3[r] = 4
    <3>1. /\ p > 3 /\ v4[r] # "limited" <=> Endpoint!Passed(r)
          /\ v1[r] # "delegate" /\ p \in {2, 3} /\ v4[r] \in {"none", "lost"} <=> Endpoint!Waiting(r)
          /\ Endpoint!Passed(r) /\ s.window = v5[r].window
      BY <1>1, <1>2, <2>1 DEF Endpoint!Passed, Endpoint!Waiting
    <3>2. Endpoint!Counted' = Endpoint!Counted /\ Endpoint!LetIn' = Endpoint!LetIn
      BY <1>3, <1>4, <3>1, CountsStay
    <3>. QED BY <1>4, <1>5, <3>2, CountsAreNumbers DEF Endpoint!AdmissionInv
  <2>2. CASE v3[r] = 1
    <3>1. \A q \in EndpointRequests \ {r} :
              /\ Endpoint!Passed(q)' <=> Endpoint!Passed(q)
              /\ Endpoint!Waiting(q)' <=> Endpoint!Waiting(q)
              /\ v5'[q] = v5[q]
      BY <1>3, <1>4 DEF Endpoint!Passed, Endpoint!Waiting
    <3>2. /\ ~ Endpoint!Passed(r) /\ ~ Endpoint!Waiting(r)
          /\ ~ Endpoint!Passed(r)' /\ Endpoint!Waiting(r)'
      BY <1>1, <1>3, <1>4, <2>2 DEF Endpoint!Passed, Endpoint!Waiting
    <3>3. v5'[r].window = v7' /\ v5'[r].count = v6.n + 1 BY <1>2, <1>3, <1>4, <2>2
    <3>4. Endpoint!Counted' = Endpoint!Counted \cup {r} /\ r \notin Endpoint!Counted
      BY <1>4, <3>1, <3>2, <3>3 DEF Endpoint!Counted
    <3>5. Cardinality(Endpoint!Counted') = Cardinality(Endpoint!Counted) + 1
      BY <3>4, CountsAreNumbers, FS_AddElement
    <3>6. Endpoint!LetIn' = IF v6.n + 1 <= WindowLimit THEN Endpoint!LetIn \cup {r}
                                                       ELSE Endpoint!LetIn
      BY <3>1, <3>2, <3>3, <3>4 DEF Endpoint!LetIn, Endpoint!Allowed, Endpoint!Counted
    <3>7. r \notin Endpoint!LetIn BY <3>4 DEF Endpoint!LetIn
    <3>8. v6.n + 1 <= WindowLimit =>
              Cardinality(Endpoint!LetIn') = Cardinality(Endpoint!LetIn) + 1
      BY <3>6, <3>7, CountsAreNumbers, FS_AddElement
    <3>9. /\ Cardinality(Endpoint!Counted) \in Nat /\ Cardinality(Endpoint!LetIn) \in Nat
          /\ Cardinality(Endpoint!LetIn) <= Cardinality(Endpoint!Counted)
          /\ Cardinality(Endpoint!Counted) <= v6.n + v8
          /\ Cardinality(Endpoint!LetIn) <= WindowLimit + v8
      BY CountsAreNumbers, EndpointCardinality DEF Endpoint!AdmissionInv
    <3>10. WindowLimit \in Nat BY GuardsAssumption
    <3>11. Cardinality(Endpoint!Counted') <= v6'.n + v8' BY <1>4, <1>5, <3>5, <3>9
    <3>12. Cardinality(Endpoint!LetIn') <= WindowLimit + v8'
      <4>1. CASE v6.n + 1 <= WindowLimit BY <1>4, <3>8, <3>9, <3>10, <4>1
      <4>2. CASE ~ (v6.n + 1 <= WindowLimit) BY <1>4, <3>6, <3>9, <3>10, <4>2
      <4>. QED BY <4>1, <4>2
    <3>. QED BY <3>11, <3>12, EndpointCardinality
  <2>. QED BY <1>1, <2>1, <2>2
<1>10. v9' \in Seq(Endpoint!KeyEvents) /\ v9' # <<>> /\ v8' \in Nat BY <1>4
<1>. QED BY <1>5, <1>7, <1>8, <1>9, <1>10 DEF Endpoint!AdmissionInv

\* A window that is started: whoever counted first has seen to it.
LEMMA AdmissionExpire ==
    ASSUME Endpoint!AdmissionInv, NEW r \in EndpointRequests, Endpoint!Expire(r)
    PROVE  Endpoint!AdmissionInv'
<1>. DEFINE p == v3[r] + 1
<1>. /\ v3 \in [EndpointRequests -> Nat] /\ v4 \in [EndpointRequests -> Endpoint!Answers]
     /\ v5 \in [EndpointRequests -> Endpoint!ReadThere] /\ v6 \in Endpoint!Counters
     /\ v7 \in Nat /\ v8 \in Nat /\ v9 \in Seq(Endpoint!KeyEvents) /\ v9 # <<>>
     /\ v1[r] \in Endpoint!Operations /\ v5[r].window <= v7
     /\ v6.n \in Int /\ v5[r] \in Endpoint!ReadThere
  BY DEF Endpoint!AdmissionInv, Endpoint!Counters
<1>1. v4[r] = "none" /\ v3[r] <= Len(Endpoint!Steps(r)) /\ v1[r] # "delegate" /\ v3[r] \in {2, 5}
  BY StepIsAt DEF Endpoint!Expire
<1>2. /\ v3' = [v3 EXCEPT ![r] = p] /\ v4' = [v4 EXCEPT ![r] = v4[r]]
      /\ v5' = [v5 EXCEPT ![r] = v5[r]]
  BY DEF Endpoint!Expire, Endpoint!Go
<1>3. /\ v6' = [v6 EXCEPT !.expires = v6.expires \/ (v5[r].count = 1 /\ v6.there)]
      /\ UNCHANGED <<v1, v5, v7, v8, v9>>
  BY DEF Endpoint!Expire
<1>4. /\ v6' \in Endpoint!Counters /\ v6'.there = v6.there /\ v6'.n = v6.n
      /\ v6'.expires <=> v6.expires \/ (v5[r].count = 1 /\ v6.there)
  <2>. DEFINE e == v6.expires \/ (v5[r].count = 1 /\ v6.there)
  <2>1. v6' = [v6 EXCEPT !.expires = e] BY <1>3
  <2>2. e \in BOOLEAN OBVIOUS
  <2>. HIDE DEF e
  <2>3. v6' \in Endpoint!Counters /\ v6'.there = v6.there /\ v6'.n = v6.n /\ v6'.expires = e
    BY <2>1, <2>2 DEF Endpoint!Counters
  <2>. QED BY <2>3 DEF e
<1>5. p \in 1 .. (Len(Endpoint!Steps(r)) + 1) BY <1>1, StepsOf
<1>6. /\ v1' \in [EndpointRequests -> Endpoint!Operations]
      /\ v3' \in [EndpointRequests -> Nat]
      /\ v4' \in [EndpointRequests -> Endpoint!Answers]
      /\ \A q \in EndpointRequests : v3'[q] \in 1 .. (Len(Endpoint!Steps(q)') + 1)
      /\ v5' \in [EndpointRequests -> Endpoint!ReadThere]
      /\ v7' \in Nat
      /\ \A q \in EndpointRequests : v5'[q].window <= v7'
      /\ \A q \in EndpointRequests : v1'[q] = "delegate" => v5'[q].count = 0
  BY <1>1, <1>2, <1>3, <1>5, RequestMoves DEF Endpoint!AdmissionInv
<1>7. Endpoint!NoEternalWindow'
  <2>1. CASE v6'.n >= 1 /\ ~ v6'.expires
    <3>1. v6.n >= 1 /\ ~ v6.expires /\ v6.there
      BY <1>4, <2>1 DEF Endpoint!AdmissionInv
    <3>2. PICK q \in EndpointRequests : /\ v3[q] \in {2, 5} /\ v5[q].count = 1
                                        /\ v4[q] \in {"none", "lost"}
      BY <3>1 DEF Endpoint!AdmissionInv, Endpoint!NoEternalWindow
    <3>3. q # r BY <1>4, <2>1, <3>1, <3>2
    <3>4. v3'[q] \in {2, 5} /\ v5'[q].count = 1 /\ v4'[q] \in {"none", "lost"}
      BY <1>2, <3>2, <3>3
    <3>. QED BY <3>4 DEF Endpoint!NoEternalWindow
  <2>. QED BY <2>1 DEF Endpoint!NoEternalWindow
<1>8. Endpoint!Counted' = Endpoint!Counted /\ Endpoint!LetIn' = Endpoint!LetIn
  <2>1. /\ p > 3 /\ v4[r] # "limited" <=> Endpoint!Passed(r)
        /\ v1[r] # "delegate" /\ p \in {2, 3} /\ v4[r] \in {"none", "lost"} <=> Endpoint!Waiting(r)
    BY <1>1 DEF Endpoint!Passed, Endpoint!Waiting
  <2>. QED BY <1>2, <1>3, <2>1, CountsStay
<1>9. /\ Endpoint!Cardinality(Endpoint!Counted') <= v6'.n + v8'
      /\ Endpoint!Cardinality(Endpoint!LetIn') <= WindowLimit + v8'
      /\ ~ v6'.there => v6'.n = 0
  BY <1>3, <1>4, <1>8 DEF Endpoint!AdmissionInv
<1>10. v9' \in Seq(Endpoint!KeyEvents) /\ v9' # <<>> /\ v8' \in Nat BY <1>3
<1>. QED BY <1>4, <1>6, <1>7, <1>9, <1>10 DEF Endpoint!AdmissionInv

\* A request that is let in goes on being counted; one that is refused takes
\* its count back, from its own window or from a later one.
LEMMA AdmissionCheck ==
    ASSUME Endpoint!AdmissionInv, NEW r \in EndpointRequests, Endpoint!Check(r)
    PROVE  Endpoint!AdmissionInv'
<1>. /\ v3 \in [EndpointRequests -> Nat] /\ v4 \in [EndpointRequests -> Endpoint!Answers]
     /\ v5 \in [EndpointRequests -> Endpoint!ReadThere] /\ v6 \in Endpoint!Counters
     /\ v7 \in Nat /\ v8 \in Nat /\ v9 \in Seq(Endpoint!KeyEvents) /\ v9 # <<>>
     /\ v1[r] \in Endpoint!Operations /\ v5[r].window <= v7
     /\ v6.n \in Int /\ v5[r] \in Endpoint!ReadThere
  BY DEF Endpoint!AdmissionInv, Endpoint!Counters
<1>1. v4[r] = "none" /\ v3[r] <= Len(Endpoint!Steps(r)) /\ v1[r] # "delegate" /\ v3[r] = 3
  BY StepIsAt DEF Endpoint!Check
<1>2. UNCHANGED <<v1, v5, v7, v9>> /\ v5' = [v5 EXCEPT ![r] = v5[r]] BY DEF Endpoint!Check
<1>3. ASSUME NEW p, NEW a, v3' = [v3 EXCEPT ![r] = p], v4' = [v4 EXCEPT ![r] = a],
             p \in 1 .. (Len(Endpoint!Steps(r)) + 1), a \in Endpoint!Answers
      PROVE  /\ v1' \in [EndpointRequests -> Endpoint!Operations]
             /\ v3' \in [EndpointRequests -> Nat]
             /\ v4' \in [EndpointRequests -> Endpoint!Answers]
             /\ \A q \in EndpointRequests : v3'[q] \in 1 .. (Len(Endpoint!Steps(q)') + 1)
             /\ v5' \in [EndpointRequests -> Endpoint!ReadThere]
             /\ v7' \in Nat
             /\ \A q \in EndpointRequests : v5'[q].window <= v7'
             /\ \A q \in EndpointRequests : v1'[q] = "delegate" => v5'[q].count = 0
  BY <1>1, <1>2, <1>3, RequestMoves DEF Endpoint!AdmissionInv
<1>4. ASSUME v6' \in Endpoint!Counters, v6'.n <= v6.n, v6'.expires = v6.expires,
             \A q \in EndpointRequests \ {r} : v3'[q] = v3[q] /\ v4'[q] = v4[q]
      PROVE  Endpoint!NoEternalWindow'
  <2>1. CASE v6'.n >= 1 /\ ~ v6'.expires
    <3>1. v6.n >= 1 /\ ~ v6.expires BY <1>4, <2>1 DEF Endpoint!Counters
    <3>2. PICK q \in EndpointRequests : /\ v3[q] \in {2, 5} /\ v5[q].count = 1
                                        /\ v4[q] \in {"none", "lost"}
      BY <3>1 DEF Endpoint!AdmissionInv, Endpoint!NoEternalWindow
    <3>3. v3'[q] \in {2, 5} /\ v5'[q].count = 1 /\ v4'[q] \in {"none", "lost"}
      BY <1>1, <1>2, <1>4, <3>2
    <3>. QED BY <3>3 DEF Endpoint!NoEternalWindow
  <2>. QED BY <2>1 DEF Endpoint!NoEternalWindow
<1>5. CASE Endpoint!Allowed(v5[r].count)
  <2>. DEFINE p == v3[r] + 1
  <2>1. /\ v3' = [v3 EXCEPT ![r] = p] /\ v4' = [v4 EXCEPT ![r] = v4[r]]
        /\ UNCHANGED <<v6, v8>>
    BY <1>5 DEF Endpoint!Check, Endpoint!Go
  <2>2. p \in 1 .. (Len(Endpoint!Steps(r)) + 1) BY <1>1, StepsOf
  <2>3. \A q \in EndpointRequests \ {r} :
            /\ Endpoint!Passed(q)' <=> Endpoint!Passed(q)
            /\ Endpoint!Waiting(q)' <=> Endpoint!Waiting(q)
    BY <1>2, <2>1 DEF Endpoint!Passed, Endpoint!Waiting
  <2>4. Endpoint!Waiting(r) /\ Endpoint!Passed(r)'
    BY <1>1, <2>1 DEF Endpoint!Passed, Endpoint!Waiting
  <2>5. Endpoint!Counted' = Endpoint!Counted
    BY <1>2, <2>3, <2>4 DEF Endpoint!Counted
  <2>6. Endpoint!LetIn' = Endpoint!LetIn
    BY <1>2, <1>5, <2>3, <2>4, <2>5 DEF Endpoint!LetIn, Endpoint!Counted, Endpoint!Allowed
  <2>7. Endpoint!NoEternalWindow' BY <1>4, <2>1
  <2>8. /\ Endpoint!Cardinality(Endpoint!Counted') <= v6'.n + v8'
        /\ Endpoint!Cardinality(Endpoint!LetIn') <= WindowLimit + v8'
        /\ v6' \in Endpoint!Counters /\ v8' \in Nat /\ (~ v6'.there => v6'.n = 0)
    BY <2>1, <2>5, <2>6 DEF Endpoint!AdmissionInv
  <2>. QED BY <1>2, <1>3, <2>1, <2>2, <2>7, <2>8 DEF Endpoint!AdmissionInv
<1>6. CASE ~ Endpoint!Allowed(v5[r].count)
  <2>1. /\ v6' = [v6 EXCEPT !.there = TRUE, !.n = v6.n - 1]
        /\ v8' = IF v5[r].window = v7 THEN v8 ELSE v8 + 1
        /\ v3' = [v3 EXCEPT ![r] = v3[r]] /\ v4' = [v4 EXCEPT ![r] = "limited"]
    BY <1>6 DEF Endpoint!Check, Endpoint!Return
  <2>2. v6' \in Endpoint!Counters /\ v6'.there /\ v6'.n = v6.n - 1 /\ (v6'.expires <=> v6.expires)
    <3>. DEFINE n == v6.n - 1
    <3>1. v6' = CountsTo(v6, n) BY <2>1 DEF CountsTo
    <3>2. n \in Int /\ v6 \in Endpoint!Counters
      BY DEF Endpoint!AdmissionInv, Endpoint!Counters
    <3>. HIDE DEF n
    <3>3. v6' \in Endpoint!Counters /\ v6'.there /\ v6'.n = n /\ (v6'.expires <=> v6.expires)
      BY <3>1, <3>2, CounterIs
    <3>. QED BY <3>3 DEF n
  <2>3. \A q \in EndpointRequests \ {r} :
            /\ Endpoint!Passed(q)' <=> Endpoint!Passed(q)
            /\ Endpoint!Waiting(q)' <=> Endpoint!Waiting(q)
    BY <1>2, <2>1 DEF Endpoint!Passed, Endpoint!Waiting
  <2>4. /\ Endpoint!Waiting(r) /\ ~ Endpoint!Passed(r)
        /\ ~ Endpoint!Waiting(r)' /\ ~ Endpoint!Passed(r)'
    BY <1>1, <2>1 DEF Endpoint!Passed, Endpoint!Waiting
  <2>5. Endpoint!Counted' = Endpoint!Counted \ {r}
    BY <1>2, <2>3, <2>4 DEF Endpoint!Counted
  <2>6. r \in Endpoint!Counted <=> v5[r].window = v7 BY <2>4 DEF Endpoint!Counted
  <2>7. Endpoint!LetIn' = Endpoint!LetIn
    BY <1>2, <1>6, <2>3, <2>4, <2>5 DEF Endpoint!LetIn, Endpoint!Counted, Endpoint!Allowed
  <2>8. Cardinality(Endpoint!Counted') =
            IF v5[r].window = v7 THEN Cardinality(Endpoint!Counted) - 1
                                 ELSE Cardinality(Endpoint!Counted)
    BY <2>5, <2>6, CountsAreNumbers, FS_RemoveElement
  <2>9. /\ Cardinality(Endpoint!Counted) \in Nat /\ Cardinality(Endpoint!LetIn) \in Nat
        /\ Cardinality(Endpoint!Counted) <= v6.n + v8
        /\ Cardinality(Endpoint!LetIn) <= WindowLimit + v8
    BY CountsAreNumbers, EndpointCardinality DEF Endpoint!AdmissionInv
  <2>10. WindowLimit \in Nat BY GuardsAssumption
  <2>11. Cardinality(Endpoint!Counted') <= v6'.n + v8' BY <2>1, <2>2, <2>8, <2>9
  <2>12. Cardinality(Endpoint!LetIn') <= WindowLimit + v8' BY <2>1, <2>7, <2>9, <2>10
  <2>13. Endpoint!NoEternalWindow' BY <1>4, <2>1, <2>2
  <2>14. "limited" \in Endpoint!Answers /\ v8' \in Nat BY <2>1 DEF Endpoint!Answers
  <2>15. v3[r] \in 1 .. (Len(Endpoint!Steps(r)) + 1) BY DEF Endpoint!AdmissionInv
  <2>. QED BY <1>2, <1>3, <2>1, <2>2, <2>11, <2>12, <2>13, <2>14, <2>15, EndpointCardinality
           DEF Endpoint!AdmissionInv
<1>. QED BY <1>5, <1>6

LEMMA AdmissionWindowEnds ==
    ASSUME Endpoint!AdmissionInv, Endpoint!WindowEnds
    PROVE  Endpoint!AdmissionInv'
<1>1. /\ v6' = Endpoint!NoCounter /\ v7' = v7 + 1 /\ v8' = 0
      /\ UNCHANGED <<v1, v3, v4, v5, v9>>
  BY DEF Endpoint!WindowEnds
<1>2. /\ v6' \in Endpoint!Counters /\ v6'.n = 0 /\ ~ v6'.there
  BY <1>1 DEF Endpoint!NoCounter, Endpoint!Counters
<1>3. /\ v7 \in Nat /\ \A r \in EndpointRequests : v5[r] \in Endpoint!ReadThere /\ v5[r].window <= v7
  BY DEF Endpoint!AdmissionInv
<1>4. \A r \in EndpointRequests : v5'[r].window # v7' /\ v5'[r].window <= v7'
  BY <1>1, <1>3 DEF Endpoint!ReadThere
<1>5. Endpoint!Counted' = {} /\ Endpoint!LetIn' = {}
  BY <1>4 DEF Endpoint!Counted, Endpoint!LetIn
<1>6. Endpoint!Cardinality({}) = 0 /\ WindowLimit \in Nat
  BY FS_EmptySet, EndpointCardinality, GuardsAssumption
<1>7. \A q \in EndpointRequests : Endpoint!Steps(q)' = Endpoint!Steps(q)
  BY <1>1 DEF Endpoint!Steps, Endpoint!Route
<1>8. Endpoint!NoEternalWindow' BY <1>2 DEF Endpoint!NoEternalWindow
<1>. QED BY <1>1, <1>2, <1>3, <1>4, <1>5, <1>6, <1>7, <1>8 DEF Endpoint!AdmissionInv

LEMMA AdmissionKeeps ==
    ASSUME Endpoint!AdmissionInv, Endpoint!Next PROVE Endpoint!AdmissionInv'
BY AdmissionIncr, AdmissionExpire, AdmissionCheck, AdmissionBehind, AdmissionWindowEnds
DEF Endpoint!Next

LEMMA AdmissionStays ==
    ASSUME Endpoint!AdmissionInv, UNCHANGED <<v1, v2, v3, v4, v5, v6, v7, v8, v9>>
    PROVE  Endpoint!AdmissionInv'
<1>1. Endpoint!Counted' = Endpoint!Counted
  BY DEF Endpoint!Counted, Endpoint!Passed, Endpoint!Waiting
<1>2. Endpoint!LetIn' = Endpoint!LetIn BY <1>1 DEF Endpoint!LetIn, Endpoint!Passed
<1>3. \A r \in EndpointRequests : Endpoint!Steps(r)' = Endpoint!Steps(r)
  BY DEF Endpoint!Steps, Endpoint!Route
<1>4. Endpoint!NoEternalWindow' BY DEF Endpoint!AdmissionInv, Endpoint!NoEternalWindow
<1>. QED BY <1>1, <1>2, <1>3, <1>4 DEF Endpoint!AdmissionInv

LEMMA AdmissionHolds ==
    ASSUME Endpoint!AdmissionInv
    PROVE  Endpoint!AdmittedWithinLimit /\ Endpoint!NoEternalWindow
<1>. DEFINE S == {r \in EndpointRequests : /\ v5[r].window = v7 /\ v3[r] > 3
                                           /\ v4[r] # "limited"}
<1>1. S \in SUBSET Endpoint!LetIn
  BY DEF Endpoint!LetIn, Endpoint!Counted, Endpoint!Passed
<1>2. Cardinality(S) <= Cardinality(Endpoint!LetIn) /\ Cardinality(S) \in Nat
  BY <1>1, CountsAreNumbers, FS_Subset, FS_CardinalityType
<1>3. Cardinality(S) <= WindowLimit + v8
  BY <1>2, CountsAreNumbers, EndpointCardinality, GuardsAssumption DEF Endpoint!AdmissionInv
<1>. QED BY <1>3, EndpointCardinality DEF Endpoint!AdmissionInv, Endpoint!AdmittedWithinLimit

\* The steps of a request that revokes the key.
LEMMA RevokingIsAt ==
    ASSUME Endpoint!AdmissionInv, NEW r \in EndpointRequests, v1[r] = "revokeApiKey"
    PROVE  /\ Len(Endpoint!Steps(r)) = 7 /\ v3[r] \in 1 .. 8
           /\ \A step : Endpoint!At(r, step) =>
                  /\ step = "read" <=> v3[r] = 6
                  /\ step = "appendRevoked" <=> v3[r] = 7
                  /\ step \notin {"appendCreated", "list", "throw"}
                  /\ v3[r] \in 1 .. 7
<1>. DEFINE steps == Endpoint!Steps(r)
<1>1. v1[r] # "delegate" /\ v1[r] \in Endpoint!Operations BY DEF Endpoint!Operations
<1>2. /\ Len(steps) = 7 /\ steps[1] = "incr" /\ steps[2] = "expire" /\ steps[3] = "check"
      /\ steps[4] = "incr" /\ steps[5] = "expire"
      /\ steps[6] = "read" /\ steps[7] = "appendRevoked"
  BY <1>1, StepsOf
<1>3. v3[r] \in 1 .. (Len(steps) + 1) BY DEF Endpoint!AdmissionInv
<1>4. \A step : Endpoint!At(r, step) => v3[r] \in 1 .. 7 /\ steps[v3[r]] = step
  BY <1>2 DEF Endpoint!At
<1>. HIDE DEF steps
<1>5. v3[r] \in 1 .. 8 BY <1>2, <1>3
<1>6. ASSUME NEW step, Endpoint!At(r, step)
      PROVE  /\ step = "read" <=> v3[r] = 6
             /\ step = "appendRevoked" <=> v3[r] = 7
             /\ step \notin {"appendCreated", "list", "throw"}
             /\ v3[r] \in 1 .. 7
  <2>1. v3[r] \in {1, 2, 3, 4, 5, 6, 7} /\ steps[v3[r]] = step BY <1>4, <1>6
  <2>. QED BY <1>2, <2>1
<1>. QED BY <1>2, <1>5, <1>6 DEF steps

LEMMA KeyStart == ASSUME Endpoint!Init PROVE Endpoint!KeyInv
<1>1. v9 = <<[type |-> "created", version |-> 1, by |-> 0]>> /\ Len(v9) = 1
      /\ v9[1].version = 1 /\ v9[1].type = "created"
  BY DEF Endpoint!Init
<1>2. \A r \in EndpointRequests :
          /\ v3[r] = 1 /\ v4[r] = "none" /\ v5[r].began = 0 /\ v5[r].latest = 0
  BY DEF Endpoint!Init
<1>3. DOMAIN v9 = {1} BY <1>1
<1>. HIDE DEF Endpoint!Init
<1>. QED BY <1>1, <1>2, <1>3 DEF Endpoint!KeyInv, Endpoint!RevokedIsListed

\* A request that takes a step, and the log as it was.
LEMMA KeyMoves ==
    ASSUME Endpoint!AdmissionInv, Endpoint!KeyInv, NEW r \in EndpointRequests,
           NEW p, NEW a, NEW s,
           UNCHANGED <<v1, v2, v9>>, v3' = [v3 EXCEPT ![r] = p], v4' = [v4 EXCEPT ![r] = a],
           v5' = [v5 EXCEPT ![r] = s],
           s.began <= Len(v9), v2 => s.latest <= Len(v9),
           v1[r] = "revokeApiKey" =>
               /\ p = 7 /\ v2 /\ s.latest = Len(v9) => v9[Len(v9)].type = "created"
               /\ p = 8 => v3[r] = 8
               /\ a = "ok" => p = 8,
           a = "live" => \A i \in 1 .. s.began : v9[i].type # "revoked"
    PROVE  Endpoint!KeyInv'
<1>1. /\ v3 \in [EndpointRequests -> Nat] /\ v4 \in [EndpointRequests -> Endpoint!Answers]
      /\ v5 \in [EndpointRequests -> Endpoint!ReadThere]
  BY DEF Endpoint!AdmissionInv
<1>2. \A q \in EndpointRequests :
          /\ v3'[q] = IF q = r THEN p ELSE v3[q]
          /\ v4'[q] = IF q = r THEN a ELSE v4[q]
          /\ v5'[q] = IF q = r THEN s ELSE v5[q]
  BY <1>1
<1>3. Endpoint!RevokedIsListed'
  BY <1>2 DEF Endpoint!KeyInv, Endpoint!RevokedIsListed
<1>4. \A q \in EndpointRequests :
          /\ v5'[q].began <= Len(v9)
          /\ v2 => v5'[q].latest <= Len(v9)
          /\ v1[q] = "revokeApiKey" =>
                 /\ v3'[q] = 7 /\ v2 /\ v5'[q].latest = Len(v9) => v9[Len(v9)].type = "created"
                 /\ v3'[q] = 8 => \E i \in DOMAIN v9 : v9[i].type = "revoked" /\ v9[i].by = q
                 /\ v4'[q] = "ok" => v3'[q] = 8
  BY <1>2 DEF Endpoint!KeyInv
<1>. QED BY <1>3, <1>4 DEF Endpoint!KeyInv

\* The key is revoked by the step of a request.
LEMMA KeyAppends ==
    ASSUME Endpoint!AdmissionInv, Endpoint!KeyInv, NEW r \in EndpointRequests,
           v1[r] = "revokeApiKey", v3[r] = 7, v4[r] = "none",
           UNCHANGED <<v1, v2, v4, v5>>, v3' = [v3 EXCEPT ![r] = 8],
           v9' = Append(v9, [type |-> "revoked", version |-> v5[r].latest + 1, by |-> r]),
           v2 => v5[r].latest = Len(v9)
    PROVE  Endpoint!KeyInv'
<1>. DEFINE e == [type |-> "revoked", version |-> v5[r].latest + 1, by |-> r]
<1>1. /\ v3 \in [EndpointRequests -> Nat] /\ v9 \in Seq(Endpoint!KeyEvents)
      /\ v5 \in [EndpointRequests -> Endpoint!ReadThere]
  BY DEF Endpoint!AdmissionInv
<1>2. e.type = "revoked" /\ e.version = v5[r].latest + 1 /\ e.by = r OBVIOUS
<1>3. \A q \in EndpointRequests : v3'[q] = IF q = r THEN 8 ELSE v3[q] BY <1>1
<1>. v9' = Append(v9, e) OBVIOUS
<1>. HIDE DEF e
<1>4. /\ Len(v9') = Len(v9) + 1 /\ v9'[Len(v9) + 1] = e /\ Len(v9) \in Nat
      /\ \A i \in 1 .. Len(v9) : v9'[i] = v9[i]
      /\ DOMAIN v9 = 1 .. Len(v9) /\ DOMAIN v9' = 1 .. (Len(v9) + 1)
  BY <1>1
<1>5. v2 => \A i \in DOMAIN v9' :
                v9'[i].version = i /\ (v9'[i].type = "revoked" => i = Len(v9'))
  <2>. SUFFICES ASSUME v2, NEW i \in 1 .. (Len(v9) + 1)
                PROVE  v9'[i].version = i /\ (v9'[i].type = "revoked" => i = Len(v9) + 1)
    BY <1>4
  <2>1. v9[Len(v9)].type = "created" BY DEF Endpoint!KeyInv
  <2>2. CASE i = Len(v9) + 1 BY <1>2, <1>4, <2>2
  <2>3. CASE i # Len(v9) + 1
    <3>1. i \in DOMAIN v9 /\ v9'[i] = v9[i] BY <1>4, <2>3
    <3>2. v9[i].version = i /\ (v9[i].type = "revoked" => i = Len(v9))
      BY <3>1 DEF Endpoint!KeyInv
    <3>. QED BY <2>1, <3>1, <3>2
  <2>. QED BY <2>2, <2>3
<1>6. ASSUME NEW q \in EndpointRequests
      PROVE  /\ v5[q].began <= Len(v9')
             /\ v2 => v5[q].latest <= Len(v9')
             /\ v1[q] = "revokeApiKey" =>
                    /\ v3'[q] = 7 /\ v2 /\ v5[q].latest = Len(v9') =>
                           v9'[Len(v9')].type = "created"
                    /\ v3'[q] = 8 => \E i \in DOMAIN v9' : v9'[i].type = "revoked" /\ v9'[i].by = q
                    /\ v4[q] = "ok" => v3'[q] = 8
  <2>1. v5[q].began \in Nat /\ v5[q].latest \in Nat BY <1>1 DEF Endpoint!ReadThere
  <2>2. v5[q].began <= Len(v9) /\ (v2 => v5[q].latest <= Len(v9)) BY DEF Endpoint!KeyInv
  <2>3. ASSUME v1[q] = "revokeApiKey", v3'[q] = 8
        PROVE  \E i \in DOMAIN v9' : v9'[i].type = "revoked" /\ v9'[i].by = q
    <3>1. CASE q = r BY <1>2, <1>4, <3>1
    <3>2. CASE q # r
      <4>1. PICK i \in DOMAIN v9 : v9[i].type = "revoked" /\ v9[i].by = q
        BY <1>3, <2>3, <3>2 DEF Endpoint!KeyInv
      <4>2. i \in DOMAIN v9' /\ v9'[i] = v9[i] BY <1>4
      <4>. QED BY <4>1, <4>2
    <3>. QED BY <3>1, <3>2
  <2>4. v1[q] = "revokeApiKey" /\ v4[q] = "ok" => v3'[q] = 8
    BY <1>3 DEF Endpoint!KeyInv
  <2>. QED BY <1>4, <2>1, <2>2, <2>3, <2>4
<1>7. Endpoint!RevokedIsListed'
  <2>. SUFFICES ASSUME NEW q \in EndpointRequests, v4[q] = "live", NEW i \in 1 .. v5[q].began
                PROVE  v9'[i].type # "revoked"
    BY DEF Endpoint!RevokedIsListed
  <2>1. v5[q].began \in Nat /\ v5[q].began <= Len(v9)
    BY <1>1 DEF Endpoint!ReadThere, Endpoint!KeyInv
  <2>2. i \in 1 .. Len(v9) BY <1>4, <2>1
  <2>3. v9[i].type # "revoked" BY DEF Endpoint!KeyInv, Endpoint!RevokedIsListed
  <2>. QED BY <1>4, <2>2, <2>3
<1>. QED BY <1>5, <1>6, <1>7 DEF Endpoint!KeyInv

LEMMA OnlyRevokingAppends ==
    ASSUME NEW r \in EndpointRequests, v1[r] \in Endpoint!Operations,
           Endpoint!At(r, "appendRevoked")
    PROVE  v1[r] = "revokeApiKey"
<1>. SUFFICES ASSUME v1[r] # "revokeApiKey" PROVE FALSE OBVIOUS
<1>1. v3[r] \in 1 .. Len(Endpoint!Steps(r)) /\ Endpoint!Steps(r)[v3[r]] = "appendRevoked"
  BY DEF Endpoint!At
<1>2. CASE v1[r] = "delegate"
  <2>1. Endpoint!Steps(r) = <<"appendCreated">> BY <1>2, StepsOf
  <2>. QED BY <1>1, <2>1
<1>3. CASE v1[r] # "delegate"
  <2>. DEFINE steps == Endpoint!Steps(r)
  <2>1. v1[r] \notin {"delegate", "revokeApiKey"} BY <1>3
  <2>2. /\ Len(steps) \in 5 .. 7 /\ steps[1] = "incr" /\ steps[2] = "expire" /\ steps[3] = "check"
        /\ steps[4] = "incr" /\ steps[5] = "expire"
    BY <1>3, StepsOf
  <2>3. \A i \in 6 .. Len(steps) : steps[i] # "appendRevoked" BY <2>1, StepsOf
  <2>4. v3[r] \in {1, 2, 3, 4, 5} \/ v3[r] \in 6 .. Len(steps) BY <1>1, <2>2
  <2>. HIDE DEF steps
  <2>5. steps[v3[r]] = "appendRevoked" BY <1>1 DEF steps
  <2>. QED BY <2>2, <2>3, <2>4, <2>5
<1>. QED BY <1>2, <1>3

LEMMA KeyStays ==
    ASSUME Endpoint!KeyInv, UNCHANGED <<v1, v2, v3, v4, v5, v9>> PROVE Endpoint!KeyInv'
BY DEF Endpoint!KeyInv, Endpoint!RevokedIsListed

LEMMA KeyGoes ==
    ASSUME Endpoint!AdmissionInv, Endpoint!KeyInv, NEW r \in EndpointRequests, NEW s,
           Endpoint!Go(r), v5' = [v5 EXCEPT ![r] = s], UNCHANGED <<v1, v2, v9>>, v4[r] = "none",
           s.began <= Len(v9), v2 => s.latest <= Len(v9),
           v1[r] = "revokeApiKey" =>
               v3[r] \in 1 .. 5 \/ (v3[r] = 6 /\ v9[Len(v9)].type = "created")
    PROVE  Endpoint!KeyInv'
<1>. DEFINE p == v3[r] + 1
            a == v4[r]
<1>1. v4 \in [EndpointRequests -> Endpoint!Answers] BY DEF Endpoint!AdmissionInv
<1>2. v3' = [v3 EXCEPT ![r] = p] BY DEF Endpoint!Go
<1>3. v4' = [v4 EXCEPT ![r] = a] BY <1>1 DEF Endpoint!Go
<1>4. v1[r] = "revokeApiKey" =>
          /\ p = 7 => v9[Len(v9)].type = "created"
          /\ p # 8
  <2>1. ASSUME v3[r] \in 1 .. 5 PROVE p # 7 /\ p # 8 BY <2>1
  <2>2. ASSUME v3[r] = 6 PROVE p # 8 BY <2>2
  <2>. QED BY <2>1, <2>2
<1>5. a = "none" OBVIOUS
<1>. HIDE DEF p, a
<1>. QED BY <1>2, <1>3, <1>4, <1>5, KeyMoves

LEMMA KeyReturns ==
    ASSUME Endpoint!AdmissionInv, Endpoint!KeyInv, NEW r \in EndpointRequests, NEW a,
           Endpoint!Return(r, a), UNCHANGED <<v1, v2, v5, v9>>,
           v1[r] = "revokeApiKey" /\ a = "ok" => v3[r] = 8,
           a = "live" => \A i \in 1 .. v5[r].began : v9[i].type # "revoked"
    PROVE  Endpoint!KeyInv'
<1>. DEFINE p == v3[r]
            s == v5[r]
<1>1. /\ v3 \in [EndpointRequests -> Nat] /\ v5 \in [EndpointRequests -> Endpoint!ReadThere]
  BY DEF Endpoint!AdmissionInv
<1>2. v3' = [v3 EXCEPT ![r] = p] BY <1>1 DEF Endpoint!Return
<1>3. v4' = [v4 EXCEPT ![r] = a] BY DEF Endpoint!Return
<1>4. v5' = [v5 EXCEPT ![r] = s] BY <1>1
<1>5. /\ s.began <= Len(v9)
      /\ v2 => s.latest <= Len(v9)
      /\ v1[r] = "revokeApiKey" =>
             (p = 7 /\ v2 /\ s.latest = Len(v9) => v9[Len(v9)].type = "created")
  BY DEF Endpoint!KeyInv
<1>6. /\ v1[r] = "revokeApiKey" => (p = 8 => v3[r] = 8) /\ (a = "ok" => p = 8)
      /\ a = "live" => \A i \in 1 .. s.began : v9[i].type # "revoked"
  OBVIOUS
<1>. HIDE DEF p, s
<1>. QED BY <1>2, <1>3, <1>4, <1>5, <1>6, KeyMoves

LEMMA KeyKeeps ==
    ASSUME Endpoint!AdmissionInv, Endpoint!KeyInv, Endpoint!Next PROVE Endpoint!KeyInv'
<1>1. /\ v4 \in [EndpointRequests -> Endpoint!Answers]
      /\ v5 \in [EndpointRequests -> Endpoint!ReadThere]
      /\ v9 \in Seq(Endpoint!KeyEvents) /\ v9 # <<>> /\ Len(v9) \in Nat
  BY DEF Endpoint!AdmissionInv
<1>2. ASSUME Endpoint!WindowEnds PROVE Endpoint!KeyInv'
  BY <1>2, KeyStays DEF Endpoint!WindowEnds
<1>3. SUFFICES ASSUME NEW r \in EndpointRequests,
                      \/ Endpoint!Incr(r) \/ Endpoint!Expire(r) \/ Endpoint!Check(r)
                      \/ Endpoint!CreateApiKey(r) \/ Endpoint!ReadLatest(r)
                      \/ Endpoint!AppendRevoked(r) \/ Endpoint!ListApiKeys(r)
                      \/ Endpoint!FailCreateUser(r) \/ Endpoint!Answer(r) \/ Endpoint!Lose(r)
               PROVE  Endpoint!KeyInv'
  BY <1>2 DEF Endpoint!Next
<1>. DEFINE s0 == v5[r]
<1>4. v5 = [v5 EXCEPT ![r] = s0] /\ s0 \in Endpoint!ReadThere BY <1>1
<1>5. s0.began <= Len(v9) /\ (v2 => s0.latest <= Len(v9)) BY DEF Endpoint!KeyInv
<1>6. ASSUME NEW step, Endpoint!At(r, step)
      PROVE  /\ v4[r] = "none"
             /\ step = "incr" => v3[r] \in 1 .. 5
             /\ step = "expire" => v3[r] \in 1 .. 5
             /\ step = "check" => v3[r] \in 1 .. 5
             /\ v1[r] = "revokeApiKey" =>
                    /\ step = "read" => v3[r] = 6
                    /\ step = "appendRevoked" => v3[r] = 7
                    /\ step \notin {"appendCreated", "list", "throw"}
  BY <1>6, StepIsAt, RevokingIsAt
<1>. HIDE DEF s0
<1>8. CASE Endpoint!Incr(r)
  <2>. DEFINE count == v6.n + 1
              window == IF v3[r] = 1 THEN v7 ELSE v5[r].window
              began == IF v3[r] = 1 THEN Len(v9) ELSE v5[r].began
              s == [s0 EXCEPT !.count = count, !.window = window, !.began = began]
  <2>1. Endpoint!At(r, "incr") /\ UNCHANGED <<v1, v2, v9>> /\ Endpoint!Go(r)
    BY <1>8 DEF Endpoint!Incr
  <2>2. v5' = [v5 EXCEPT ![r] = s] BY <1>1, <1>8 DEF Endpoint!Incr, s0
  <2>3. s0 = [count |-> s0.count, window |-> s0.window, latest |-> s0.latest,
              began |-> s0.began]
    BY <1>4 DEF Endpoint!ReadThere
  <2>4. began <= Len(v9) BY <1>1, <1>5 DEF s0
  <2>5. s = [s0 EXCEPT !.count = count, !.window = window, !.began = began] OBVIOUS
  <2>. HIDE DEF count, window, began, s
  <2>6. s = [count |-> count, window |-> window, latest |-> s0.latest, began |-> began]
    BY <2>3, <2>5
  <2>7. s.began <= Len(v9) /\ (v2 => s.latest <= Len(v9)) BY <1>5, <2>4, <2>6
  <2>8. v4[r] = "none" /\ v3[r] \in 1 .. 5 BY <1>6, <2>1
  <2>. QED BY <2>1, <2>2, <2>7, <2>8, KeyGoes
<1>9. ASSUME NEW step \in {"expire", "check", "appendCreated"}, Endpoint!At(r, step),
             Endpoint!Go(r), UNCHANGED <<v1, v2, v5, v9>>
      PROVE  Endpoint!KeyInv'
  <2>1. v5' = [v5 EXCEPT ![r] = s0] BY <1>4, <1>9
  <2>2. v4[r] = "none" /\ (v1[r] = "revokeApiKey" => v3[r] \in 1 .. 5) BY <1>6, <1>9
  <2>. QED BY <1>5, <1>9, <2>1, <2>2, KeyGoes
<1>10. ASSUME NEW a \in {"limited", "error", "notfound", "lost"}, Endpoint!Return(r, a),
              UNCHANGED <<v1, v2, v5, v9>>
       PROVE  Endpoint!KeyInv'
  BY <1>10, KeyReturns
<1>11. CASE Endpoint!Expire(r) BY <1>9, <1>11 DEF Endpoint!Expire
<1>12. CASE Endpoint!Check(r) BY <1>9, <1>10, <1>12 DEF Endpoint!Check
<1>13. CASE Endpoint!CreateApiKey(r) BY <1>9, <1>13 DEF Endpoint!CreateApiKey
<1>14. CASE Endpoint!ListApiKeys(r)
  <2>. DEFINE a == Endpoint!Listed
  <2>1. Endpoint!Return(r, a) /\ UNCHANGED <<v1, v2, v5, v9>>
    BY <1>14 DEF Endpoint!ListApiKeys
  <2>2. \/ a = "revoked"
        \/ a = "live" /\ \A i \in DOMAIN v9 : v9[i].type # "revoked"
    BY DEF Endpoint!Listed
  <2>3. v5[r].began \in Nat /\ v5[r].began <= Len(v9)
    BY <1>4, <1>5 DEF Endpoint!ReadThere, s0
  <2>4. \A i \in 1 .. v5[r].began : i \in DOMAIN v9 BY <1>1, <2>3
  <2>. HIDE DEF a
  <2>5. a = "live" => \A i \in 1 .. v5[r].began : v9[i].type # "revoked" BY <2>2, <2>4
  <2>6. a # "ok" BY <2>2
  <2>. QED BY <2>1, <2>5, <2>6, KeyReturns
<1>15. CASE Endpoint!FailCreateUser(r) BY <1>10, <1>15 DEF Endpoint!FailCreateUser
<1>16. CASE Endpoint!Answer(r)
  <2>. DEFINE a == "ok"
              n == Len(Endpoint!Steps(r))
  <2>1. Endpoint!Return(r, a) /\ UNCHANGED <<v1, v2, v5, v9>> /\ v3[r] > n
    BY <1>16 DEF Endpoint!Answer
  <2>2. ASSUME v1[r] = "revokeApiKey" PROVE v3[r] = 8
    <3>1. n = 7 /\ v3[r] \in 1 .. 8 BY <2>2, RevokingIsAt
    <3>. HIDE DEF n
    <3>. QED BY <2>1, <3>1
  <2>3. a # "live" OBVIOUS
  <2>. HIDE DEF a
  <2>. QED BY <2>1, <2>2, <2>3, KeyReturns
<1>17. CASE Endpoint!Lose(r) BY <1>10, <1>17 DEF Endpoint!Lose
<1>18. CASE Endpoint!ReadLatest(r)
  <2>1. Endpoint!At(r, "read") /\ UNCHANGED <<v1, v2, v9>> BY <1>18 DEF Endpoint!ReadLatest
  <2>2. CASE Endpoint!Return(r, "notfound") /\ v5' = v5 BY <1>10, <2>1, <2>2
  <2>3. CASE Endpoint!Go(r) /\ Endpoint!Last(v9).type = "created"
             /\ v5' = [v5 EXCEPT ![r].latest = Endpoint!Last(v9).version]
    <3>. DEFINE version == v9[Len(v9)].version
                s == [s0 EXCEPT !.latest = version]
    <3>1. Endpoint!Last(v9) = v9[Len(v9)] BY DEF Endpoint!Last
    <3>2. v5' = [v5 EXCEPT ![r] = s] BY <2>3, <3>1 DEF s0
    <3>3. s.began = s0.began /\ s.latest = version BY <1>4 DEF Endpoint!ReadThere
    <3>4. v2 => version = Len(v9) BY <1>1 DEF Endpoint!KeyInv
    <3>. HIDE DEF s, version
    <3>5. s.began <= Len(v9) /\ (v2 => s.latest <= Len(v9)) BY <1>1, <1>5, <3>3, <3>4
    <3>6. /\ v4[r] = "none" /\ v9[Len(v9)].type = "created"
          /\ v1[r] = "revokeApiKey" => v3[r] = 6
      BY <1>6, <2>1, <2>3, <3>1
    <3>. QED BY <2>1, <2>3, <3>2, <3>5, <3>6, KeyGoes
  <2>. QED BY <1>18, <2>2, <2>3 DEF Endpoint!ReadLatest
<1>19. CASE Endpoint!AppendRevoked(r)
  <2>1. Endpoint!At(r, "appendRevoked") /\ UNCHANGED <<v1, v2, v5>>
    BY <1>19 DEF Endpoint!AppendRevoked
  <2>2. CASE Endpoint!Return(r, "error") /\ v9' = v9 BY <1>10, <2>1, <2>2
  <2>3. CASE /\ Endpoint!Go(r) /\ (v2 => v5[r].latest + 1 = Len(v9) + 1)
             /\ v9' = Append(v9, [type |-> "revoked", version |-> v5[r].latest + 1, by |-> r])
    <3>1. v1[r] = "revokeApiKey"
      <4>1. v1[r] \in Endpoint!Operations BY DEF Endpoint!AdmissionInv
      <4>. QED BY <2>1, <4>1, OnlyRevokingAppends
    <3>2. v3[r] = 7 /\ v4[r] = "none" BY <1>6, <2>1, <3>1
    <3>3. v2 => v5[r].latest = Len(v9)
      <4>1. v5[r].latest \in Nat BY <1>4 DEF Endpoint!ReadThere, s0
      <4>. QED BY <1>1, <2>3, <4>1
    <3>4. v3' = [v3 EXCEPT ![r] = 8] /\ v4' = v4 BY <2>3, <3>2 DEF Endpoint!Go
    <3>. QED BY <2>1, <2>3, <3>1, <3>2, <3>3, <3>4, KeyAppends
  <2>. QED BY <1>19, <2>2, <2>3 DEF Endpoint!AppendRevoked, Endpoint!AppendKeyEvent
<1>. QED BY <1>3, <1>8, <1>11, <1>12, <1>13, <1>14, <1>15, <1>16, <1>17, <1>18, <1>19

LEMMA RevokedHolds ==
    ASSUME Endpoint!AdmissionInv, Endpoint!KeyInv
    PROVE  Endpoint!RevokedOnce /\ Endpoint!RevokedIsListed
<1>1. ASSUME NEW r \in EndpointRequests, v1[r] = "revokeApiKey", v4[r] = "ok"
      PROVE  \E i \in DOMAIN v9 : v9[i].type = "revoked" /\ v9[i].by = r
  BY <1>1 DEF Endpoint!KeyInv
<1>2. ASSUME v2 PROVE Endpoint!Cardinality({i \in DOMAIN v9 : v9[i].type = "revoked"}) <= 1
  <2>1. {i \in DOMAIN v9 : v9[i].type = "revoked"} \in SUBSET {Len(v9)}
    BY <1>2 DEF Endpoint!KeyInv
  <2>2. IsFiniteSet({Len(v9)}) /\ Cardinality({Len(v9)}) = 1 BY FS_Singleton
  <2>. QED BY <2>1, <2>2, FS_Subset, EndpointCardinality
<1>. QED BY <1>1, <1>2 DEF Endpoint!KeyInv, Endpoint!RevokedOnce

-----------------------------------------------------------------------------
(***************************************************************************)
(* The counters of the rate limiter.                                       *)
(***************************************************************************)
LEMMA LimitingCardinality == \A S : Limiting!Cardinality(S) = Cardinality(S)
BY DEF Limiting!Cardinality, Cardinality

\* The limit that applies is one that there is, is enabled and is meant for
\* the scope.
LEMMA AppliesToScope ==
    ASSUME NEW s, Limiting!Applicable(s) # 0
    PROVE  LET i == Limiting!Applicable(s) IN
           /\ i \in DOMAIN LimitList
           /\ Limiting!MatchesScope(LimitList[i].scope, s)
           /\ LimitList[i].limit \in Nat
<1>. DEFINE these == {i \in DOMAIN LimitList :
                          LimitList[i].enabled /\ Limiting!MatchesScope(LimitList[i].scope, s)}
<1>1. these # {} /\ Limiting!Applicable(s) = Limiting!Min(these)
  BY DEF Limiting!Applicable
<1>2. DOMAIN LimitList \subseteq Nat /\ \A i \in DOMAIN LimitList : LimitList[i].limit \in Nat
  <2>. DEFINE S == [scope : [type : STRING, id : STRING], limit : Nat, enabled : BOOLEAN]
  <2>1. LimitList \in Seq(S) BY GuardsAssumption
  <2>2. \A l \in S : l.limit \in Nat OBVIOUS
  <2>. HIDE DEF S
  <2>3. DOMAIN LimitList = 1 .. Len(LimitList) /\ \A i \in DOMAIN LimitList : LimitList[i] \in S
    BY <2>1
  <2>. QED BY <2>2, <2>3
<1>3. PICK n \in these : \A m \in these : n <= m BY <1>1, <1>2, LeastNumber
<1>4. Limiting!Min(these) \in these BY <1>3 DEF Limiting!Min
<1>. QED BY <1>1, <1>2, <1>4

LEMMA KeyIsThere ==
    ASSUME NEW s \in Scopes, Limiting!Applicable(s) # 0
    PROVE  Limiting!Key(s) \in Limiting!Keys
BY DEF Limiting!Keys

LEMMA KeysHaveLimits ==
    ASSUME NEW k \in Limiting!Keys PROVE LimitList[k[1]].limit \in Nat
<1>1. PICK s \in Scopes : Limiting!Applicable(s) # 0 /\ k = Limiting!Key(s)
  BY DEF Limiting!Keys
<1>2. k[1] = Limiting!Applicable(s) BY <1>1 DEF Limiting!Key
<1>. QED BY <1>1, <1>2, AppliesToScope

\* A limit of one realm, entity or intent is applied to its own requests.
LEMMA LimitedAsMeant == Limiting!LimitedIsMeant
<1>. SUFFICES ASSUME NEW c \in LimitCalls, Limiting!Applicable(v1[c].scope) # 0,
                     LimitList[Limiting!Applicable(v1[c].scope)].scope.type # "Global",
                     LimitList[Limiting!Applicable(v1[c].scope)].scope.id # ""
              PROVE  Limiting!GetActorId(v1[c].scope) =
                         LimitList[Limiting!Applicable(v1[c].scope)].scope.id
  BY DEF Limiting!LimitedIsMeant
<1>1. Limiting!MatchesScope(LimitList[Limiting!Applicable(v1[c].scope)].scope, v1[c].scope)
  BY AppliesToScope
<1>. QED BY <1>1 DEF Limiting!MatchesScope, Limiting!GetActorId

LEMMA ToGiveBackIsFinite ==
    ASSUME NEW k
    PROVE  /\ IsFiniteSet(Limiting!ToGiveBack(k))
           /\ Limiting!Cardinality(Limiting!ToGiveBack(k)) \in Nat
<1>1. Limiting!ToGiveBack(k) \in SUBSET LimitCalls BY DEF Limiting!ToGiveBack
<1>2. IsFiniteSet(Limiting!ToGiveBack(k)) BY <1>1, FS_Subset, GuardsAssumption
<1>. QED BY <1>2, FS_CardinalityType, LimitingCardinality

LEMMA RateStart == ASSUME Limiting!RateInit PROVE Limiting!RateInv
<1>1. \A k \in Limiting!Keys : Limiting!ToGiveBack(k) = {}
  BY DEF Limiting!RateInit, Limiting!ToGiveBack
<1>2. Limiting!Cardinality({}) = 0 BY FS_EmptySet, LimitingCardinality
<1>3. Limiting!ActorWithinLimit
  BY KeysHaveLimits DEF Limiting!RateInit, Limiting!ActorWithinLimit
<1>4. v1 \in [LimitCalls -> Limiting!CallsThere]
  BY DEF Limiting!RateInit, Limiting!CallsThere
<1>. QED BY <1>1, <1>2, <1>3, <1>4 DEF Limiting!RateInit, Limiting!RateInv

\* A call that was not counted and is not to be given back now.
LEMMA RateMoves ==
    ASSUME Limiting!RateInv, NEW c \in LimitCalls, NEW k, k \in Limiting!CallsThere,
           v1' = [v1 EXCEPT ![c] = k], v3' = v3, v1[c].pc # "counted", k.pc # "counted"
    PROVE  /\ v1' \in [LimitCalls -> Limiting!CallsThere]
           /\ \A d \in LimitCalls : v1'[d].pc = "counted" =>
                  /\ v1'[d] \in Limiting!CountedCalls
                  /\ v1'[d].drops <= v3'[Limiting!Key(v1'[d].scope)]
           /\ \A key : Limiting!ToGiveBack(key)' = Limiting!ToGiveBack(key)
<1>1. v1 \in [LimitCalls -> Limiting!CallsThere] BY DEF Limiting!RateInv
<1>2. \A d \in LimitCalls : v1'[d] = IF d = c THEN k ELSE v1[d] BY <1>1
<1>3. v1' \in [LimitCalls -> Limiting!CallsThere] BY <1>1
<1>4. \A d \in LimitCalls : v1'[d].pc = "counted" => d # c /\ v1'[d] = v1[d] BY <1>2
<1>5. \A key : Limiting!ToGiveBack(key)' = Limiting!ToGiveBack(key)
  BY <1>2 DEF Limiting!ToGiveBack
<1>. QED BY <1>3, <1>4, <1>5 DEF Limiting!RateInv

\* What the invariant says of numbers, when it is kept key by key.
LEMMA RateKept ==
    ASSUME Limiting!RateInv,
           v1' \in [LimitCalls -> Limiting!CallsThere],
           \A d \in LimitCalls : v1'[d].pc = "counted" =>
                  /\ v1'[d] \in Limiting!CountedCalls
                  /\ v1'[d].drops <= v3'[Limiting!Key(v1'[d].scope)],
           v2' \in [Limiting!Keys -> Int], v3' \in [Limiting!Keys -> Nat],
           v4' \in [Limiting!Keys -> Nat], v5' \in [Limiting!Keys -> Nat],
           \A k \in Limiting!Keys :
               /\ v4'[k] + Limiting!Cardinality(Limiting!ToGiveBack(k)') <= v2'[k] + v5'[k]
               /\ v4'[k] <= LimitList[k[1]].limit + v5'[k]
    PROVE  Limiting!RateInv'
BY DEF Limiting!RateInv, Limiting!ActorWithinLimit

LEMMA RateUnlimited ==
    ASSUME Limiting!RateInv, NEW c \in LimitCalls, Limiting!Unlimited(c)
    PROVE  Limiting!RateInv'
<1>1. PICK s \in Scopes :
          /\ v1[c].pc = "idle" /\ UNCHANGED <<v2, v3, v4, v5>>
          /\ v1' = [v1 EXCEPT ![c] = [scope |-> s, pc |-> "done", allowed |-> TRUE]]
  BY DEF Limiting!Unlimited
<1>2. [scope |-> s, pc |-> "done", allowed |-> TRUE] \in Limiting!CallsThere
  BY DEF Limiting!CallsThere
<1>. DEFINE k == [scope |-> s, pc |-> "done", allowed |-> TRUE]
<1>3. k.pc = "done" OBVIOUS
<1>. HIDE DEF k
<1>4. /\ v1' \in [LimitCalls -> Limiting!CallsThere]
      /\ \A d \in LimitCalls : v1'[d].pc = "counted" =>
             /\ v1'[d] \in Limiting!CountedCalls
             /\ v1'[d].drops <= v3'[Limiting!Key(v1'[d].scope)]
      /\ \A key : Limiting!ToGiveBack(key)' = Limiting!ToGiveBack(key)
  BY <1>1, <1>2, <1>3, RateMoves DEF k
<1>. QED BY <1>1, <1>4, RateKept DEF Limiting!RateInv, Limiting!ActorWithinLimit

LEMMA RateRecord ==
    ASSUME Limiting!RateInv, NEW c \in LimitCalls, Limiting!Record(c)
    PROVE  Limiting!RateInv'
<1>1. PICK s \in Scopes :
          /\ v1[c].pc = "idle" /\ UNCHANGED <<v3, v4, v5>> /\ Limiting!Applicable(s) # 0
          /\ v1' = [v1 EXCEPT ![c] = [scope |-> s, pc |-> "done", allowed |-> TRUE]]
          /\ v2' = [v2 EXCEPT ![Limiting!Key(s)] = @ + 1]
  BY DEF Limiting!Record
<1>. DEFINE k == [scope |-> s, pc |-> "done", allowed |-> TRUE]
<1>2. k \in Limiting!CallsThere BY DEF Limiting!CallsThere
<1>3. k.pc = "done" OBVIOUS
<1>. HIDE DEF k
<1>4. /\ v1' \in [LimitCalls -> Limiting!CallsThere]
      /\ \A d \in LimitCalls : v1'[d].pc = "counted" =>
             /\ v1'[d] \in Limiting!CountedCalls
             /\ v1'[d].drops <= v3'[Limiting!Key(v1'[d].scope)]
      /\ \A key : Limiting!ToGiveBack(key)' = Limiting!ToGiveBack(key)
  BY <1>1, <1>2, <1>3, RateMoves DEF k
<1>5. v2 \in [Limiting!Keys -> Int] BY DEF Limiting!RateInv
<1>. DEFINE here == Limiting!Key(s)
<1>a. v2' = [v2 EXCEPT ![here] = v2[here] + 1] /\ here \in Limiting!Keys BY <1>1, KeyIsThere
<1>. HIDE DEF here
<1>b. v2[here] \in Int BY <1>5, <1>a
<1>c. \A key \in Limiting!Keys : v2'[key] = IF key = here THEN v2[here] + 1 ELSE v2[key]
  BY <1>5, <1>a
<1>d. v2[here] + 1 \in Int BY <1>b
<1>6. v2' \in [Limiting!Keys -> Int] /\ \A key \in Limiting!Keys : v2'[key] >= v2[key]
  <2>1. v2' \in [Limiting!Keys -> Int] BY <1>5, <1>a, <1>d
  <2>2. ASSUME NEW key \in Limiting!Keys PROVE v2'[key] >= v2[key]
    <3>1. v2[key] \in Int BY <1>5
    <3>. QED BY <1>b, <1>c, <3>1
  <2>. QED BY <2>1, <2>2
<1>7. \A key \in Limiting!Keys :
          /\ v4[key] + Limiting!Cardinality(Limiting!ToGiveBack(key)) <= v2[key] + v5[key]
          /\ v4[key] \in Nat /\ v5[key] \in Nat /\ v2[key] \in Int /\ v2'[key] \in Int
          /\ Limiting!Cardinality(Limiting!ToGiveBack(key)) \in Nat
          /\ v4[key] <= LimitList[key[1]].limit + v5[key]
  BY <1>6, ToGiveBackIsFinite DEF Limiting!RateInv, Limiting!ActorWithinLimit
<1>8. \A key \in Limiting!Keys :
          /\ v4'[key] + Limiting!Cardinality(Limiting!ToGiveBack(key)') <= v2'[key] + v5'[key]
          /\ v4'[key] <= LimitList[key[1]].limit + v5'[key]
  BY <1>1, <1>4, <1>6, <1>7
<1>9. /\ v3' \in [Limiting!Keys -> Nat] /\ v4' \in [Limiting!Keys -> Nat]
      /\ v5' \in [Limiting!Keys -> Nat]
  BY <1>1 DEF Limiting!RateInv
<1>. QED BY <1>4, <1>6, <1>8, <1>9, RateKept

\* A request that is admitted has read a count within the limit; one that is
\* not is one more to be given back.
LEMMA RateCheck ==
    ASSUME Limiting!RateInv, NEW c \in LimitCalls, Limiting!Check(c)
    PROVE  Limiting!RateInv'
<1>. DEFINE K(s) == Limiting!Key(s)
            A(s) == Limiting!Allowed(v2[K(s)] + 1, LimitList[K(s)[1]])
            Call(s) == [scope |-> s, allowed |-> A(s), drops |-> v3[K(s)],
                        pc |-> IF A(s) THEN "done" ELSE "counted"]
<1>1. PICK s \in Scopes :
          /\ v1[c].pc = "idle" /\ UNCHANGED <<v3, v5>> /\ Limiting!Applicable(s) # 0
          /\ v1' = [v1 EXCEPT ![c] = Call(s)]
          /\ v2' = [v2 EXCEPT ![K(s)] = v2[K(s)] + 1]
          /\ v4' = IF A(s) THEN [v4 EXCEPT ![K(s)] = v4[K(s)] + 1] ELSE v4
  BY DEF Limiting!Check
<1>. DEFINE key == K(s)
            allowed == A(s)
            k == Call(s)
<1>2. key \in Limiting!Keys BY <1>1, KeyIsThere
<1>3. allowed <=> v2[key] + 1 <= LimitList[key[1]].limit BY DEF Limiting!Allowed
<1>4. allowed \in BOOLEAN BY DEF Limiting!Allowed
<1>5. /\ v1 \in [LimitCalls -> Limiting!CallsThere] /\ v2 \in [Limiting!Keys -> Int]
      /\ v3 \in [Limiting!Keys -> Nat] /\ v4 \in [Limiting!Keys -> Nat]
      /\ v5 \in [Limiting!Keys -> Nat]
  BY DEF Limiting!RateInv
<1>6. k \in Limiting!CountedCalls /\ k.scope = s /\ k.drops = v3[key]
      /\ k.pc = IF allowed THEN "done" ELSE "counted"
  <2>1. k = [scope |-> s, allowed |-> allowed, drops |-> v3[key],
             pc |-> IF allowed THEN "done" ELSE "counted"]
    OBVIOUS
  <2>2. v3[key] \in Nat BY <1>2, <1>5
  <2>. HIDE DEF k, allowed, key
  <2>. QED BY <1>1, <1>4, <2>1, <2>2 DEF Limiting!CountedCalls
<1>7. /\ v1' = [v1 EXCEPT ![c] = k] /\ v2' = [v2 EXCEPT ![key] = v2[key] + 1]
      /\ v4' = IF allowed THEN [v4 EXCEPT ![key] = v4[key] + 1] ELSE v4
  BY <1>1
<1>. HIDE DEF k, allowed
<1>8. k \in Limiting!CallsThere BY <1>6 DEF Limiting!CallsThere
<1>9. v1' \in [LimitCalls -> Limiting!CallsThere]
      /\ \A d \in LimitCalls : v1'[d] = IF d = c THEN k ELSE v1[d]
  BY <1>5, <1>7, <1>8
<1>10. ASSUME NEW d \in LimitCalls, v1'[d].pc = "counted"
       PROVE  /\ v1'[d] \in Limiting!CountedCalls
              /\ v1'[d].drops <= v3'[Limiting!Key(v1'[d].scope)]
  <2>1. CASE d = c
    <3>1. v1'[d] = k BY <1>9, <2>1
    <3>2. v3[key] \in Nat BY <1>2, <1>5
    <3>. QED BY <1>1, <1>6, <3>1, <3>2
  <2>2. CASE d # c BY <1>1, <1>9, <1>10, <2>2 DEF Limiting!RateInv
  <2>. QED BY <2>1, <2>2
<1>11. \A d \in LimitCalls : d \in Limiting!ToGiveBack(key)' <=>
           d \in Limiting!ToGiveBack(key) \/ (d = c /\ ~ allowed)
  BY <1>1, <1>6, <1>9 DEF Limiting!ToGiveBack
<1>12. c \notin Limiting!ToGiveBack(key) BY <1>1 DEF Limiting!ToGiveBack
<1>13. Limiting!ToGiveBack(key)' =
           IF allowed THEN Limiting!ToGiveBack(key) ELSE Limiting!ToGiveBack(key) \cup {c}
  <2>1. /\ Limiting!ToGiveBack(key)' \subseteq LimitCalls
        /\ Limiting!ToGiveBack(key) \subseteq LimitCalls
    BY DEF Limiting!ToGiveBack
  <2>. QED BY <1>11, <2>1
<1>14. \A l \in Limiting!Keys \ {key} : Limiting!ToGiveBack(l)' = Limiting!ToGiveBack(l)
  BY <1>1, <1>6, <1>9 DEF Limiting!ToGiveBack
<1>15. Limiting!Cardinality(Limiting!ToGiveBack(key)') =
           IF allowed THEN Limiting!Cardinality(Limiting!ToGiveBack(key))
                      ELSE Limiting!Cardinality(Limiting!ToGiveBack(key)) + 1
  BY <1>12, <1>13, ToGiveBackIsFinite, FS_AddElement, LimitingCardinality
<1>16. \A l \in Limiting!Keys :
          /\ v4[l] + Limiting!Cardinality(Limiting!ToGiveBack(l)) <= v2[l] + v5[l]
          /\ v4[l] \in Nat /\ v5[l] \in Nat /\ v2[l] \in Int
          /\ Limiting!Cardinality(Limiting!ToGiveBack(l)) \in Nat
          /\ v4[l] <= LimitList[l[1]].limit + v5[l] /\ LimitList[l[1]].limit \in Nat
  BY <1>5, ToGiveBackIsFinite, KeysHaveLimits DEF Limiting!RateInv, Limiting!ActorWithinLimit
<1>17. /\ v2' \in [Limiting!Keys -> Int] /\ v3' \in [Limiting!Keys -> Nat]
       /\ v4' \in [Limiting!Keys -> Nat] /\ v5' \in [Limiting!Keys -> Nat]
  <2>1. v2[key] + 1 \in Int /\ v4[key] + 1 \in Nat BY <1>2, <1>5
  <2>. QED BY <1>1, <1>5, <1>7, <2>1
<1>18. v2'[key] = v2[key] + 1 /\ v4'[key] = IF allowed THEN v4[key] + 1 ELSE v4[key]
  BY <1>2, <1>5, <1>7
<1>. HIDE DEF key
<1>19. \A l \in Limiting!Keys :
           /\ v4'[l] + Limiting!Cardinality(Limiting!ToGiveBack(l)') <= v2'[l] + v5'[l]
           /\ v4'[l] <= LimitList[l[1]].limit + v5'[l]
  <2>1. /\ v4'[key] + Limiting!Cardinality(Limiting!ToGiveBack(key)') <= v2'[key] + v5'[key]
        /\ v4'[key] <= LimitList[key[1]].limit + v5'[key]
    <3>1. CASE allowed BY <1>1, <1>2, <1>3, <1>15, <1>16, <1>18, <3>1
    <3>2. CASE ~ allowed BY <1>1, <1>2, <1>15, <1>16, <1>18, <3>2
    <3>. QED BY <3>1, <3>2
  <2>2. \A l \in Limiting!Keys \ {key} : v4'[l] = v4[l] /\ v2'[l] = v2[l] /\ v5'[l] = v5[l]
    BY <1>1, <1>5, <1>7
  <2>. QED BY <1>14, <1>16, <2>1, <2>2
<1>. QED BY <1>9, <1>10, <1>17, <1>19, RateKept

\* A count is given back to the counter it was made in, or to a later one.
LEMMA RateGiveBack ==
    ASSUME Limiting!RateInv, NEW c \in LimitCalls, Limiting!GiveBack(c)
    PROVE  Limiting!RateInv'
<1>. DEFINE k == [v1[c] EXCEPT !.pc = "done"]
<1>e. v1[c].pc = "counted" BY DEF Limiting!GiveBack
<1>f. v1[c] \in Limiting!CountedCalls BY <1>e DEF Limiting!RateInv
<1>3. PICK key \in Limiting!Keys : key = Limiting!Key(v1[c].scope)
  BY <1>f, KeyIsThere DEF Limiting!CountedCalls
<1>1. /\ v1[c].pc = "counted" /\ UNCHANGED <<v3, v4>>
      /\ v2' = [v2 EXCEPT ![key] = v2[key] - 1]
      /\ v5' = IF v1[c].drops = v3[key] THEN v5 ELSE [v5 EXCEPT ![key] = v5[key] + 1]
      /\ v1' = [v1 EXCEPT ![c] = k]
  BY <1>3 DEF Limiting!GiveBack
<1>2. /\ v1 \in [LimitCalls -> Limiting!CallsThere] /\ v2 \in [Limiting!Keys -> Int]
      /\ v3 \in [Limiting!Keys -> Nat] /\ v4 \in [Limiting!Keys -> Nat]
      /\ v5 \in [Limiting!Keys -> Nat]
      /\ v1[c] \in Limiting!CountedCalls /\ v1[c].drops <= v3[key]
  BY <1>1, <1>3 DEF Limiting!RateInv
<1>4. k \in Limiting!CountedCalls /\ k.pc = "done" BY <1>2 DEF Limiting!CountedCalls
<1>. HIDE DEF k
<1>5. /\ v1' \in [LimitCalls -> Limiting!CallsThere]
      /\ \A d \in LimitCalls : v1'[d] = IF d = c THEN k ELSE v1[d]
  BY <1>1, <1>2, <1>4 DEF Limiting!CallsThere
<1>6. \A d \in LimitCalls : v1'[d].pc = "counted" =>
          /\ v1'[d] \in Limiting!CountedCalls
          /\ v1'[d].drops <= v3'[Limiting!Key(v1'[d].scope)]
  BY <1>1, <1>4, <1>5 DEF Limiting!RateInv
<1>a. v1'[c].pc # "counted" /\ \A d \in LimitCalls \ {c} : v1'[d] = v1[d] BY <1>4, <1>5
<1>b. \A l \in Limiting!Keys : Limiting!ToGiveBack(l)' = Limiting!ToGiveBack(l) \ {c}
  BY <1>1, <1>a DEF Limiting!ToGiveBack
<1>c. \A l \in Limiting!Keys :
          c \in Limiting!ToGiveBack(l) <=> l = key /\ v1[c].drops = v3[key]
  BY <1>1, <1>3 DEF Limiting!ToGiveBack
<1>7. /\ Limiting!ToGiveBack(key)' = Limiting!ToGiveBack(key) \ {c}
      /\ c \in Limiting!ToGiveBack(key) <=> v1[c].drops = v3[key]
      /\ \A l \in Limiting!Keys \ {key} : Limiting!ToGiveBack(l)' = Limiting!ToGiveBack(l)
  <2>1. ASSUME NEW l \in Limiting!Keys \ {key}
        PROVE  Limiting!ToGiveBack(l)' = Limiting!ToGiveBack(l)
    <3>1. l \in Limiting!Keys /\ l # key OBVIOUS
    <3>2. c \notin Limiting!ToGiveBack(l) BY <1>c, <3>1, Zenon
    <3>3. Limiting!ToGiveBack(l)' = Limiting!ToGiveBack(l) \ {c} BY <1>b, <3>1, Zenon
    <3>4. Limiting!ToGiveBack(l) \ {c} = Limiting!ToGiveBack(l) BY <3>2
    <3>. QED BY <3>3, <3>4, Zenon
  <2>2. Limiting!ToGiveBack(key)' = Limiting!ToGiveBack(key) \ {c} BY <1>3, <1>b, Zenon
  <2>3. c \in Limiting!ToGiveBack(key) <=> v1[c].drops = v3[key] BY <1>3, <1>c, Zenon
  <2>. QED BY <2>1, <2>2, <2>3, Zenon
<1>8. Limiting!Cardinality(Limiting!ToGiveBack(key)') =
           IF v1[c].drops = v3[key] THEN Limiting!Cardinality(Limiting!ToGiveBack(key)) - 1
                                    ELSE Limiting!Cardinality(Limiting!ToGiveBack(key))
  BY <1>7, ToGiveBackIsFinite, FS_RemoveElement, LimitingCardinality
<1>9. \A l \in Limiting!Keys :
          /\ v4[l] + Limiting!Cardinality(Limiting!ToGiveBack(l)) <= v2[l] + v5[l]
          /\ v4[l] \in Nat /\ v5[l] \in Nat /\ v2[l] \in Int
          /\ Limiting!Cardinality(Limiting!ToGiveBack(l)) \in Nat
          /\ v4[l] <= LimitList[l[1]].limit + v5[l] /\ LimitList[l[1]].limit \in Nat
  BY <1>2, ToGiveBackIsFinite, KeysHaveLimits DEF Limiting!RateInv, Limiting!ActorWithinLimit
<1>10. /\ v2' \in [Limiting!Keys -> Int] /\ v5' \in [Limiting!Keys -> Nat]
       /\ v2'[key] = v2[key] - 1
       /\ v5'[key] = IF v1[c].drops = v3[key] THEN v5[key] ELSE v5[key] + 1
       /\ \A l \in Limiting!Keys \ {key} : v2'[l] = v2[l] /\ v5'[l] = v5[l]
  <2>1. v2[key] - 1 \in Int /\ v5[key] + 1 \in Nat BY <1>2, <1>3
  <2>. QED BY <1>1, <1>2, <1>3, <2>1
<1>d. v4' = v4 BY <1>1
<1>11. /\ v4'[key] + Limiting!Cardinality(Limiting!ToGiveBack(key)') <= v2'[key] + v5'[key]
       /\ v4'[key] <= LimitList[key[1]].limit + v5'[key]
  BY <1>d, <1>3, <1>8, <1>9, <1>10
<1>12. \A l \in Limiting!Keys :
           /\ v4'[l] + Limiting!Cardinality(Limiting!ToGiveBack(l)') <= v2'[l] + v5'[l]
           /\ v4'[l] <= LimitList[l[1]].limit + v5'[l]
  <2>1. ASSUME NEW l \in Limiting!Keys \ {key}
        PROVE  /\ v4'[l] + Limiting!Cardinality(Limiting!ToGiveBack(l)') <= v2'[l] + v5'[l]
               /\ v4'[l] <= LimitList[l[1]].limit + v5'[l]
    <3>1. /\ Limiting!ToGiveBack(l)' = Limiting!ToGiveBack(l)
          /\ v2'[l] = v2[l] /\ v5'[l] = v5[l] /\ v4'[l] = v4[l]
      BY <1>d, <1>7, <1>10
    <3>2. /\ v4[l] + Limiting!Cardinality(Limiting!ToGiveBack(l)) <= v2[l] + v5[l]
          /\ v4[l] <= LimitList[l[1]].limit + v5[l]
      BY <1>9, Zenon
    <3>3. /\ v4'[l] + Limiting!Cardinality(Limiting!ToGiveBack(l)') <= v2[l] + v5[l]
          /\ v4'[l] <= LimitList[l[1]].limit + v5[l]
      BY <3>1, <3>2, Zenon
    <3>. QED BY <3>1, <3>3, Zenon
  <2>. QED BY <1>11, <2>1
<1>13. v3' \in [Limiting!Keys -> Nat] /\ v4' \in [Limiting!Keys -> Nat] BY <1>1, <1>2
<1>. QED BY <1>5, <1>6, <1>10, <1>12, <1>13, RateKept

\* A counter that is gone has nothing to take back.
LEMMA RateDrop ==
    ASSUME Limiting!RateInv, NEW ks, Limiting!Drop(ks), UNCHANGED v1
    PROVE  Limiting!RateInv'
<1>1. /\ v1 \in [LimitCalls -> Limiting!CallsThere] /\ v2 \in [Limiting!Keys -> Int]
      /\ v3 \in [Limiting!Keys -> Nat] /\ v4 \in [Limiting!Keys -> Nat]
      /\ v5 \in [Limiting!Keys -> Nat]
      /\ \A c \in LimitCalls : v1[c].pc = "counted" =>
             v1[c] \in Limiting!CountedCalls /\ v1[c].drops <= v3[Limiting!Key(v1[c].scope)]
  BY DEF Limiting!RateInv
<1>2. /\ v2' \in [Limiting!Keys -> Int] /\ v3' \in [Limiting!Keys -> Nat]
      /\ v4' \in [Limiting!Keys -> Nat] /\ v5' \in [Limiting!Keys -> Nat]
      /\ \A k \in Limiting!Keys :
             IF k \in ks THEN v2'[k] = 0 /\ v3'[k] = v3[k] + 1 /\ v4'[k] = 0 /\ v5'[k] = 0
             ELSE v2'[k] = v2[k] /\ v3'[k] = v3[k] /\ v4'[k] = v4[k] /\ v5'[k] = v5[k]
  BY <1>1 DEF Limiting!Drop
<1>3. \A c \in LimitCalls : v1[c].pc = "counted" =>
          Limiting!Key(v1[c].scope) \in Limiting!Keys /\ v1[c].drops \in Nat
  BY <1>1, KeyIsThere DEF Limiting!CountedCalls
<1>4. \A c \in LimitCalls : v1'[c].pc = "counted" =>
          /\ v1'[c] \in Limiting!CountedCalls
          /\ v1'[c].drops <= v3'[Limiting!Key(v1'[c].scope)]
  <2>. SUFFICES ASSUME NEW c \in LimitCalls, v1[c].pc = "counted"
                PROVE  v1[c].drops <= v3'[Limiting!Key(v1[c].scope)]
    BY <1>1
  <2>. DEFINE k == Limiting!Key(v1[c].scope)
  <2>1. k \in Limiting!Keys /\ v1[c].drops \in Nat /\ v1[c].drops <= v3[k] /\ v3[k] \in Nat
    BY <1>1, <1>3
  <2>. HIDE DEF k
  <2>2. v3'[k] = v3[k] \/ v3'[k] = v3[k] + 1 BY <1>2, <2>1
  <2>3. v1[c].drops <= v3'[k] BY <2>1, <2>2
  <2>. QED BY <2>3 DEF k
<1>5. ASSUME NEW k \in Limiting!Keys
      PROVE  /\ v4'[k] + Limiting!Cardinality(Limiting!ToGiveBack(k)') <= v2'[k] + v5'[k]
             /\ v4'[k] <= LimitList[k[1]].limit + v5'[k]
  <2>1. LimitList[k[1]].limit \in Nat BY KeysHaveLimits
  <2>2. CASE k \in ks
    <3>1. Limiting!ToGiveBack(k)' = {}
      BY <1>1, <1>2, <1>3, <2>2 DEF Limiting!ToGiveBack
    <3>2. Limiting!Cardinality({}) = 0 BY FS_EmptySet, LimitingCardinality
    <3>. QED BY <1>2, <2>1, <2>2, <3>1, <3>2
  <2>3. CASE k \notin ks
    <3>1. Limiting!ToGiveBack(k)' = Limiting!ToGiveBack(k)
      BY <1>2, <2>3 DEF Limiting!ToGiveBack
    <3>. QED BY <1>2, <2>3, <3>1 DEF Limiting!RateInv, Limiting!ActorWithinLimit
  <2>. QED BY <2>2, <2>3
<1>. QED BY <1>1, <1>2, <1>4, <1>5, RateKept

LEMMA RateStays ==
    ASSUME Limiting!RateInv, UNCHANGED <<v1, v2, v3, v4, v5>> PROVE Limiting!RateInv'
BY DEF Limiting!RateInv, Limiting!ActorWithinLimit, Limiting!ToGiveBack

LEMMA RateKeeps ==
    ASSUME Limiting!RateInv, Limiting!RateNext PROVE Limiting!RateInv'
<1>1. ASSUME NEW k \in Limiting!Keys, Limiting!Expire(k) PROVE Limiting!RateInv'
  BY <1>1, RateDrop DEF Limiting!Expire
<1>2. ASSUME NEW r \in Resets, Limiting!ResetLists(r) PROVE Limiting!RateInv'
  BY <1>2, RateStays DEF Limiting!ResetLists
<1>3. ASSUME NEW r \in Resets, Limiting!ResetActor(r) PROVE Limiting!RateInv'
  BY <1>3, RateDrop DEF Limiting!ResetActor
<1>4. ASSUME NEW r \in Resets, Limiting!ResetDeletes(r) PROVE Limiting!RateInv'
  BY <1>4, RateDrop DEF Limiting!ResetDeletes
<1>. QED BY <1>1, <1>2, <1>3, <1>4, RateUnlimited, RateCheck, RateRecord, RateGiveBack
         DEF Limiting!RateNext

\* A reset finds all that was there, and what it deletes is gone.
LEMMA ResetStart == ASSUME Limiting!RateInit PROVE Limiting!ResetInv
BY DEF Limiting!RateInit, Limiting!ResetInv, Limiting!ResetsThere, Limiting!ResetReachesAll

LEMMA DropCounts ==
    ASSUME Limiting!ResetInv, NEW ks, Limiting!Drop(ks)
    PROVE  /\ v3' \in [Limiting!Keys -> Nat]
           /\ \A k \in Limiting!Keys : v3'[k] = IF k \in ks THEN v3[k] + 1 ELSE v3[k]
           /\ \A k \in Limiting!Keys : v3'[k] \in Nat /\ v3[k] \in Nat /\ v3'[k] >= v3[k]
<1>1. v3 \in [Limiting!Keys -> Nat] BY DEF Limiting!ResetInv
<1>2. v3' = [k \in Limiting!Keys |-> IF k \in ks THEN v3[k] + 1 ELSE v3[k]]
  BY DEF Limiting!Drop
<1>. QED BY <1>1, <1>2

\* The counts of deletions only grow.
LEMMA ResetGrows ==
    ASSUME Limiting!ResetInv, v6' = v6, v3' \in [Limiting!Keys -> Nat],
           \A k \in Limiting!Keys : v3'[k] >= v3[k]
    PROVE  Limiting!ResetInv'
<1>1. /\ v3 \in [Limiting!Keys -> Nat] /\ v6 \in [Resets -> Limiting!ResetsThere]
      /\ \A r \in Resets :
             /\ v6[r].pc = "listed" => v6[r].keys = v6[r].there
             /\ v6[r].pc # "idle" => \A k \in Limiting!Keys : v3[k] >= v6[r].drops[k]
             /\ v6[r].pc = "done" => \A k \in v6[r].there : v3[k] > v6[r].drops[k]
  BY DEF Limiting!ResetInv, Limiting!ResetReachesAll
<1>2. ASSUME NEW r \in Resets, v6[r].pc # "idle"
      PROVE  v6[r].drops \in [Limiting!Keys -> Nat] /\ v6[r].there \subseteq Limiting!Keys
  <2>1. v6[r] \in Limiting!ResetsThere BY <1>1
  <2>. QED BY <1>2, <2>1 DEF Limiting!ResetsThere
<1>3. \A r \in Resets :
          /\ v6[r].pc # "idle" => \A k \in Limiting!Keys : v3'[k] >= v6[r].drops[k]
          /\ v6[r].pc = "done" => \A k \in v6[r].there : v3'[k] > v6[r].drops[k]
  <2>1. ASSUME NEW r \in Resets, v6[r].pc # "idle", NEW k \in Limiting!Keys
        PROVE  v3'[k] >= v6[r].drops[k]
    BY <1>1, <1>2, <2>1
  <2>2. ASSUME NEW r \in Resets, v6[r].pc = "done", NEW k \in v6[r].there
        PROVE  v3'[k] > v6[r].drops[k]
    <3>1. v6[r].pc # "idle" BY <2>2
    <3>2. k \in Limiting!Keys /\ v6[r].drops[k] \in Nat BY <1>2, <2>2, <3>1
    <3>. QED BY <1>1, <2>2, <3>2
  <2>. QED BY <2>1, <2>2
<1>. QED BY <1>1, <1>3 DEF Limiting!ResetInv, Limiting!ResetReachesAll

\* One reset that has come to a new state.
LEMMA ResetMoves ==
    ASSUME Limiting!ResetInv, NEW r \in Resets, NEW now \in Limiting!ResetsThere,
           v6' = [v6 EXCEPT ![r] = now], v3' \in [Limiting!Keys -> Nat],
           \A k \in Limiting!Keys : v3'[k] >= v3[k],
           now.pc = "listed" => now.keys = now.there,
           now.pc # "idle" => \A k \in Limiting!Keys : v3'[k] >= now.drops[k],
           now.pc = "done" => \A k \in now.there : v3'[k] > now.drops[k]
    PROVE  Limiting!ResetInv'
<1>1. /\ v3 \in [Limiting!Keys -> Nat] /\ v6 \in [Resets -> Limiting!ResetsThere]
      /\ \A q \in Resets :
             /\ v6[q].pc = "listed" => v6[q].keys = v6[q].there
             /\ v6[q].pc # "idle" => \A k \in Limiting!Keys : v3[k] >= v6[q].drops[k]
             /\ v6[q].pc = "done" => \A k \in v6[q].there : v3[k] > v6[q].drops[k]
  BY DEF Limiting!ResetInv, Limiting!ResetReachesAll
<1>2. \A q \in Resets : v6'[q] = IF q = r THEN now ELSE v6[q] BY <1>1
<1>3. v6' \in [Resets -> Limiting!ResetsThere] BY <1>1
<1>4. ASSUME NEW q \in Resets, q # r
      PROVE  /\ v6[q].pc # "idle" => \A k \in Limiting!Keys : v3'[k] >= v6[q].drops[k]
             /\ v6[q].pc = "done" => \A k \in v6[q].there : v3'[k] > v6[q].drops[k]
  <2>1. v6[q] \in Limiting!ResetsThere BY <1>1
  <2>2. v6[q].pc # "idle" =>
            v6[q].drops \in [Limiting!Keys -> Nat] /\ v6[q].there \subseteq Limiting!Keys
    BY <2>1 DEF Limiting!ResetsThere
  <2>3. ASSUME v6[q].pc # "idle", NEW k \in Limiting!Keys PROVE v3'[k] >= v6[q].drops[k]
    BY <1>1, <2>2, <2>3
  <2>4. ASSUME v6[q].pc = "done", NEW k \in v6[q].there PROVE v3'[k] > v6[q].drops[k]
    <3>1. v6[q].pc # "idle" BY <2>4
    <3>2. k \in Limiting!Keys /\ v6[q].drops[k] \in Nat BY <2>2, <2>4, <3>1
    <3>. QED BY <1>1, <2>4, <3>2
  <2>. QED BY <2>3, <2>4
<1>5. \A q \in Resets :
          /\ v6'[q].pc = "listed" => v6'[q].keys = v6'[q].there
          /\ v6'[q].pc # "idle" => \A k \in Limiting!Keys : v3'[k] >= v6'[q].drops[k]
          /\ v6'[q].pc = "done" => \A k \in v6'[q].there : v3'[k] > v6'[q].drops[k]
  BY <1>1, <1>2, <1>4
<1>. QED BY <1>3, <1>5 DEF Limiting!ResetInv, Limiting!ResetReachesAll

LEMMA ResetKeeps ==
    ASSUME Limiting!ResetInv, Limiting!RateNext PROVE Limiting!ResetInv'
<1>1. v3 \in [Limiting!Keys -> Nat] /\ v6 \in [Resets -> Limiting!ResetsThere]
  BY DEF Limiting!ResetInv
<1>2. ASSUME v3' = v3, v6' = v6 PROVE Limiting!ResetInv' BY <1>1, <1>2, ResetGrows
<1>3. ASSUME NEW c \in LimitCalls,
             \/ Limiting!Unlimited(c) \/ Limiting!Check(c)
             \/ Limiting!Record(c) \/ Limiting!GiveBack(c)
      PROVE  Limiting!ResetInv'
  <2>1. v3' = v3 /\ v6' = v6
    BY <1>3 DEF Limiting!Unlimited, Limiting!Check, Limiting!Record, Limiting!GiveBack
  <2>. QED BY <1>2, <2>1
<1>4. ASSUME NEW k \in Limiting!Keys, Limiting!Expire(k) PROVE Limiting!ResetInv'
  <2>1. Limiting!Drop({k}) /\ v6' = v6 BY <1>4 DEF Limiting!Expire
  <2>. QED BY <2>1, DropCounts, ResetGrows
<1>5. ASSUME NEW r \in Resets, Limiting!ResetLists(r) PROVE Limiting!ResetInv'
  <2>1. PICK l \in DOMAIN LimitList :
            /\ v6' = [v6 EXCEPT ![r] =
                         [limit |-> l, pc |-> "listed", keys |-> Limiting!Pattern(l),
                          there |-> {k \in Limiting!There : k[1] = l}, drops |-> v3]]
            /\ v3' = v3
    BY <1>5 DEF Limiting!ResetLists
  <2>. DEFINE now == [limit |-> l, pc |-> "listed", keys |-> Limiting!Pattern(l),
                      there |-> {k \in Limiting!There : k[1] = l}, drops |-> v3]
  <2>2. /\ Limiting!Pattern(l) = {k \in Limiting!There : k[1] = l}
        /\ Limiting!There \subseteq Limiting!Keys
    BY DEF Limiting!Pattern, Limiting!There
  <2>3. l \in 0 .. Len(LimitList) BY GuardsAssumption
  <2>4. now \in Limiting!ResetsThere BY <1>1, <2>2, <2>3 DEF Limiting!ResetsThere
  <2>5. now.pc = "listed" /\ now.keys = now.there /\ now.drops = v3 BY <2>2
  <2>6. v6' = [v6 EXCEPT ![r] = now] BY <2>1
  <2>. HIDE DEF now
  <2>. QED BY <1>1, <2>1, <2>4, <2>5, <2>6, ResetMoves
<1>6. ASSUME NEW r \in Resets, Limiting!ResetActor(r) PROVE Limiting!ResetInv'
  <2>1. PICK k \in Limiting!Keys :
            /\ v6' = [v6 EXCEPT ![r] =
                         [limit |-> k[1], pc |-> "done", there |-> {k}, drops |-> v3]]
            /\ Limiting!Drop({k})
    BY <1>6 DEF Limiting!ResetActor
  <2>. DEFINE now == [limit |-> k[1], pc |-> "done", there |-> {k}, drops |-> v3]
  <2>2. PICK s \in Scopes : Limiting!Applicable(s) # 0 /\ k = Limiting!Key(s)
    BY DEF Limiting!Keys
  <2>3. k[1] \in 0 .. Len(LimitList)
    BY <2>2, AppliesToScope, GuardsAssumption DEF Limiting!Key
  <2>4. now \in Limiting!ResetsThere BY <1>1, <2>3 DEF Limiting!ResetsThere
  <2>5. now.pc = "done" /\ now.there = {k} /\ now.drops = v3 OBVIOUS
  <2>6. v6' = [v6 EXCEPT ![r] = now] BY <2>1
  <2>7. /\ v3' \in [Limiting!Keys -> Nat] /\ v3'[k] = v3[k] + 1
        /\ \A key \in Limiting!Keys : v3'[key] >= v3[key]
    BY <2>1, DropCounts
  <2>8. k \in Limiting!Keys /\ v3[k] \in Nat BY <1>1
  <2>. HIDE DEF now
  <2>9. now.pc # "listed" /\ \A key \in Limiting!Keys : v3'[key] >= now.drops[key]
    BY <2>5, <2>7
  <2>10. \A key \in now.there : v3'[key] > now.drops[key] BY <2>5, <2>7, <2>8
  <2>. QED BY <2>4, <2>6, <2>7, <2>9, <2>10, ResetMoves
<1>7. ASSUME NEW r \in Resets, Limiting!ResetDeletes(r) PROVE Limiting!ResetInv'
  <2>1. /\ v6[r].pc = "listed" /\ Limiting!Drop(v6[r].keys)
        /\ v6' = [v6 EXCEPT ![r].pc = "done"]
    BY <1>7 DEF Limiting!ResetDeletes
  <2>. DEFINE now == [v6[r] EXCEPT !.pc = "done"]
  <2>2. v6[r] \in Limiting!ResetsThere BY <1>1
  <2>3. /\ v6[r] = [limit |-> v6[r].limit, pc |-> "listed", keys |-> v6[r].keys,
                    there |-> v6[r].there, drops |-> v6[r].drops]
        /\ v6[r].limit \in 0 .. Len(LimitList) /\ v6[r].keys \subseteq Limiting!Keys
        /\ v6[r].there \subseteq Limiting!Keys /\ v6[r].drops \in [Limiting!Keys -> Nat]
    BY <2>1, <2>2 DEF Limiting!ResetsThere
  <2>4. now = [limit |-> v6[r].limit, pc |-> "done", keys |-> v6[r].keys,
               there |-> v6[r].there, drops |-> v6[r].drops]
    BY <2>3
  <2>5. now \in Limiting!ResetsThere BY <2>3, <2>4 DEF Limiting!ResetsThere
  <2>6. now.pc = "done" /\ now.there = v6[r].there /\ now.drops = v6[r].drops
    BY <2>4
  <2>7. v6' = [v6 EXCEPT ![r] = now] BY <2>1
  <2>8. /\ v6[r].keys = v6[r].there /\ \A k \in Limiting!Keys : v3[k] >= v6[r].drops[k]
    BY <2>1 DEF Limiting!ResetInv
  <2>9. /\ v3' \in [Limiting!Keys -> Nat]
        /\ \A k \in Limiting!Keys :
               v3'[k] >= v3[k] /\ v3[k] \in Nat
               /\ v3'[k] = IF k \in v6[r].keys THEN v3[k] + 1 ELSE v3[k]
    BY <2>1, DropCounts
  <2>10. \A k \in Limiting!Keys : v6[r].drops[k] \in Nat BY <2>3
  <2>11. /\ \A k \in Limiting!Keys : v3'[k] >= v6[r].drops[k]
         /\ \A k \in v6[r].there : v3'[k] > v6[r].drops[k]
    BY <2>3, <2>8, <2>9, <2>10
  <2>. HIDE DEF now
  <2>. QED BY <2>5, <2>6, <2>7, <2>9, <2>11, ResetMoves
<1>. QED BY <1>3, <1>4, <1>5, <1>6, <1>7 DEF Limiting!RateNext

-----------------------------------------------------------------------------
(***************************************************************************)
(* The quotas.                                                             *)
(***************************************************************************)
LEMMA UnitsAreFinite ==
    ASSUME v1 \in [QuotaRequests -> Uses], NEW r \in QuotaRequests
    PROVE  /\ IsFiniteSet(Limiting!Units(r))
           /\ Cardinality(Limiting!Units(r)) = v1[r].amount
<1>1. v1[r].amount \in Nat BY GuardsAssumption
<1>2. IsFiniteSet(1 .. v1[r].amount) /\ Cardinality(1 .. v1[r].amount) = v1[r].amount
  BY <1>1, FS_Interval
<1>3. IsFiniteSet({r}) /\ Cardinality({r}) = 1 BY FS_Singleton
<1>. DEFINE one == {r}
            units == 1 .. v1[r].amount
<1>4. /\ IsFiniteSet(one) /\ Cardinality(one) = 1
      /\ IsFiniteSet(units) /\ Cardinality(units) = v1[r].amount
  BY <1>2, <1>3
<1>5. Limiting!Units(r) = one \X units BY DEF Limiting!Units
<1>. HIDE DEF one, units
<1>6. IsFiniteSet(one \X units) /\ Cardinality(one \X units) = Cardinality(one) * Cardinality(units)
  BY <1>4, FS_Product
<1>7. Cardinality(one \X units) = 1 * v1[r].amount BY <1>4, <1>6, Zenon
<1>. QED BY <1>1, <1>5, <1>6, <1>7

LEMMA AmountIsNumber ==
    ASSUME v1 \in [QuotaRequests -> Uses], NEW S \in SUBSET QuotaRequests
    PROVE  /\ IsFiniteSet(UNION {Limiting!Units(r) : r \in S})
           /\ Limiting!AmountOf(S) = Cardinality(UNION {Limiting!Units(r) : r \in S})
           /\ Limiting!AmountOf(S) \in Nat
<1>. DEFINE f == [r \in S |-> Limiting!Units(r)]
            all == {Limiting!Units(r) : r \in S}
<1>1. f \in Surjection(S, all) BY DEF Surjection
<1>2. IsFiniteSet(S) BY FS_Subset, GuardsAssumption
<1>3. IsFiniteSet(all) BY <1>1, <1>2, FS_Surjection
<1>4. IsFiniteSet(UNION all) BY <1>3, FS_UNION, UnitsAreFinite
<1>5. Limiting!AmountOf(S) = Cardinality(UNION all)
  BY LimitingCardinality DEF Limiting!AmountOf
<1>. QED BY <1>4, <1>5, FS_CardinalityType

\* Fewer requests do not use more.
LEMMA AmountGrows ==
    ASSUME v1 \in [QuotaRequests -> Uses], NEW T \in SUBSET QuotaRequests, NEW S \in SUBSET T
    PROVE  Limiting!AmountOf(S) <= Limiting!AmountOf(T)
<1>1. UNION {Limiting!Units(r) : r \in S} \in SUBSET UNION {Limiting!Units(r) : r \in T}
  OBVIOUS
<1>2. S \in SUBSET QuotaRequests OBVIOUS
<1>. QED BY <1>1, <1>2, AmountIsNumber, FS_Subset

\* One more request uses its amount more.
LEMMA AmountAdds ==
    ASSUME v1 \in [QuotaRequests -> Uses], NEW S \in SUBSET QuotaRequests,
           NEW x \in QuotaRequests, x \notin S
    PROVE  Limiting!AmountOf(S \cup {x}) = Limiting!AmountOf(S) + v1[x].amount
<1>. DEFINE before == UNION {Limiting!Units(r) : r \in S}
            after == UNION {Limiting!Units(r) : r \in S \cup {x}}
<1>1. after = before \cup Limiting!Units(x) OBVIOUS
<1>2. before \cap Limiting!Units(x) = {} BY DEF Limiting!Units
<1>3. /\ IsFiniteSet(before) /\ Limiting!AmountOf(S) = Cardinality(before)
      /\ Limiting!AmountOf(S) \in Nat
  BY AmountIsNumber
<1>4. Limiting!AmountOf(S \cup {x}) = Cardinality(after) BY AmountIsNumber
<1>5. IsFiniteSet(Limiting!Units(x)) /\ Cardinality(Limiting!Units(x)) = v1[x].amount
  BY UnitsAreFinite
<1>6. v1[x].amount \in Nat BY GuardsAssumption
<1>. HIDE DEF before, after
<1>7. Cardinality(before \cup Limiting!Units(x)) =
          Cardinality(before) + Cardinality(Limiting!Units(x)) - Cardinality({})
  BY <1>2, <1>3, <1>5, FS_Union
<1>. QED BY <1>1, <1>3, <1>4, <1>5, <1>6, <1>7, FS_EmptySet

LEMMA QuotaStart == ASSUME Limiting!QuotaInit PROVE Limiting!QuotaInv
<1>1. /\ v1 \in [QuotaRequests -> Uses] /\ v2 = [r \in QuotaRequests |-> "idle"]
      /\ v3 = [s \in Limiting!QuotaScopes |-> 0]
      /\ v4 = [q \in {Limiting!Quota(c) : c \in Uses} |-> 0] /\ v5 = {} /\ v6 = {}
  BY DEF Limiting!QuotaInit
<1>2. \A s : Limiting!Counted(s) = {} BY <1>1 DEF Limiting!Counted
<1>3. \A q : Limiting!Used(q) = {} BY <1>1 DEF Limiting!Used
<1>4. Limiting!Cardinality({}) = 0 BY FS_EmptySet, LimitingCardinality
<1>5. Limiting!AmountOf({}) = 0
  <2>1. UNION {Limiting!Units(r) : r \in {}} = {} OBVIOUS
  <2>. QED BY <2>1, <1>4 DEF Limiting!AmountOf
<1>6. Limiting!CountedWhereChecked BY <1>1, <1>2, <1>3, <1>4, <1>5 DEF Limiting!CountedWhereChecked
<1>7. Limiting!QuotaTypeOK BY <1>1 DEF Limiting!QuotaTypeOK
<1>8. Limiting!UnderWay = {} BY <1>1 DEF Limiting!UnderWay
<1>. QED BY <1>1, <1>3, <1>6, <1>7, <1>8 DEF Limiting!QuotaInv

LEMMA QuotaHolds ==
    ASSUME Limiting!QuotaInv
    PROVE  Limiting!UsedWithinQuota /\ Limiting!CountedWhereChecked
BY DEF Limiting!QuotaInv, Limiting!UsedWithinQuota

LEMMA AmountStays ==
    ASSUME v1' = v1 PROVE \A S : Limiting!AmountOf(S)' = Limiting!AmountOf(S)
BY DEF Limiting!AmountOf, Limiting!Units

\* What is to be shown of a step: nobody changes what is asked for.
LEMMA QuotaKept ==
    ASSUME Limiting!QuotaInv, v1' = v1,
           v2' \in [QuotaRequests -> {"idle", "quota", "operating", "recording",
                                      "done", "failed", "denied"}],
           v3' \in [Limiting!QuotaScopes -> Nat],
           v4' \in [{Limiting!Quota(c) : c \in Uses} -> Nat],
           v5' \subseteq QuotaRequests, v6' \subseteq QuotaRequests,
           \A s \in Limiting!QuotaScopes :
               v3'[s] = Limiting!Cardinality(Limiting!Counted(s)'),
           \A q \in {Limiting!Quota(c) : c \in Uses} :
               /\ v4'[q] = Limiting!AmountOf(Limiting!Used(q)')
               /\ Limiting!Used(q)' \ v5' # {} =>
                      \E r \in Limiting!Used(q)' :
                          Limiting!AmountOf(Limiting!Used(q)' \ (v5' \cup {r})) < QuotaLimit,
           \A r \in QuotaRequests :
               /\ r \in v6' => v2'[r] = "failed"
               /\ v2'[r] \in {"quota", "recording"} => v1[r].resource # ""
               /\ r \in Limiting!UnderWay' \ v5' => Limiting!UnderWay' = {r}
               /\ r \in Limiting!UnderWay' \ v5' /\ v2'[r] # "quota" /\ v1[r].resource # "" =>
                      v4'[Limiting!Quota(v1[r])] < QuotaLimit
    PROVE  Limiting!QuotaInv'
<1>1. Limiting!QuotaTypeOK' BY DEF Limiting!QuotaTypeOK, Limiting!QuotaInv
<1>2. DOMAIN v4' = {Limiting!Quota(c) : c \in Uses} OBVIOUS
<1>3. Limiting!CountedWhereChecked'
  BY <1>2, AmountStays DEF Limiting!CountedWhereChecked
<1>4. \A q \in DOMAIN v4' : Limiting!Used(q)' \ v5' # {} =>
          \E r \in Limiting!Used(q)' :
              Limiting!AmountOf(Limiting!Used(q) \ (v5 \cup {r}))' < QuotaLimit
  <2>. SUFFICES ASSUME NEW q \in DOMAIN v4', Limiting!Used(q)' \ v5' # {}
                PROVE  \E r \in Limiting!Used(q)' :
                           Limiting!AmountOf(Limiting!Used(q) \ (v5 \cup {r}))' < QuotaLimit
    OBVIOUS
  <2>1. PICK r \in Limiting!Used(q)' :
            Limiting!AmountOf(Limiting!Used(q)' \ (v5' \cup {r})) < QuotaLimit
    BY <1>2
  <2>2. PICK T : T = Limiting!Used(q)' \ (v5' \cup {r}) OBVIOUS
  <2>3. Limiting!AmountOf(T)' < QuotaLimit BY <2>1, <2>2, AmountStays
  <2>4. Limiting!AmountOf(Limiting!Used(q) \ (v5 \cup {r}))' = Limiting!AmountOf(T)'
    BY <2>2 DEF Limiting!AmountOf
  <2>. QED BY <2>3, <2>4
<1>. QED BY <1>1, <1>3, <1>4 DEF Limiting!QuotaInv, Limiting!WithinQuota

LEMMA QuotaFacts ==
    ASSUME Limiting!QuotaInv
    PROVE  /\ v1 \in [QuotaRequests -> Uses]
           /\ v2 \in [QuotaRequests -> {"idle", "quota", "operating", "recording",
                                        "done", "failed", "denied"}]
           /\ v3 \in [Limiting!QuotaScopes -> Nat]
           /\ v4 \in [{Limiting!Quota(c) : c \in Uses} -> Nat]
           /\ v5 \subseteq QuotaRequests /\ v6 \subseteq QuotaRequests
           /\ \A s \in Limiting!QuotaScopes : v3[s] = Cardinality(Limiting!Counted(s))
           /\ \A q \in {Limiting!Quota(c) : c \in Uses} :
                  /\ v4[q] = Limiting!AmountOf(Limiting!Used(q))
                  /\ Limiting!Used(q) \ v5 # {} =>
                         \E r \in Limiting!Used(q) :
                             Limiting!AmountOf(Limiting!Used(q) \ (v5 \cup {r})) < QuotaLimit
           /\ \A r \in QuotaRequests :
                  /\ r \in v6 => v2[r] = "failed"
                  /\ v2[r] \in {"quota", "recording"} => v1[r].resource # ""
                  /\ r \in Limiting!UnderWay \ v5 => Limiting!UnderWay = {r}
                  /\ r \in Limiting!UnderWay \ v5 /\ v2[r] # "quota" /\ v1[r].resource # "" =>
                         v4[Limiting!Quota(v1[r])] < QuotaLimit
<1>1. Limiting!QuotaTypeOK BY DEF Limiting!QuotaInv
<1>2. DOMAIN v4 = {Limiting!Quota(c) : c \in Uses} BY DEF Limiting!QuotaInv
<1>3. Limiting!CountedWhereChecked BY DEF Limiting!QuotaInv
<1>4. /\ v1 \in [QuotaRequests -> Uses]
      /\ v2 \in [QuotaRequests -> {"idle", "quota", "operating", "recording",
                                   "done", "failed", "denied"}]
      /\ v5 \subseteq QuotaRequests /\ v6 \subseteq QuotaRequests
  BY <1>1 DEF Limiting!QuotaTypeOK
<1>5. /\ v3 \in [Limiting!QuotaScopes -> Nat]
      /\ v4 \in [{Limiting!Quota(c) : c \in Uses} -> Nat]
  BY DEF Limiting!QuotaInv
<1>6. \A s \in Limiting!QuotaScopes : v3[s] = Cardinality(Limiting!Counted(s))
  BY <1>3, LimitingCardinality DEF Limiting!CountedWhereChecked
<1>7. \A q \in {Limiting!Quota(c) : c \in Uses} :
          /\ v4[q] = Limiting!AmountOf(Limiting!Used(q))
          /\ Limiting!Used(q) \ v5 # {} =>
                 \E r \in Limiting!Used(q) :
                     Limiting!AmountOf(Limiting!Used(q) \ (v5 \cup {r})) < QuotaLimit
  BY <1>2, <1>3 DEF Limiting!CountedWhereChecked, Limiting!QuotaInv
<1>8. \A r \in QuotaRequests :
          /\ r \in v6 => v2[r] = "failed"
          /\ v2[r] \in {"quota", "recording"} => v1[r].resource # ""
          /\ r \in Limiting!UnderWay \ v5 => Limiting!UnderWay = {r}
          /\ r \in Limiting!UnderWay \ v5 /\ v2[r] # "quota" /\ v1[r].resource # "" =>
                 v4[Limiting!Quota(v1[r])] < QuotaLimit
  BY DEF Limiting!QuotaInv, Limiting!WithinQuota
<1>. QED BY <1>4, <1>5, <1>6, <1>7, <1>8

\* What one request does to what is under way, counted and used.
LEMMA QuotaMoves ==
    ASSUME Limiting!QuotaInv, NEW r \in QuotaRequests,
           NEW w \in {"quota", "operating", "recording", "done", "failed", "denied"},
           v1' = v1, v2' = [v2 EXCEPT ![r] = w], v2[r] \notin {"done", "failed", "denied"}
    PROVE  /\ v2' \in [QuotaRequests -> {"idle", "quota", "operating", "recording",
                                         "done", "failed", "denied"}]
           /\ \A x \in QuotaRequests : v2'[x] = IF x = r THEN w ELSE v2[x]
           /\ Limiting!UnderWay' =
                  IF w \in {"quota", "operating", "recording"}
                  THEN Limiting!UnderWay \cup {r} ELSE Limiting!UnderWay \ {r}
           /\ \A q : Limiting!Used(q)' =
                  IF w = "done" /\ v1[r].resource # "" /\ Limiting!Quota(v1[r]) = q
                  THEN Limiting!Used(q) \cup {r} ELSE Limiting!Used(q)
           /\ \A q : r \notin Limiting!Used(q)
<1>1. /\ v2 \in [QuotaRequests -> {"idle", "quota", "operating", "recording",
                                   "done", "failed", "denied"}]
  BY QuotaFacts
<1>2. \A x \in QuotaRequests : v2'[x] = IF x = r THEN w ELSE v2[x] BY <1>1
<1>3. v2' \in [QuotaRequests -> {"idle", "quota", "operating", "recording",
                                 "done", "failed", "denied"}]
  BY <1>1
<1>4. Limiting!UnderWay' = IF w \in {"quota", "operating", "recording"}
                           THEN Limiting!UnderWay \cup {r} ELSE Limiting!UnderWay \ {r}
  BY <1>2 DEF Limiting!UnderWay
<1>5. \A q : r \notin Limiting!Used(q) BY DEF Limiting!Used
<1>6. ASSUME NEW q
      PROVE  Limiting!Used(q)' =
                 IF w = "done" /\ v1[r].resource # "" /\ Limiting!Quota(v1[r]) = q
                 THEN Limiting!Used(q) \cup {r} ELSE Limiting!Used(q)
  BY <1>2 DEF Limiting!Used
<1>. QED BY <1>2, <1>3, <1>4, <1>5, <1>6

\* Nothing is recorded: nothing else than who is under way has changed.
LEMMA QuotaUnrecorded ==
    ASSUME Limiting!QuotaInv, NEW r \in QuotaRequests,
           NEW w \in {"quota", "operating", "denied", "failed"},
           v1' = v1, v2' = [v2 EXCEPT ![r] = w], v3' = v3, v4' = v4, v6' = v6,
           v2[r] \in {"idle", "quota", "operating"},
           w = "quota" => v1[r].resource # "",
           \/ v5' = v5 /\ v2[r] # "idle"
           \/ v5' = v5 /\ w \notin {"quota", "operating"}
           \/ v5' = v5 /\ Limiting!UnderWay = {}
           \/ v2[r] = "idle" /\ v5' = v5 \cup {r} \cup Limiting!UnderWay,
           w = "operating" /\ v1[r].resource # "" /\ r \notin v5' =>
               v4[Limiting!Quota(v1[r])] < QuotaLimit
    PROVE  Limiting!QuotaInv'
<1>. DEFINE Going == {"quota", "operating", "recording"}
<1>1. /\ \A x \in QuotaRequests : v2'[x] = IF x = r THEN w ELSE v2[x]
      /\ Limiting!UnderWay' =
             IF w \in Going THEN Limiting!UnderWay \cup {r} ELSE Limiting!UnderWay \ {r}
      /\ \A q : Limiting!Used(q)' = Limiting!Used(q)
      /\ \A q : r \notin Limiting!Used(q)
      /\ v2' \in [QuotaRequests -> {"idle", "quota", "operating", "recording",
                                    "done", "failed", "denied"}]
  BY QuotaMoves
<1>2. \A s : Limiting!Counted(s)' = Limiting!Counted(s)
  BY <1>1 DEF Limiting!Counted
<1>3. Limiting!UnderWay \subseteq QuotaRequests
      /\ \A q : Limiting!UnderWay \cap Limiting!Used(q) = {}
  BY DEF Limiting!UnderWay, Limiting!Used
<1>4. v5' \subseteq QuotaRequests
  <2>1. v5 \subseteq QuotaRequests BY QuotaFacts
  <2>2. v5' = v5 \/ v5' = v5 \cup {r} \cup Limiting!UnderWay OBVIOUS
  <2>. QED BY <1>3, <2>1, <2>2
<1>5. \A s \in Limiting!QuotaScopes : v3'[s] = Limiting!Cardinality(Limiting!Counted(s)')
  BY <1>2, QuotaFacts, LimitingCardinality
<1>6. ASSUME NEW q \in {Limiting!Quota(c) : c \in Uses}
      PROVE  /\ v4'[q] = Limiting!AmountOf(Limiting!Used(q)')
             /\ Limiting!Used(q)' \ v5' # {} =>
                    \E x \in Limiting!Used(q)' :
                        Limiting!AmountOf(Limiting!Used(q)' \ (v5' \cup {x})) < QuotaLimit
  <2>1. Limiting!Used(q) \ v5' = Limiting!Used(q) \ v5 BY <1>1, <1>3
  <2>2. \A x : Limiting!Used(q) \ (v5' \cup {x}) = Limiting!Used(q) \ (v5 \cup {x})
    BY <2>1
  <2>3. Limiting!Used(q)' = Limiting!Used(q) /\ v4'[q] = v4[q] BY <1>1
  <2>4. /\ v4[q] = Limiting!AmountOf(Limiting!Used(q))
        /\ Limiting!Used(q) \ v5 # {} =>
               \E x \in Limiting!Used(q) :
                   Limiting!AmountOf(Limiting!Used(q) \ (v5 \cup {x})) < QuotaLimit
    BY QuotaFacts
  <2>5. v4'[q] = Limiting!AmountOf(Limiting!Used(q)') BY <2>3, <2>4
  <2>6. ASSUME Limiting!Used(q)' \ v5' # {}
        PROVE  \E x \in Limiting!Used(q)' :
                   Limiting!AmountOf(Limiting!Used(q)' \ (v5' \cup {x})) < QuotaLimit
    <3>1. Limiting!Used(q) \ v5 # {} BY <2>1, <2>3, <2>6
    <3>2. PICK x \in Limiting!Used(q) :
              Limiting!AmountOf(Limiting!Used(q) \ (v5 \cup {x})) < QuotaLimit
      BY <2>4, <3>1
    <3>3. Limiting!Used(q)' \ (v5' \cup {x}) = Limiting!Used(q) \ (v5 \cup {x})
      BY <2>2, <2>3
    <3>4. x \in Limiting!Used(q)' BY <2>3
    <3>5. Limiting!AmountOf(Limiting!Used(q)' \ (v5' \cup {x})) < QuotaLimit BY <3>2, <3>3
    <3>. QED BY <3>4, <3>5
  <2>. QED BY <2>5, <2>6
<1>7. ASSUME NEW x \in QuotaRequests
      PROVE  /\ x \in v6' => v2'[x] = "failed"
             /\ v2'[x] \in {"quota", "recording"} => v1[x].resource # ""
             /\ x \in Limiting!UnderWay' \ v5' => Limiting!UnderWay' = {x}
             /\ x \in Limiting!UnderWay' \ v5' /\ v2'[x] # "quota" /\ v1[x].resource # "" =>
                    v4'[Limiting!Quota(v1[x])] < QuotaLimit
  <2>1. x \in v6' => v2'[x] = "failed" BY <1>1, QuotaFacts
  <2>2. v2'[x] \in {"quota", "recording"} => v1[x].resource # "" BY <1>1, QuotaFacts
  <2>3. r \in Limiting!UnderWay <=> v2[r] \in Going BY DEF Limiting!UnderWay
  <2>4. ASSUME x \in Limiting!UnderWay' \ v5' PROVE Limiting!UnderWay' = {x}
    <3>1. CASE x \in Limiting!UnderWay \ v5
      <4>1. Limiting!UnderWay = {x} BY <3>1, QuotaFacts
      <4>. QED BY <1>1, <2>3, <2>4, <4>1
    <3>2. CASE x \notin Limiting!UnderWay
      <4>1. x = r /\ Limiting!UnderWay = {} BY <1>1, <2>3, <2>4, <3>2
      <4>. QED BY <1>1, <2>4, <4>1
    <3>. QED BY <2>4, <3>1, <3>2
  <2>5. ASSUME x \in Limiting!UnderWay' \ v5', v2'[x] # "quota", v1[x].resource # ""
        PROVE  v4'[Limiting!Quota(v1[x])] < QuotaLimit
    <3>1. CASE x = r
      <4>1. w = "operating" BY <1>1, <2>5, <3>1
      <4>. QED BY <2>5, <3>1, <4>1
    <3>2. CASE x # r
      <4>1. x \in Limiting!UnderWay \ v5 /\ v2'[x] = v2[x] BY <1>1, <2>5, <3>2
      <4>. QED BY <2>5, <4>1, QuotaFacts
    <3>. QED BY <3>1, <3>2
  <2>. QED BY <2>1, <2>2, <2>4, <2>5
<1>8. /\ v3' \in [Limiting!QuotaScopes -> Nat] /\ v6' \subseteq QuotaRequests
      /\ v4' \in [{Limiting!Quota(c) : c \in Uses} -> Nat]
  BY QuotaFacts
<1>. QED BY <1>1, <1>4, <1>5, <1>6, <1>7, <1>8, QuotaKept

LEMMA QuotaChecks ==
    ASSUME Limiting!QuotaInv, NEW r \in QuotaRequests,
           Limiting!CheckRate(r) \/ Limiting!CheckQuota(r)
    PROVE  Limiting!QuotaInv'
<1>1. CASE Limiting!CheckRate(r)
  <2>1. v2[r] = "idle" /\ UNCHANGED <<v1, v3, v4, v6>>
    BY <1>1 DEF Limiting!CheckRate
  <2>2. CASE v3[Limiting!CheckScope(v1[r])] >= RateLimit
    <3>1. v2' = [v2 EXCEPT ![r] = "denied"] /\ v5' = v5
      BY <1>1, <2>2 DEF Limiting!CheckRate, Limiting!Goto
    <3>. QED BY <2>1, <3>1, QuotaUnrecorded
  <2>3. CASE ~ (v3[Limiting!CheckScope(v1[r])] >= RateLimit)
    <3>. DEFINE w == IF v1[r].resource = "" THEN "operating" ELSE "quota"
    <3>1. /\ v2' = [v2 EXCEPT ![r] = w]
          /\ v5' = IF Limiting!UnderWay = {} THEN v5 ELSE v5 \cup {r} \cup Limiting!UnderWay
      BY <1>1, <2>3 DEF Limiting!CheckRate, Limiting!Goto
    <3>. QED BY <2>1, <3>1, QuotaUnrecorded
  <2>. QED BY <2>2, <2>3
<1>2. CASE Limiting!CheckQuota(r)
  <2>1. v2[r] = "quota" /\ UNCHANGED <<v1, v3, v4, v5, v6>>
    BY <1>2 DEF Limiting!CheckQuota
  <2>2. CASE v4[Limiting!Quota(v1[r])] < QuotaLimit
    <3>1. v2' = [v2 EXCEPT ![r] = "operating"]
      BY <1>2, <2>2 DEF Limiting!CheckQuota, Limiting!Goto, Limiting!WithinQuota
    <3>. QED BY <2>1, <2>2, <3>1, QuotaUnrecorded
  <2>3. CASE ~ (v4[Limiting!Quota(v1[r])] < QuotaLimit)
    <3>1. v2' = [v2 EXCEPT ![r] = "denied"]
      BY <1>2, <2>3 DEF Limiting!CheckQuota, Limiting!Goto, Limiting!WithinQuota
    <3>. QED BY <2>1, <3>1, QuotaUnrecorded
  <2>. QED BY <2>2, <2>3
<1>. QED BY <1>1, <1>2

\* The request that is counted is not counted yet.
LEMMA QuotaRecordsRate ==
    ASSUME Limiting!QuotaInv, NEW r \in QuotaRequests, Limiting!RecordRate(r)
    PROVE  Limiting!QuotaInv'
<1>. DEFINE s == Limiting!CheckScope(v1[r])
            w == IF v1[r].resource = "" THEN "done" ELSE "recording"
<1>1. v2[r] = "operating" /\ UNCHANGED <<v1, v4, v5, v6>> BY DEF Limiting!RecordRate
<1>2. CASE v2' = [v2 EXCEPT ![r] = "failed"] /\ v3' = v3
  BY <1>1, <1>2, QuotaUnrecorded
<1>3. CASE v3' = [v3 EXCEPT ![s] = @ + 1] /\ v2' = [v2 EXCEPT ![r] = w]
  <2>1. /\ \A x \in QuotaRequests : v2'[x] = IF x = r THEN w ELSE v2[x]
        /\ Limiting!UnderWay' = IF w = "recording" THEN Limiting!UnderWay \cup {r}
                                ELSE Limiting!UnderWay \ {r}
        /\ \A q : Limiting!Used(q)' = Limiting!Used(q)
        /\ v2' \in [QuotaRequests -> {"idle", "quota", "operating", "recording",
                                      "done", "failed", "denied"}]
    BY <1>1, <1>3, QuotaMoves
  <2>2. s \in Limiting!QuotaScopes BY QuotaFacts DEF Limiting!QuotaScopes
  <2>3. r \in Limiting!UnderWay BY <1>1 DEF Limiting!UnderWay
  <2>4. v3' \in [Limiting!QuotaScopes -> Nat]
    <3>1. v3 \in [Limiting!QuotaScopes -> Nat] BY QuotaFacts
    <3>. HIDE DEF s
    <3>2. v3[s] + 1 \in Nat BY <2>2, <3>1
    <3>. QED BY <1>3, <3>1, <3>2
  <2>5. ASSUME NEW t \in Limiting!QuotaScopes
        PROVE  v3'[t] = Limiting!Cardinality(Limiting!Counted(t)')
    <3>. DEFINE these == Limiting!Counted(t)
    <3>1. these \in SUBSET QuotaRequests BY DEF Limiting!Counted
    <3>2. IsFiniteSet(these) BY <3>1, FS_Subset, GuardsAssumption
    <3>3. CASE t = s
      <4>1. Limiting!Counted(t)' = these \cup {r}
        BY <1>1, <2>1, <3>3 DEF Limiting!Counted
      <4>2. r \notin v6 BY <1>1, QuotaFacts
      <4>3. r \notin these BY <1>1, <4>2 DEF Limiting!Counted
      <4>. HIDE DEF these
      <4>4. Cardinality(these \cup {r}) = Cardinality(these) + 1
        BY <3>2, <4>3, FS_AddElement
      <4>5. v3[t] = Cardinality(these) BY QuotaFacts DEF these
      <4>6. v3'[t] = v3[t] + 1 BY <1>3, <2>2, <3>3, QuotaFacts
      <4>. QED BY <4>1, <4>4, <4>5, <4>6, LimitingCardinality
    <3>4. CASE t # s
      <4>1. Limiting!Counted(t)' = these
        BY <1>1, <2>1, <3>4 DEF Limiting!Counted
      <4>2. v3'[t] = v3[t] BY <1>3, <2>2, <3>4, QuotaFacts
      <4>. QED BY <4>1, <4>2, QuotaFacts, LimitingCardinality
    <3>. QED BY <3>3, <3>4
  <2>6. ASSUME NEW x \in QuotaRequests
        PROVE  /\ x \in v6' => v2'[x] = "failed"
               /\ v2'[x] \in {"quota", "recording"} => v1[x].resource # ""
               /\ x \in Limiting!UnderWay' \ v5' => Limiting!UnderWay' = {x}
               /\ x \in Limiting!UnderWay' \ v5' /\ v2'[x] # "quota" /\ v1[x].resource # "" =>
                      v4'[Limiting!Quota(v1[x])] < QuotaLimit
    <3>1. x \in v6' => v2'[x] = "failed" BY <1>1, <2>1, QuotaFacts
    <3>2. v2'[x] \in {"quota", "recording"} => v1[x].resource # "" BY <2>1, QuotaFacts
    <3>3. ASSUME x \in Limiting!UnderWay' \ v5' PROVE Limiting!UnderWay' = {x}
      <4>1. x \in Limiting!UnderWay \ v5 BY <1>1, <2>1, <2>3, <3>3
      <4>2. Limiting!UnderWay = {x} BY <4>1, QuotaFacts
      <4>3. r = x BY <2>3, <4>2
      <4>4. Limiting!UnderWay' = {x} \cup {x} \/ Limiting!UnderWay' = {x} \ {x}
        BY <2>1, <4>2, <4>3
      <4>5. x \in Limiting!UnderWay' BY <3>3
      <4>. QED BY <4>4, <4>5
    <3>4. ASSUME x \in Limiting!UnderWay' \ v5', v2'[x] # "quota", v1[x].resource # ""
          PROVE  v4'[Limiting!Quota(v1[x])] < QuotaLimit
      <4>1. x \in Limiting!UnderWay \ v5 BY <1>1, <2>1, <2>3, <3>4
      <4>2. v2[x] # "quota" BY <1>1, <2>1, <3>4
      <4>. QED BY <1>1, <3>4, <4>1, <4>2, QuotaFacts
    <3>. QED BY <3>1, <3>2, <3>3, <3>4
  <2>7. \A q \in {Limiting!Quota(c) : c \in Uses} :
            /\ v4'[q] = Limiting!AmountOf(Limiting!Used(q)')
            /\ Limiting!Used(q)' \ v5' # {} =>
                   \E x \in Limiting!Used(q)' :
                       Limiting!AmountOf(Limiting!Used(q)' \ (v5' \cup {x})) < QuotaLimit
    BY <1>1, <2>1, QuotaFacts
  <2>8. /\ v4' \in [{Limiting!Quota(c) : c \in Uses} -> Nat]
        /\ v5' \subseteq QuotaRequests /\ v6' \subseteq QuotaRequests
    BY <1>1, QuotaFacts
  <2>. QED BY <1>1, <2>1, <2>4, <2>5, <2>6, <2>7, <2>8, QuotaKept
<1>4. \/ v2' = [v2 EXCEPT ![r] = "failed"] /\ v3' = v3
      \/ v3' = [v3 EXCEPT ![s] = @ + 1] /\ v2' = [v2 EXCEPT ![r] = w]
  BY DEF Limiting!RecordRate, Limiting!RecordScope, Limiting!Goto
<1>. QED BY <1>2, <1>3, <1>4

\* A request that uses the quota passes it alone, or was beside another.
LEMMA QuotaRecordsUse ==
    ASSUME Limiting!QuotaInv, NEW r \in QuotaRequests, Limiting!RecordQuota(r)
    PROVE  Limiting!QuotaInv'
<1>. DEFINE own == Limiting!Quota(v1[r])
            quotas == {Limiting!Quota(c) : c \in Uses}
<1>1. v2[r] = "recording" /\ UNCHANGED <<v1, v3, v5>> BY DEF Limiting!RecordQuota
<1>2. \/ v4' = [v4 EXCEPT ![own] = @ + v1[r].amount] /\ v2' = [v2 EXCEPT ![r] = "done"] /\ v6' = v6
      \/ v2' = [v2 EXCEPT ![r] = "failed"] /\ v6' = v6 \cup {r} /\ v4' = v4
  BY DEF Limiting!RecordQuota, Limiting!Goto
<1>3. PICK w \in {"done", "failed"} : v2' = [v2 EXCEPT ![r] = w] BY <1>2
<1>4. /\ \A x \in QuotaRequests : v2'[x] = IF x = r THEN w ELSE v2[x]
      /\ Limiting!UnderWay' = Limiting!UnderWay \ {r}
      /\ \A q : Limiting!Used(q)' =
             IF w = "done" /\ v1[r].resource # "" /\ own = q
             THEN Limiting!Used(q) \cup {r} ELSE Limiting!Used(q)
      /\ \A q : r \notin Limiting!Used(q)
      /\ v2' \in [QuotaRequests -> {"idle", "quota", "operating", "recording",
                                    "done", "failed", "denied"}]
  BY <1>1, <1>3, QuotaMoves
<1>5. r \in Limiting!UnderWay /\ v1[r].resource # "" /\ own \in quotas /\ v1[r].amount \in Nat
  BY <1>1, QuotaFacts, GuardsAssumption DEF Limiting!UnderWay
<1>6. v2'[r] = w BY <1>4
<1>7. \/ w = "done" /\ v4' = [v4 EXCEPT ![own] = @ + v1[r].amount] /\ v6' = v6
      \/ w = "failed" /\ v4' = v4 /\ v6' = v6 \cup {r}
  BY <1>2, <1>4, <1>6, QuotaFacts
<1>8. \A s : Limiting!Counted(s)' = Limiting!Counted(s)
  BY <1>1, <1>4, <1>7 DEF Limiting!Counted
<1>9. \A s \in Limiting!QuotaScopes : v3'[s] = Limiting!Cardinality(Limiting!Counted(s)')
  BY <1>1, <1>8, QuotaFacts, LimitingCardinality
<1>10. v4 \in [quotas -> Nat] BY QuotaFacts
<1>11. v4' \in [quotas -> Nat]
  <2>. HIDE DEF own, quotas
  <2>1. PICK more \in Nat : more = v1[r].amount BY <1>5
  <2>a. v4[own] \in Nat BY <1>5, <1>10
  <2>b. v4[own] + more \in Nat BY <2>a
  <2>c. v4[own] + v1[r].amount \in Nat BY <2>1, <2>b
  <2>. QED BY <1>5, <1>7, <1>10, <2>c
<1>12. v6' \subseteq QuotaRequests /\ v5' \subseteq QuotaRequests
       /\ v3' \in [Limiting!QuotaScopes -> Nat]
  BY <1>1, <1>7, QuotaFacts
<1>. HIDE DEF quotas, own
<1>13. ASSUME NEW q \in quotas
       PROVE  /\ v4'[q] = Limiting!AmountOf(Limiting!Used(q)')
              /\ Limiting!Used(q)' \ v5' # {} =>
                     \E x \in Limiting!Used(q)' :
                         Limiting!AmountOf(Limiting!Used(q)' \ (v5' \cup {x})) < QuotaLimit
  <2>1. /\ v4[q] = Limiting!AmountOf(Limiting!Used(q))
        /\ Limiting!Used(q) \ v5 # {} =>
               \E x \in Limiting!Used(q) :
                   Limiting!AmountOf(Limiting!Used(q) \ (v5 \cup {x})) < QuotaLimit
    BY QuotaFacts DEF quotas
  <2>2. CASE w = "done" /\ own = q
    <3>1. Limiting!Used(q)' = Limiting!Used(q) \cup {r} BY <1>4, <1>5, <2>2
    <3>2. Limiting!Used(q) \in SUBSET QuotaRequests BY DEF Limiting!Used
    <3>3. v1 \in [QuotaRequests -> Uses] BY QuotaFacts
    <3>4. v4'[q] = v4[q] + v1[r].amount BY <1>7, <1>10, <2>2
    <3>5. r \notin Limiting!Used(q) BY <1>4
    <3>6. Limiting!AmountOf(Limiting!Used(q) \cup {r}) =
              Limiting!AmountOf(Limiting!Used(q)) + v1[r].amount
      BY <3>2, <3>3, <3>5, AmountAdds
    <3>7. CASE r \in v5
      <4>1. /\ Limiting!Used(q)' \ v5' = Limiting!Used(q) \ v5
            /\ \A x : Limiting!Used(q)' \ (v5' \cup {x}) = Limiting!Used(q) \ (v5 \cup {x})
        BY <1>1, <3>1, <3>7
      <4>. QED BY <2>1, <3>1, <3>4, <3>6, <4>1
    <3>8. CASE r \notin v5
      <4>1. v4[q] < QuotaLimit BY <1>1, <1>5, <2>2, <3>8, QuotaFacts DEF own
      <4>2. Limiting!Used(q)' \ (v5' \cup {r}) \in SUBSET Limiting!Used(q)
        BY <1>1, <3>1
      <4>3. Limiting!AmountOf(Limiting!Used(q)' \ (v5' \cup {r})) <=
                Limiting!AmountOf(Limiting!Used(q))
        BY <3>2, <3>3, <4>2, AmountGrows
      <4>4. Limiting!Used(q)' \ (v5' \cup {r}) \in SUBSET QuotaRequests BY <3>2, <4>2
      <4>5. Limiting!AmountOf(Limiting!Used(q)' \ (v5' \cup {r})) \in Nat
            /\ Limiting!AmountOf(Limiting!Used(q)) \in Nat
        BY <3>2, <3>3, <4>4, AmountIsNumber
      <4>6. QuotaLimit \in Nat BY GuardsAssumption
      <4>7. Limiting!AmountOf(Limiting!Used(q)' \ (v5' \cup {r})) < QuotaLimit
        BY <2>1, <4>1, <4>3, <4>5, <4>6
      <4>. QED BY <2>1, <3>1, <3>4, <3>6, <4>7
    <3>. QED BY <3>7, <3>8
  <2>3. CASE w # "done" \/ own # q
    <3>1. Limiting!Used(q)' = Limiting!Used(q) BY <1>4, <2>3
    <3>2. v4'[q] = v4[q] BY <1>7, <1>10, <2>3
    <3>. QED BY <1>1, <2>1, <3>1, <3>2
  <2>. QED BY <2>2, <2>3
<1>14. ASSUME NEW x \in QuotaRequests
       PROVE  /\ x \in v6' => v2'[x] = "failed"
              /\ v2'[x] \in {"quota", "recording"} => v1[x].resource # ""
              /\ x \in Limiting!UnderWay' \ v5' => Limiting!UnderWay' = {x}
              /\ x \in Limiting!UnderWay' \ v5' /\ v2'[x] # "quota" /\ v1[x].resource # "" =>
                     v4'[Limiting!Quota(v1[x])] < QuotaLimit
  <2>1. x \in v6' => v2'[x] = "failed" BY <1>1, <1>4, <1>7, QuotaFacts
  <2>2. v2'[x] \in {"quota", "recording"} => v1[x].resource # "" BY <1>4, QuotaFacts
  <2>3. x \notin Limiting!UnderWay' \ v5'
    <3>1. SUFFICES ASSUME x \in Limiting!UnderWay' \ v5' PROVE FALSE OBVIOUS
    <3>2. x \in Limiting!UnderWay \ v5 /\ x # r BY <1>1, <1>4, <3>1
    <3>3. Limiting!UnderWay = {x} BY <3>2, QuotaFacts
    <3>. QED BY <1>5, <3>2, <3>3
  <2>. QED BY <2>1, <2>2, <2>3
<1>. QED BY <1>1, <1>4, <1>9, <1>11, <1>12, <1>13, <1>14, QuotaKept DEF quotas

LEMMA QuotaKeeps == ASSUME Limiting!QuotaInv, Limiting!QuotaNext PROVE Limiting!QuotaInv'
BY QuotaChecks, QuotaRecordsRate, QuotaRecordsUse DEF Limiting!QuotaNext

LEMMA QuotaStays ==
    ASSUME Limiting!QuotaInv, UNCHANGED <<v1, v2, v3, v4, v5, v6>> PROVE Limiting!QuotaInv'
<1>1. \A q : Limiting!Used(q)' = Limiting!Used(q) BY DEF Limiting!Used
<1>2. \A s : Limiting!Counted(s)' = Limiting!Counted(s) BY DEF Limiting!Counted
<1>3. Limiting!UnderWay' = Limiting!UnderWay BY DEF Limiting!UnderWay
<1>4. \A s \in Limiting!QuotaScopes : v3[s] = Limiting!Cardinality(Limiting!Counted(s))
  BY QuotaFacts, LimitingCardinality
<1>. QED BY <1>1, <1>2, <1>3, <1>4, QuotaFacts, QuotaKept

-----------------------------------------------------------------------------
(***************************************************************************)
(* All of them.                                                            *)
(***************************************************************************)
GuardsInv ==
    /\ part = "endpoint" => Endpoint!AdmissionInv /\ Endpoint!KeyInv
    /\ part = "sessions" => Session!SessionInv /\ Session!EndedInv /\ Session!RefreshInv
    /\ part = "limits" => Limiting!RateInv /\ Limiting!ResetInv
    /\ part = "quotas" => Limiting!QuotaInv
    /\ part = "migrations" => Stored!MigrationInv /\ Stored!MadeInv
    /\ part = "schema" => Stored!SchemaInv /\ Stored!VersionsInv /\ Stored!ChainInv
    /\ part = "pool" => Stored!PoolInv
    /\ part = "queries" => Found!QueryInv

LEMMA GuardsStart == Init => GuardsInv
BY AdmissionStart, KeyStart, SessionStart, EndedStart, RefreshStart, RateStart, ResetStart, QuotaStart,
   MigrationStart, MadeStart, SchemaStart, VersionsStart, ChainStart, PoolStart, QueryStart
DEF Init, GuardsInv

\* A step of a part is one of that part.
LEMMA PartsMove ==
    ASSUME Next
    PROVE  /\ part' = part
           /\ part = "endpoint" => Endpoint!Next
           /\ part = "sessions" => Session!Next
           /\ part = "limits" => Limiting!RateNext
           /\ part = "quotas" => Limiting!QuotaNext
           /\ part = "migrations" => Stored!MigrationNext
           /\ part = "schema" => Stored!SchemaNext
           /\ part = "pool" => Stored!PoolNext
           /\ part = "queries" => Found!QueryNext
BY DEF Next

LEMMA SessionsStay ==
    ASSUME Session!SessionInv, Session!EndedInv, Session!RefreshInv,
           UNCHANGED <<v1, v2, v3, v4, v5, v6, v7, v8>>
    PROVE  Session!SessionInv' /\ Session!EndedInv' /\ Session!RefreshInv'
<1>1. Session!SessionInv' BY DEF Session!SessionInv
<1>2. Session!EndedInv' BY DEF Session!EndedInv
<1>3. Session!RefreshInv' BY DEF Session!RefreshInv
<1>. QED BY <1>1, <1>2, <1>3

LEMMA ResetStays ==
    ASSUME Limiting!ResetInv, UNCHANGED <<v1, v2, v3, v4, v5, v6>> PROVE Limiting!ResetInv'
BY DEF Limiting!ResetInv, Limiting!ResetReachesAll

LEMMA MigrationsStay ==
    ASSUME Stored!MigrationInv, Stored!MadeInv, UNCHANGED <<v1, v2, v3, v4, v5, v6, v7, v8, v9, v10>>
    PROVE  Stored!MigrationInv' /\ Stored!MadeInv'
<1>1. Stored!MigrationInv' BY DEF Stored!MigrationInv
<1>. DEFINE R == Stored!Run(Stored!MIGRATIONS)
            Makes(i) == Stored!MIGRATIONS[i].makes
<1>2. Stored!MadeInv'
  <2>1. Stored!MIGRATIONS' = Stored!MIGRATIONS BY DEF Stored!MIGRATIONS
  <2>2. R' = R /\ \A i : Makes(i)' = Makes(i) BY <2>1 DEF Stored!Run
  <2>3. /\ \A p \in Procs : v7[p] = "apply" /\ v9[p] => \A i \in R : i < v8[p] => Makes(i) \in v3
        /\ \A row \in v6 : row.whole => \A i \in R : Makes(i) \in v3
    BY DEF Stored!MadeInv, Stored!MarkedIsMade
  <2>. HIDE DEF R, Makes
  <2>4. /\ \A p \in Procs : v7'[p] = "apply" /\ v9'[p] => \A i \in R' : i < v8'[p] => Makes(i)' \in v3'
        /\ \A row \in v6' : row.whole => \A i \in R' : Makes(i)' \in v3'
    BY <2>2, <2>3
  <2>. QED BY <2>4 DEF Stored!MadeInv, Stored!MarkedIsMade, R, Makes
<1>. QED BY <1>1, <1>2

LEMMA TransactionsStay ==
    ASSUME Stored!SchemaInv, Stored!VersionsInv, Stored!ChainInv, UNCHANGED <<v1, v2, v3, v4, v5>>
    PROVE  Stored!SchemaInv' /\ Stored!VersionsInv' /\ Stored!ChainInv'
<1>1. Stored!SchemaInv' BY DEF Stored!SchemaInv
<1>2. Stored!VersionsInv' BY DEF Stored!VersionsInv, Stored!Seen
<1>3. Stored!ChainInv'
  <2>1. Held' = Held BY DEF Held
  <2>2. /\ \A c \in Clients : Cleared(v4[c])
        /\ Numbered(Held, v3)
        /\ ~v5 => /\ Stored!Chained(v2)
                  /\ \A c \in Clients : Opened(v4[c]) =>
                         /\ \A d \in Clients : Opened(v4[d]) => d = c
                         /\ Links(v4[c], v2 \cup v4[c].rows)
    BY ChainParts
  <2>. QED BY <2>1, <2>2, ChainPrimed
<1>. QED BY <1>1, <1>2, <1>3

LEMMA PartsStay ==
    ASSUME UNCHANGED vars, GuardsInv
    PROVE  GuardsInv'
<1>1. UNCHANGED <<part, v1, v2, v3, v4, v5, v6, v7, v8, v9, v10>> BY DEF vars
<1>2. part = "migrations" => Stored!MigrationInv' /\ Stored!MadeInv'
  BY <1>1, MigrationsStay DEF GuardsInv
<1>3. part = "queries" => Found!QueryInv' BY <1>1 DEF GuardsInv, Found!QueryInv
<1>4. part = "schema" => Stored!SchemaInv' /\ Stored!VersionsInv' /\ Stored!ChainInv'
  BY <1>1, TransactionsStay DEF GuardsInv
<1>5. part = "sessions" => Session!SessionInv' /\ Session!EndedInv' /\ Session!RefreshInv'
  BY <1>1, SessionsStay DEF GuardsInv
<1>6. part = "endpoint" => Endpoint!AdmissionInv' /\ Endpoint!KeyInv'
  BY <1>1, AdmissionStays, KeyStays DEF GuardsInv
<1>7. part = "limits" => Limiting!RateInv' /\ Limiting!ResetInv'
  BY <1>1, RateStays, ResetStays DEF GuardsInv
<1>8. part = "quotas" => Limiting!QuotaInv' BY <1>1, QuotaStays DEF GuardsInv
<1>9. part = "pool" => Stored!PoolInv' BY <1>1, PoolStays DEF GuardsInv
<1>. QED BY <1>1, <1>2, <1>3, <1>4, <1>5, <1>6, <1>7, <1>8, <1>9 DEF GuardsInv

LEMMA GuardsKept == GuardsInv /\ [Next]_vars => GuardsInv'
<1>1. ASSUME GuardsInv, Next PROVE GuardsInv'
  <2>1. part = "endpoint" => Endpoint!AdmissionInv' /\ Endpoint!KeyInv'
    BY <1>1, PartsMove, AdmissionKeeps, KeyKeeps DEF GuardsInv
  <2>2. part = "sessions" => Session!SessionInv' /\ Session!EndedInv' /\ Session!RefreshInv'
    BY <1>1, PartsMove, SessionKeeps, EndedKeeps, RefreshKeeps DEF GuardsInv
  <2>3. part = "limits" => Limiting!RateInv' /\ Limiting!ResetInv'
    BY <1>1, PartsMove, RateKeeps, ResetKeeps DEF GuardsInv
  <2>4. part = "migrations" => Stored!MigrationInv' /\ Stored!MadeInv'
    BY <1>1, PartsMove, MigrationKeeps, MadeKeeps DEF GuardsInv
  <2>5. part = "schema" => Stored!SchemaInv' /\ Stored!VersionsInv' /\ Stored!ChainInv'
    BY <1>1, PartsMove, SchemaKeeps, VersionsKeep, ChainKeeps DEF GuardsInv
  <2>6. /\ part = "quotas" => Limiting!QuotaInv'
        /\ part = "pool" => Stored!PoolInv'
        /\ part = "queries" => Found!QueryInv'
    BY <1>1, PartsMove, QuotaKeeps, PoolKeeps, QueryKeeps DEF GuardsInv
  <2>. QED BY <1>1, <2>1, <2>2, <2>3, <2>4, <2>5, <2>6, PartsMove DEF GuardsInv
<1>. QED BY <1>1, PartsStay

\* What the properties of the parts rest on holds throughout.
THEOREM Invariance == Spec => []GuardsInv
BY GuardsStart, GuardsKept, PTL DEF Spec

(***************************************************************************)
(* No more requests are let into a window, no token admits longer, no      *)
(* quota is used and no actor admitted further than was said, but for what *)
(* was given back late or checked beside another: the limit of             *)
(* src/antenna/server.ts, src/core/security/authentication.ts, and the     *)
(* limiter and quotas of src/core/operational, for any requests, limits    *)
(* and uses.                                                               *)
(***************************************************************************)
THEOREM AdmittedHolds == Spec => []AdmittedWithinLimit
<1>1. ASSUME GuardsInv PROVE AdmittedWithinLimit
  <2>1. Limiting!RateInv => Limiting!ActorWithinLimit BY DEF Limiting!RateInv
  <2>. QED BY <1>1, <2>1, AdmissionHolds, TokensLastAsTold, LimitedAsMeant, QuotaHolds
           DEF GuardsInv, AdmittedWithinLimit
<1>. QED BY <1>1, Invariance, PTL

(***************************************************************************)
(* What is told holds, wherever it is not found by a search or built as a  *)
(* query: a migration that counts as applied has made all it runs          *)
(* (src/core/db/migrations.ts); a schema found valid was there, no pool    *)
(* but the global one is left, and who asks is served by the database he   *)
(* asked for (src/core/db/connection.ts and validators.ts); the rows of    *)
(* the ledger have all their versions and, apart, are one chain, which is  *)
(* when they verify (src/core/store/postgres-schema.sql); a key is revoked *)
(* once and listed so (src/antenna/server.ts), a session stays revoked and *)
(* a token gives one pair (src/core/security/authentication.ts); and a     *)
(* reset reaches all counters (src/core/operational/rate-limiter.ts).      *)
(***************************************************************************)
THEOREM ToldIsSo == Spec => [](part \notin {"search", "queries"} => ToldHolds)
<1>1. ASSUME GuardsInv, part \notin {"search", "queries"} PROVE ToldHolds
  <2>1. part = "migrations" => Stored!MarkedIsMade BY <1>1 DEF GuardsInv, Stored!MadeInv
  <2>2. part = "schema" => Stored!ChainHoldsApart /\ Stored!VersionsAreSequential
    BY <1>1, ChainHolds, VersionsHold DEF GuardsInv
  <2>3. part = "pool" => Stored!ValidWasThere /\ Stored!NoPoolLeaks /\ Stored!AskedIsServed
    BY <1>1, PoolHolds DEF GuardsInv
  <2>4. part = "endpoint" => Endpoint!RevokedOnce /\ Endpoint!RevokedIsListed
    BY <1>1, RevokedHolds DEF GuardsInv
  <2>5. part = "sessions" => Session!RefreshedOnce /\ Session!RevocationHolds
    BY <1>1, SessionsHold DEF GuardsInv
  <2>6. part = "limits" => Limiting!ResetReachesAll BY <1>1 DEF GuardsInv, Limiting!ResetInv
  <2>. QED BY <1>1, <2>1, <2>2, <2>3, <2>4, <2>5, <2>6 DEF ToldHolds
<1>. QED BY <1>1, Invariance, PTL

(***************************************************************************)
(* A reset that was not forced costs no event that was there when it was   *)
(* started, no statement changes or takes away a row of the ledger or what *)
(* was there at a time that is over, and a query that was built keeps its  *)
(* conditions: src/cli/db-reset.ts, src/core/store/postgres-schema.sql and *)
(* src/core/api/query-language.ts, for any processes, transactions and     *)
(* builders.                                                               *)
(***************************************************************************)
THEOREM NothingOldIsLost == Spec => UnforcedLosesNothingOld
<1>1. ASSUME GuardsInv, Next
      PROVE  /\ part = "migrations" => Stored!LosesNothingOld
             /\ part = "schema" => Stored!CommittedStays
             /\ part = "queries" => Found!NarrowsOnly
  BY <1>1, PartsMove, MigrationLoses, SchemaStays, QueryKeeps DEF GuardsInv
<1>2. GuardsInv /\ [Next]_vars =>
          [/\ part = "migrations" => Stored!LosesNothingOld
           /\ part = "schema" => Stored!CommittedStays
           /\ part = "queries" => Found!NarrowsOnly]_vars
  BY <1>1
<1>. QED BY <1>2, Invariance, PTL DEF Spec, UnforcedLosesNothingOld
=============================================================================
