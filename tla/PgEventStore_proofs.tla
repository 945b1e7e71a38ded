------------------------- MODULE PgEventStore_proofs -------------------------
(***************************************************************************)
(* Proofs about the PostgreSQL event store, for every set of aggregates,   *)
(* requests, appends in flight and pollers, every digest and every bound.  *)
(***************************************************************************)
EXTENDS PgEventStore, SequenceTheorems, FiniteSetTheorems,
        WellFoundedInduction, TLAPS

\* An append that has read the highest number read one the table still has.
\* Rows are never deleted, so the number it will try is at most one too high.
NumberedWithinTable ==
    \A w \in Appenders :
        appends[w].phase = "numbered" => appends[w].current \in 0 .. Len(table)

\* An append past the version check has every smaller version of its
\* aggregate in the table, and nothing takes them away again.
CheckedFollows ==
    \A w \in Appenders :
        appends[w].phase \in {"checked", "linked", "numbered"} =>
            \A u \in 1 .. (appends[w].request.version - 1) :
                \E r \in RowsOf(appends[w].request.aggregate) : table[r].version = u

\* The inductive invariant: VersionsSequential alone says nothing of the
\* appends in flight; what they have read must still be good when they insert.
IInv ==
    /\ TypeOK
    /\ NumberedWithinTable
    /\ CheckedFollows
    /\ VersionsSequential

-----------------------------------------------------------------------------
LEMMA TableFacts ==
    ASSUME PgAssumption, TypeOK
    PROVE  /\ table \in Seq(Row) /\ Len(table) \in 0 .. MaxEvents
           /\ DOMAIN table = 1 .. Len(table)
           /\ \A s \in DOMAIN table : table[s] \in Row
<1>1. PICK n \in 0 .. MaxEvents : table \in [1 .. n -> Row]
  BY DEF TypeOK
<1>2. n \in Nat
  BY DEF PgAssumption
<1>3. table \in Seq(Row) /\ Len(table) = n
  BY <1>1, <1>2
<1>4. QED BY <1>1, <1>3

LEMMA NoAppendType == PgAssumption => NoAppend \in AppendState
<1> SUFFICES ASSUME PgAssumption PROVE NoAppend \in AppendState
  OBVIOUS
<1>1. (CHOOSE r \in Requests : TRUE) \in Requests
  BY DEF PgAssumption
<1>2. QED BY <1>1 DEF NoAppend, AppendState, Phases, PgAssumption

\* Append, spelled out.
LEMMA AppendDef ==
    ASSUME NEW S, NEW q \in Seq(S), NEW x \in S
    PROVE  Append(q, x) = [i \in 1 .. (Len(q) + 1) |->
                              IF i = Len(q) + 1 THEN x ELSE q[i]]
<1> DEFINE p == Append(q, x)
           f == [i \in 1 .. (Len(q) + 1) |-> IF i = Len(q) + 1 THEN x ELSE q[i]]
<1>1. /\ p \in Seq(S) /\ Len(p) = Len(q) + 1 /\ Len(q) \in Nat
      /\ \A i \in 1 .. Len(q) : p[i] = q[i]
      /\ p[Len(q) + 1] = x
  BY AppendProperties
<1>2. \A i \in 1 .. (Len(q) + 1) : q[i] \in S \/ i = Len(q) + 1
  OBVIOUS
<1>3. f \in Seq(S) /\ Len(f) = Len(q) + 1
  BY <1>1, <1>2
<1>4. \A i \in 1 .. (Len(q) + 1) : p[i] = f[i]
  BY <1>1
<1> HIDE DEF p, f
<1>5. p = f
  BY <1>1, <1>3, <1>4, SeqEqual
<1>6. QED BY <1>5 DEF p, f

\* What is stored of an actor is an actor.
LEMMA StoredActorType ==
    ASSUME PgAssumption, NEW actor \in Actors PROVE StoredActor(actor) \in Actors
BY DEF StoredActor, PgAssumption

LEMMA InitIInv == PgAssumption /\ Init => IInv
<1> SUFFICES ASSUME PgAssumption, Init PROVE IInv
  OBVIOUS
<1>1. TypeOK
  <2>1. NotPolling \in PollerState
    BY DEF NotPolling, PollerState
  <2>2. << >> \in [1 .. 0 -> Row] /\ 0 \in 0 .. MaxEvents
    BY DEF PgAssumption
  <2>3. QED BY <2>1, <2>2, NoAppendType DEF Init, TypeOK
<1>2. NumberedWithinTable /\ CheckedFollows
  BY DEF Init, NumberedWithinTable, CheckedFollows, NoAppend
<1>3. VersionsSequential
  BY DEF Init, VersionsSequential
<1>4. QED BY <1>1, <1>2, <1>3 DEF IInv

-----------------------------------------------------------------------------
\* A step of one append that leaves the table alone keeps the invariant if
\* the new local state is good.
LEMMA LocalStep ==
    ASSUME PgAssumption, IInv, NEW w \in Appenders, NEW new \in AppendState,
           UNCHANGED <<table, pollers>>,
           appends' = [appends EXCEPT ![w] = new],
           new.phase = "numbered" => new.current \in 0 .. Len(table),
           new.phase \in {"checked", "linked", "numbered"} =>
               \A u \in 1 .. (new.request.version - 1) :
                   \E r \in RowsOf(new.request.aggregate) : table[r].version = u
    PROVE  IInv'
<1>1. \A x \in Appenders : appends'[x] = IF x = w THEN new ELSE appends[x]
  BY DEF IInv, TypeOK
<1>2. TypeOK'
  BY DEF IInv, TypeOK
<1>3. NumberedWithinTable'
  BY <1>1 DEF IInv, NumberedWithinTable
<1>4. \A a : RowsOf(a)' = RowsOf(a)
  BY DEF RowsOf
<1>5. CheckedFollows'
  BY <1>1, <1>4 DEF IInv, CheckedFollows
<1>6. VersionsSequential'
  BY <1>4 DEF IInv, VersionsSequential
<1>7. QED BY <1>2, <1>3, <1>5, <1>6 DEF IInv

LEMMA CallIInv ==
    ASSUME PgAssumption, IInv, NEW w \in Appenders, NEW r \in Requests, Call(w, r)
    PROVE  IInv'
<1> DEFINE new == [NoAppend EXCEPT !.phase = "called", !.request = r]
<1>1. new \in AppendState /\ new.phase = "called"
  BY NoAppendType DEF AppendState, Phases
<1>2. appends' = [appends EXCEPT ![w] = new] /\ UNCHANGED <<table, pollers>>
  BY DEF Call
<1> HIDE DEF new
<1>3. QED BY <1>1, <1>2, LocalStep

\* The version check finds every smaller version, because it finds the one
\* just below and the versions in the table have no gap.
LEMMA CheckIInv ==
    ASSUME PgAssumption, IInv, NEW w \in Appenders, CheckAggregateVersion(w)
    PROVE  IInv'
<1> DEFINE r == appends[w].request
           new == [appends[w] EXCEPT !.phase =
                     IF IsExpectedVersion(r.aggregate, r.version)
                     THEN "checked" ELSE "conflict"]
<1>1. appends[w] \in AppendState /\ r \in Requests /\ r \in Request
  BY DEF IInv, TypeOK, AppendState, PgAssumption
<1>2. new \in AppendState /\ new.request = r
      /\ new.phase = IF IsExpectedVersion(r.aggregate, r.version)
                     THEN "checked" ELSE "conflict"
  BY <1>1 DEF AppendState, Phases
<1>3. appends' = [appends EXCEPT ![w] = new] /\ UNCHANGED <<table, pollers>>
  BY DEF CheckAggregateVersion, IInv, TypeOK
<1>4. ASSUME IsExpectedVersion(r.aggregate, r.version)
      PROVE  \A u \in 1 .. (r.version - 1) :
                 \E s \in RowsOf(r.aggregate) : table[s].version = u
  <2> SUFFICES ASSUME NEW u \in 1 .. (r.version - 1)
               PROVE  \E s \in RowsOf(r.aggregate) : table[s].version = u
    OBVIOUS
  <2>1. r.version \in Nat /\ r.version # 1
    <3> DEFINE v == r.version
    <3>1. v \in Nat
      BY <1>1 DEF Request, PgAssumption
    <3> HIDE DEF v
    <3>2. v # 1
      BY <3>1 DEF v
    <3>3. QED BY <3>1, <3>2 DEF v
  <2>2. PICK s \in RowsOf(r.aggregate) : table[s].version = r.version - 1
    BY <1>4, <2>1 DEF IsExpectedVersion
  <2>3. s \in DOMAIN table /\ table[s].aggregate = r.aggregate
    BY DEF RowsOf
  <2>4. CASE u = r.version - 1
    BY <2>2, <2>4
  <2>5. CASE u # r.version - 1
    <3>1. u \in 1 .. (table[s].version - 1)
      BY <2>1, <2>2, <2>5
    <3>2. QED BY <2>3, <3>1 DEF IInv, VersionsSequential
  <2>6. QED BY <2>4, <2>5
<1> HIDE DEF new
<1>5. QED BY <1>2, <1>3, <1>4, LocalStep

LEMMA HashIInv ==
    ASSUME PgAssumption, IInv, NEW w \in Appenders, GetPreviousHash(w)
    PROVE  IInv'
<1>1. PICK h \in Hashes :
        appends' = [appends EXCEPT ![w].phase = "linked", ![w].previousHash = h]
  BY DEF GetPreviousHash
<1> DEFINE new == [appends[w] EXCEPT !.phase = "linked", !.previousHash = h]
<1>2. appends[w] \in AppendState /\ appends[w].phase = "checked"
  BY DEF IInv, TypeOK, GetPreviousHash
<1>3. new \in AppendState /\ new.phase = "linked"
      /\ new.request = appends[w].request
  BY <1>2 DEF AppendState, Phases
<1>4. appends' = [appends EXCEPT ![w] = new] /\ UNCHANGED <<table, pollers>>
  BY <1>1 DEF GetPreviousHash, IInv, TypeOK
<1>5. \A u \in 1 .. (new.request.version - 1) :
          \E s \in RowsOf(new.request.aggregate) : table[s].version = u
  BY <1>2, <1>3 DEF IInv, CheckedFollows
<1> HIDE DEF new
<1>6. QED BY <1>3, <1>4, <1>5, LocalStep

LEMMA NumberIInv ==
    ASSUME PgAssumption, IInv, NEW w \in Appenders, GetCurrentSequence(w)
    PROVE  IInv'
<1>1. PICK n \in 0 .. MaxEvents :
        /\ IsMaxSequence(n)
        /\ appends' = [appends EXCEPT ![w].phase = "numbered", ![w].current = n]
  BY DEF GetCurrentSequence
<1> DEFINE new == [appends[w] EXCEPT !.phase = "numbered", !.current = n]
<1>2. appends[w] \in AppendState /\ appends[w].phase = "linked" /\ n \in Nat
  BY DEF IInv, TypeOK, GetCurrentSequence, PgAssumption
<1>3. new \in AppendState /\ new.phase = "numbered" /\ new.current = n
      /\ new.request = appends[w].request
  BY <1>2 DEF AppendState, Phases
<1>4. appends' = [appends EXCEPT ![w] = new] /\ UNCHANGED <<table, pollers>>
  BY <1>1 DEF GetCurrentSequence, IInv, TypeOK
<1>5. \A u \in 1 .. (new.request.version - 1) :
          \E s \in RowsOf(new.request.aggregate) : table[s].version = u
  BY <1>2, <1>3 DEF IInv, CheckedFollows
<1>6. n \in 0 .. Len(table)
  BY <1>1, <1>2, TableFacts DEF IInv, IsMaxSequence
<1> HIDE DEF new
<1>7. QED BY <1>3, <1>4, <1>5, <1>6, LocalStep

LEMMA FinishIInv ==
    ASSUME PgAssumption, IInv, NEW w \in Appenders, Finish(w)
    PROVE  IInv'
<1>1. NoAppend \in AppendState /\ NoAppend.phase = "idle"
  BY NoAppendType DEF NoAppend
<1>2. appends' = [appends EXCEPT ![w] = NoAppend] /\ UNCHANGED <<table, pollers>>
  BY DEF Finish
<1>3. QED BY <1>1, <1>2, LocalStep

-----------------------------------------------------------------------------
\* In the table t, aggregate a has every version below v.
HasBelow(t, a, v) ==
    \A u \in 1 .. (v - 1) :
        \E s \in DOMAIN t : t[s].aggregate = a /\ t[s].version = u

\* VersionsSequential, of any table.
SequentialLog(t) ==
    \A s \in DOMAIN t :
        /\ \A q \in DOMAIN t :
              t[q].aggregate = t[s].aggregate =>
                  (q < s <=> t[q].version < t[s].version)
        /\ HasBelow(t, t[s].aggregate, t[s].version)

\* A row that carries the next version of its aggregate may be added.
LEMMA SequentialExtends ==
    ASSUME PgAssumption,
           NEW t \in Seq(Row), SequentialLog(t), NEW row \in Row,
           HasBelow(t, row.aggregate, row.version),
           \A s \in DOMAIN t : t[s].aggregate = row.aggregate =>
                                   t[s].version < row.version
    PROVE  SequentialLog(Append(t, row))
<1> DEFINE f == Append(t, row)
           n == Len(t) + 1
<1>1. /\ Len(t) \in Nat /\ DOMAIN t = 1 .. Len(t) /\ DOMAIN f = 1 .. n
      /\ \A s \in DOMAIN t : s \in DOMAIN f /\ f[s] = t[s] /\ s < n /\ ~(n < s)
      /\ f[n] = row
      /\ \A s \in DOMAIN f : s \in DOMAIN t \/ s = n
  BY AppendProperties
<1>2. \A s \in DOMAIN t : t[s].version \in Nat
  <2>1. \A s \in DOMAIN t : t[s] \in Row
    OBVIOUS
  <2>2. QED BY <2>1 DEF Row, PgAssumption
<1>3. row.version \in Nat
  BY DEF Row, PgAssumption
<1> HIDE DEF f
<1>4. ASSUME NEW a, NEW v, HasBelow(t, a, v) PROVE HasBelow(f, a, v)
  BY <1>1, <1>4 DEF HasBelow
<1>5. ASSUME NEW s \in DOMAIN f PROVE HasBelow(f, f[s].aggregate, f[s].version)
  BY <1>1, <1>4 DEF SequentialLog
<1>6. ASSUME NEW s \in DOMAIN f, NEW q \in DOMAIN f,
             f[q].aggregate = f[s].aggregate
      PROVE  q < s <=> f[q].version < f[s].version
  <2>1. CASE s \in DOMAIN t /\ q \in DOMAIN t
    BY <1>1, <1>6, <2>1 DEF SequentialLog
  <2>2. CASE s \in DOMAIN t /\ q = n
    <3>1. f[s].version < row.version /\ f[q] = row /\ ~(q < s)
      BY <1>1, <1>6, <2>2
    <3>2. f[s].version \in Nat
      BY <1>1, <1>2, <2>2
    <3>3. QED BY <1>3, <3>1, <3>2
  <2>3. CASE s = n /\ q \in DOMAIN t
    BY <1>1, <1>6, <2>3
  <2>4. CASE s = n /\ q = n
    BY <1>1, <1>3, <2>4
  <2>5. QED BY <1>1, <2>1, <2>2, <2>3, <2>4
<1>7. SequentialLog(f)
  BY <1>5, <1>6 DEF SequentialLog
<1>8. QED BY <1>7 DEF f

-----------------------------------------------------------------------------
\* What an INSERT that succeeds does: the row goes to the end of the table,
\* and its version is the next one of its aggregate.
LEMMA InsertFacts ==
    ASSUME PgAssumption, IInv, NEW w \in Appenders, Insert(w),
           appends'[w].phase = "stored"
    PROVE  LET r == appends[w].request IN
           /\ appends[w].phase = "numbered" /\ appends[w].current + 1 <= MaxEvents
           /\ appends[w].current + 1 = Len(table) + 1
           /\ table' = Append(table, NewRow(w))
           /\ NewRow(w) \in Row
           /\ NewRow(w).aggregate = r.aggregate
           /\ NewRow(w).version = r.version
           /\ NewRow(w).type = r.type
           /\ \A u \in 1 .. (r.version - 1) :
                  \E s \in RowsOf(r.aggregate) : table[s].version = u
           /\ \A s \in RowsOf(r.aggregate) : table[s].version < r.version
<1> DEFINE r == appends[w].request
           n == appends[w].current + 1
<1>1. /\ appends[w] \in AppendState /\ r \in Requests /\ r \in Request
      /\ r.version \in Nat \ {0}
  BY DEF IInv, TypeOK, AppendState, PgAssumption, Request
<1>2. /\ appends[w].phase = "numbered" /\ n <= MaxEvents
      /\ SequenceFree(n) /\ VersionFree(r.aggregate, r.version)
      /\ table' = [s \in DOMAIN table \cup {n} |->
                      IF s = n THEN NewRow(w) ELSE table[s]]
  BY <1>1 DEF Insert, IInv, TypeOK, AppendState
<1>3. n = Len(table) + 1
  <2>1. appends[w].current \in 0 .. Len(table)
    BY <1>2 DEF IInv, NumberedWithinTable
  <2>2. n \notin 1 .. Len(table)
    BY <1>2, TableFacts DEF SequenceFree, IInv
  <2>3. QED BY <2>1, <2>2, TableFacts DEF IInv
<1>4. NewRow(w) \in Row
  <2> DEFINE body == [sequence |-> n, aggregate |-> r.aggregate,
                 version |-> r.version, type |-> r.type,
                 payload |-> r.payload, actor |-> r.actor,
                 causation |-> r.causation,
                 previousHash |-> appends[w].previousHash]
  <2>1. n \in 1 .. MaxEvents
    BY <1>1, <1>2 DEF AppendState, PgAssumption
  <2>2. appends[w].previousHash \in Hashes
    BY <1>1 DEF AppendState
  <2>3. body \in Body
    BY <1>1, <2>1, <2>2 DEF Body, Request
  <2>4. Digest(body) \in Hashes
    BY <2>3 DEF PgAssumption
  <2>5. StoredActor(r.actor) \in Actors
    BY <1>1, StoredActorType DEF Request
  <2>6. StoredPayload(r.payload) \in Payloads
    BY DEF StoredPayload, Payloads
  <2>7. QED BY <1>1, <2>2, <2>4, <2>5, <2>6 DEF NewRow, Row, Request
<1>5. table' = Append(table, NewRow(w))
  <2>1. table \in Seq(Row) /\ Len(table) \in Nat
        /\ DOMAIN table = 1 .. Len(table)
    BY TableFacts DEF IInv
  <2>2. DOMAIN table \cup {n} = 1 .. (Len(table) + 1)
    BY <1>3, <2>1
  <2> DEFINE row == NewRow(w)
  <2>3. table' = [s \in 1 .. (Len(table) + 1) |->
                     IF s = Len(table) + 1 THEN row ELSE table[s]]
    <3> HIDE DEF n, row
    <3>1. table' = [s \in DOMAIN table \cup {n} |->
                       IF s = n THEN row ELSE table[s]]
      BY <1>2 DEF row
    <3>2. QED BY <3>1, <1>3, <2>2
  <2> HIDE DEF n, row
  <2>4. \A k \in 1 .. Len(table) : k # Len(table) + 1
    BY <2>1
  <2>5. Append(table, row) = [s \in 1 .. (Len(table) + 1) |->
                     IF s = Len(table) + 1 THEN row ELSE table[s]]
    BY <1>4, <2>1, AppendDef DEF row
  <2>6. QED BY <2>3, <2>5 DEF row
<1>6. /\ NewRow(w).aggregate = r.aggregate
      /\ NewRow(w).version = r.version
      /\ NewRow(w).type = r.type
  BY DEF NewRow
<1>7. \A u \in 1 .. (r.version - 1) :
          \E s \in RowsOf(r.aggregate) : table[s].version = u
  BY <1>2 DEF IInv, CheckedFollows
<1>8. ASSUME NEW s \in RowsOf(r.aggregate)
      PROVE  table[s].version < r.version
  <2>1. s \in DOMAIN table /\ table[s].aggregate = r.aggregate
        /\ table[s].version \in Nat /\ table[s].version # r.version
    BY <1>2, TableFacts DEF RowsOf, VersionFree, IInv, Row, PgAssumption
  <2>2. ASSUME r.version < table[s].version PROVE FALSE
    <3>1. r.version \in 1 .. (table[s].version - 1)
      BY <1>1, <2>1, <2>2
    <3>2. PICK t \in RowsOf(r.aggregate) : table[t].version = r.version
      BY <2>1, <3>1 DEF IInv, VersionsSequential
    <3>3. QED BY <1>2, <3>2 DEF VersionFree
  <2> DEFINE v == r.version
             x == table[s].version
  <2>3. v \in Nat /\ x \in Nat /\ x # v /\ ~(v < x)
    BY <1>1, <2>1, <2>2
  <2> HIDE DEF v, x
  <2>4. x < v
    BY <2>3
  <2>5. QED BY <2>4 DEF v, x
<1>9. QED BY <1>2, <1>3, <1>4, <1>5, <1>6, <1>7, <1>8

\* A refused INSERT only changes the phase of its append.
LEMMA RefusedIInv ==
    ASSUME PgAssumption, IInv, NEW w \in Appenders, Insert(w),
           appends'[w].phase # "stored"
    PROVE  IInv'
<1> DEFINE new == [appends[w] EXCEPT !.phase = "refused"]
<1>1. appends[w] \in AppendState /\ appends \in [Appenders -> AppendState]
  BY DEF IInv, TypeOK
<1>2. new \in AppendState /\ new.phase = "refused"
  BY <1>1 DEF AppendState, Phases
<1>3. appends' = [appends EXCEPT ![w] = new] /\ UNCHANGED <<table, pollers>>
  <2>1. appends'[w].phase = "stored" \/ (appends' = [appends EXCEPT ![w].phase = "refused"]
                                          /\ UNCHANGED table)
    <3>1. ASSUME appends' = [appends EXCEPT ![w].phase = "stored"]
          PROVE  appends'[w].phase = "stored"
      BY <1>1, <3>1 DEF AppendState
    <3>2. QED BY <3>1 DEF Insert
  <2>2. QED BY <1>1, <2>1 DEF Insert
<1> HIDE DEF new
<1>4. QED BY <1>2, <1>3, LocalStep

LEMMA StoredIInv ==
    ASSUME PgAssumption, IInv, NEW w \in Appenders, Insert(w),
           appends'[w].phase = "stored"
    PROVE  IInv'
<1> DEFINE r == appends[w].request
           row == NewRow(w)
           n == Len(table) + 1
<1>1. /\ table' = Append(table, row) /\ row \in Row
      /\ row.aggregate = r.aggregate /\ row.version = r.version
      /\ \A u \in 1 .. (r.version - 1) :
             \E s \in RowsOf(r.aggregate) : table[s].version = u
      /\ \A s \in RowsOf(r.aggregate) : table[s].version < r.version
  BY InsertFacts
<1>2. /\ appends \in [Appenders -> AppendState] /\ appends[w] \in AppendState
      /\ MaxEvents \in Nat /\ pollers \in [Pollers -> PollerState]
      /\ table \in Seq(Row) /\ Len(table) \in Nat
      /\ DOMAIN table = 1 .. Len(table)
  BY TableFacts DEF IInv, TypeOK, PgAssumption
<1>3. /\ appends' = [appends EXCEPT ![w].phase = "stored"]
      /\ UNCHANGED pollers
  BY <1>2 DEF Insert
<1> HIDE DEF row
<1>4. /\ table' \in Seq(Row) /\ Len(table') = n
      /\ DOMAIN table' = 1 .. n
      /\ \A s \in DOMAIN table : s \in DOMAIN table' /\ table'[s] = table[s]
      /\ table'[n] = row
      /\ n \notin DOMAIN table
  BY <1>1, <1>2
<1>5. \A x \in Appenders :
          /\ appends'[x].request = appends[x].request
          /\ appends'[x].current = appends[x].current
          /\ appends'[x].phase = IF x = w THEN "stored" ELSE appends[x].phase
  BY <1>2, <1>3 DEF AppendState
<1>6. \A a : RowsOf(a) \subseteq RowsOf(a)'
  BY <1>4 DEF RowsOf
<1>7. \A s \in DOMAIN table' :
          s \in DOMAIN table \/ (s = n /\ table'[s] = row)
  BY <1>2, <1>4
<1>8. TypeOK'
  <2>1. appends' \in [Appenders -> AppendState]
    BY <1>2, <1>3 DEF AppendState, Phases
  <2>2. n \in 0 .. MaxEvents /\ table' \in [1 .. n -> Row]
    <3>1. appends[w].phase = "numbered" /\ appends[w].current + 1 <= MaxEvents
          /\ appends[w].current + 1 = n
      BY InsertFacts
    <3>2. table' \in Seq(Row) /\ Len(table') = n
      BY <1>4
    <3>3. QED BY <1>2, <3>1, <3>2 DEF PgAssumption
  <2>3. QED BY <1>2, <1>3, <1>4, <2>1, <2>2 DEF TypeOK
<1>9. NumberedWithinTable'
  BY <1>2, <1>4, <1>5 DEF IInv, NumberedWithinTable
<1>10. CheckedFollows'
  <2>1. \A x \in Appenders :
            appends'[x].phase \in {"checked", "linked", "numbered"} =>
            HasBelow(table', appends'[x].request.aggregate,
                     appends'[x].request.version)
    <3> SUFFICES ASSUME NEW x \in Appenders,
                        appends'[x].phase \in {"checked", "linked", "numbered"}
                 PROVE  HasBelow(table', appends[x].request.aggregate,
                                 appends[x].request.version)
      BY <1>5
    <3>1. appends[x].phase \in {"checked", "linked", "numbered"}
      BY <1>5
    <3>2. HasBelow(table, appends[x].request.aggregate, appends[x].request.version)
      BY <3>1 DEF IInv, CheckedFollows, HasBelow, RowsOf
    <3>3. QED BY <1>4, <3>2 DEF HasBelow
  <2>2. QED BY <2>1 DEF CheckedFollows, HasBelow, RowsOf
<1>11. VersionsSequential'
  <2>1. SequentialLog(table)
    BY DEF IInv, VersionsSequential, SequentialLog, RowsOf, HasBelow
  <2>2. HasBelow(table, row.aggregate, row.version)
    BY <1>1 DEF HasBelow, RowsOf
  <2>3. \A s \in DOMAIN table : table[s].aggregate = row.aggregate =>
                                    table[s].version < row.version
    BY <1>1 DEF RowsOf
  <2>4. SequentialLog(table')
    BY <1>1, <1>2, <2>1, <2>2, <2>3, SequentialExtends
  <2>5. QED BY <2>4 DEF VersionsSequential, SequentialLog, RowsOf, HasBelow
<1>12. QED BY <1>8, <1>9, <1>10, <1>11 DEF IInv

-----------------------------------------------------------------------------
\* The rows a query returns are numbers.
LEMMA RowsInOrderType ==
    ASSUME PgAssumption, TypeOK, NEW m \in Nat, NEW n \in Nat,
           NEW found \in RowsInOrder(m, n)
    PROVE  found \in Seq(Nat)
<1> DEFINE rows == (m .. n) \cap DOMAIN table
<1>1. IsFiniteSet(rows)
  <2>1. IsFiniteSet(m .. n)
    BY FS_Interval
  <2>2. QED BY <2>1, FS_Subset
<1>2. Cardinality(rows) \in Nat
  BY <1>1, FS_CardinalityType
<1>3. rows \subseteq Nat
  OBVIOUS
<1>4. found \in [1 .. Cardinality(rows) -> rows]
  BY DEF RowsInOrder
<1> HIDE DEF rows
<1>5. found \in [1 .. Cardinality(rows) -> Nat]
  BY <1>3, <1>4
<1>6. QED BY <1>2, <1>5

\* The steps of a poller leave the table and the appends alone and keep the
\* type of its record.
LEMMA PollIInv ==
    ASSUME PgAssumption, IInv, NEW p \in Pollers, PollStep(p)
    PROVE  IInv'
<1>1. UNCHANGED <<table, appends>>
  BY DEF PollStep, StartPolling, Poll, Fetch, StopPolling
<1>2. /\ pollers \in [Pollers -> PollerState] /\ pollers[p] \in PollerState
      /\ \A n \in 0 .. MaxEvents : n \in Nat
  BY DEF IInv, TypeOK, PgAssumption
<1>3. pollers' \in [Pollers -> PollerState]
  <2>1. CASE StartPolling(p)
    <3>1. PICK n \in 0 .. MaxEvents : pollers' = [pollers EXCEPT ![p] =
                [phase |-> "polling", since |-> n, last |-> n, current |-> 0,
                 given |-> << >>]]
      BY <2>1 DEF StartPolling
    <3>2. n \in Nat /\ << >> \in Seq(Nat)
      BY <1>2
    <3>3. [phase |-> "polling", since |-> n, last |-> n, current |-> 0,
           given |-> << >>] \in PollerState
      BY <3>2 DEF PollerState
    <3>4. QED BY <1>2, <3>1, <3>3
  <2>2. CASE Poll(p)
    <3>1. PICK n \in 0 .. MaxEvents : pollers' = [pollers EXCEPT
                             ![p].phase = "fetching", ![p].current = n]
      BY <2>2 DEF Poll
    <3>2. [pollers[p] EXCEPT !.phase = "fetching", !.current = n] \in PollerState
      BY <1>2 DEF PollerState
    <3>3. QED BY <1>2, <3>1, <3>2
  <2>3. CASE Fetch(p)
    <3> DEFINE q == pollers[p]
    <3>1. PICK found \in RowsInOrder(q.last + 1, q.current) :
             pollers' = [pollers EXCEPT ![p].phase = "polling",
                                        ![p].given = @ \o found,
                                        ![p].last = q.current]
      BY <2>3 DEF Fetch
    <3>2. q.last + 1 \in Nat /\ q.current \in Nat /\ q.given \in Seq(Nat)
      BY <1>2 DEF PollerState
    <3>3. found \in Seq(Nat)
      BY <3>2, RowsInOrderType DEF IInv
    <3>4. q.given \o found \in Seq(Nat)
      BY <3>2, <3>3
    <3>5. [q EXCEPT !.phase = "polling", !.given = q.given \o found,
                    !.last = q.current] \in PollerState
      BY <1>2, <3>2, <3>4 DEF PollerState
    <3>6. pollers' = [pollers EXCEPT ![p] =
             [q EXCEPT !.phase = "polling", !.given = q.given \o found,
                       !.last = q.current]]
      BY <1>2, <3>1
    <3> DEFINE new == [q EXCEPT !.phase = "polling", !.given = q.given \o found,
                                !.last = q.current]
    <3> HIDE DEF new
    <3>7. new \in PollerState /\ pollers' = [pollers EXCEPT ![p] = new]
      BY <3>5, <3>6 DEF new
    <3>8. QED BY <1>2, <3>7
  <2>4. CASE StopPolling(p)
    <3>1. NotPolling \in PollerState
      BY DEF NotPolling, PollerState
    <3>2. QED BY <1>2, <2>4, <3>1 DEF StopPolling
  <2>5. QED BY <2>1, <2>2, <2>3, <2>4 DEF PollStep
<1>4. TypeOK'
  BY <1>1, <1>3 DEF IInv, TypeOK
<1>5. NumberedWithinTable' /\ CheckedFollows' /\ VersionsSequential'
  BY <1>1 DEF IInv, NumberedWithinTable, CheckedFollows, VersionsSequential, RowsOf
<1>6. QED BY <1>4, <1>5 DEF IInv

LEMMA NextIInv == PgAssumption /\ IInv /\ [Next]_vars => IInv'
<1> SUFFICES ASSUME PgAssumption, IInv, [Next]_vars PROVE IInv'
  OBVIOUS
<1>1. ASSUME NEW w \in Appenders, AppendStep(w) PROVE IInv'
  <2>1. CASE \E r \in Requests : Call(w, r)
    BY <2>1, CallIInv
  <2>2. CASE CheckAggregateVersion(w)
    BY <2>2, CheckIInv
  <2>3. CASE GetPreviousHash(w)
    BY <2>3, HashIInv
  <2>4. CASE GetCurrentSequence(w)
    BY <2>4, NumberIInv
  <2>5. CASE Insert(w)
    BY <2>5, StoredIInv, RefusedIInv
  <2>6. CASE Finish(w)
    BY <2>6, FinishIInv
  <2>7. QED BY <1>1, <2>1, <2>2, <2>3, <2>4, <2>5, <2>6 DEF AppendStep
<1>2. ASSUME NEW p \in Pollers, PollStep(p) PROVE IInv'
  BY <1>2, PollIInv
<1>3. CASE UNCHANGED vars
  BY <1>3 DEF vars, IInv, TypeOK, NumberedWithinTable, CheckedFollows,
              VersionsSequential, RowsOf
<1>4. QED BY <1>1, <1>2, <1>3 DEF Next

\* The inductive invariant holds in every state of the appends and the pollers
\* (append and subscribe of postgres-event-store.ts); the others follow.
THEOREM Invariance == Spec => []IInv
<1>1. PgAssumption
  BY PgAssumption
<1>2. QED BY <1>1, InitIInv, NextIInv, PTL DEF Spec

\* The variables keep their types; in particular the sequence numbers in use
\* are 1 .. n however many appends overlap (append, postgres-event-store.ts:324).
THEOREM TypeCorrect == Spec => []TypeOK
<1>1. IInv => TypeOK
  BY DEF IInv
<1>2. QED BY <1>1, Invariance, PTL

\* Whatever the interleaving of the version checks and the INSERTs of any
\* number of appends, the versions of an aggregate are 1, 2, 3, ... in the
\* order of the log.
THEOREM OptimisticConcurrency == Spec => []VersionsSequential
<1>1. IInv => VersionsSequential
  BY DEF IInv
<1>2. QED BY <1>1, Invariance, PTL

-----------------------------------------------------------------------------
(***************************************************************************)
(* What a poller is given.                                                 *)
(***************************************************************************)

\* A set of natural numbers that is not empty has a least one: what the
\* proofs about sequences use for induction.
LEMMA LeastNumber ==
    ASSUME NEW T \in SUBSET Nat, T # {}
    PROVE  \E n \in T : \A m \in T : n <= m
<1> DEFINE R == OpToRel(<, Nat)
<1>1. \A m, n \in Nat : <<m, n>> \in R <=> m < n
  BY DEF OpToRel
<1>2. IsWellFoundedOn(R, Nat)
  BY NatLessThanWellFounded
<1> HIDE DEF R
<1>3. PICK n \in T : \A m \in T : ~ (<<m, n>> \in R)
  BY <1>2, WFMin
<1>4. ASSUME NEW m \in T PROVE n <= m
  <2>1. ~ (<<m, n>> \in R) /\ m \in Nat /\ n \in Nat
    BY <1>3
  <2>2. ~ (m < n)
    BY <1>1, <2>1
  <2>3. QED BY <2>1, <2>2
<1>5. QED BY <1>4

\* There is one way to list the numbers from m to n in increasing order.
LEMMA IncreasingList ==
    ASSUME NEW m \in Nat, NEW n \in Nat, m <= n,
           NEW f \in [1 .. (n - m + 1) -> m .. n],
           \A i, j \in 1 .. (n - m + 1) : i < j => f[i] < f[j]
    PROVE  f = [i \in 1 .. (n - m + 1) |-> m + i - 1]
<1> DEFINE k == n - m + 1
<1>1. k \in Nat /\ k >= 1 /\ \A i \in 1 .. k : f[i] \in m .. n /\ f[i] \in Nat
  OBVIOUS
<1>2. \A i \in 1 .. k : f[i] >= m + i - 1
  <2> DEFINE low == {i \in 1 .. k : f[i] < m + i - 1}
  <2>1. ASSUME low # {} PROVE FALSE
    <3>1. low \in SUBSET Nat
      OBVIOUS
    <3>2. PICK i \in low : \A j \in low : i <= j
      BY <2>1, <3>1, LeastNumber
    <3>3. i \in 1 .. k /\ i # 1
      BY <1>1, <3>2
    <3>4. i - 1 \in 1 .. k /\ i - 1 \notin low /\ f[i - 1] < f[i]
      BY <3>2, <3>3
    <3>5. f[i - 1] >= m + (i - 1) - 1
      BY <1>1, <3>4
    <3>6. QED BY <1>1, <3>2, <3>3, <3>4, <3>5
  <2>2. ASSUME NEW i \in 1 .. k PROVE f[i] >= m + i - 1
    <3>1. i \notin low
      BY <2>1
    <3>2. QED BY <1>1, <3>1
  <2>3. QED BY <2>2
<1>3. \A i \in 1 .. k : f[i] <= m + i - 1
  <2> DEFINE high == {d \in 0 .. (k - 1) : f[k - d] > m + (k - d) - 1}
  <2>1. ASSUME high # {} PROVE FALSE
    <3>1. high \in SUBSET Nat
      OBVIOUS
    <3>2. PICK d \in high : \A c \in high : d <= c
      BY <2>1, <3>1, LeastNumber
    <3>3. d \in 0 .. (k - 1) /\ k - d \in 1 .. k /\ d # 0
      BY <1>1, <3>2
    <3>4. d - 1 \in 0 .. (k - 1) /\ d - 1 < d
      BY <1>1, <3>3
    <3> HIDE DEF high
    <3>5. d - 1 \notin high
      BY <3>2, <3>3, <3>4
    <3> USE DEF high
    <3>6. k - (d - 1) \in 1 .. k /\ f[k - d] < f[k - (d - 1)]
      BY <1>1, <3>3
    <3>7. f[k - (d - 1)] <= m + (k - (d - 1)) - 1
      BY <1>1, <3>4, <3>5, <3>6
    <3>8. QED BY <1>1, <3>2, <3>3, <3>6, <3>7
  <2>2. ASSUME NEW i \in 1 .. k PROVE f[i] <= m + i - 1
    <3>1. k - i \in 0 .. (k - 1) /\ k - (k - i) = i
      BY <1>1
    <3>2. k - i \notin high
      BY <2>1
    <3>3. QED BY <1>1, <3>1, <3>2
  <2>3. QED BY <2>2
<1>4. \A i \in 1 .. k : f[i] = m + i - 1
  BY <1>1, <1>2, <1>3
<1>5. QED BY <1>4

\* A query for the rows after l, when all of them up to n are in the table,
\* returns exactly their numbers.
LEMMA RowsOfARange ==
    ASSUME NEW l \in Nat, NEW n \in Nat, l < n, (l + 1) .. n \subseteq DOMAIN table,
           NEW found \in RowsInOrder(l + 1, n)
    PROVE  found = [i \in 1 .. (n - l) |-> l + i]
<1> DEFINE m == l + 1
<1>1. m \in Nat /\ m <= n /\ (m .. n) \cap DOMAIN table = m .. n
  OBVIOUS
<1>2. n - m + 1 = n - l /\ \A i \in 1 .. (n - l) : m + i - 1 = l + i
  OBVIOUS
<1>3. found \in RowsInOrder(m, n)
  OBVIOUS
<1> HIDE DEF m
<1>4. Cardinality(m .. n) = n - m + 1
  BY <1>1, FS_Interval
<1>5. /\ found \in [1 .. (n - m + 1) -> m .. n]
      /\ \A i, j \in 1 .. (n - m + 1) : i < j => found[i] < found[j]
  BY <1>1, <1>3, <1>4 DEF RowsInOrder
<1>6. found = [i \in 1 .. (n - m + 1) |-> m + i - 1]
  BY <1>1, <1>5, IncreasingList
<1>7. QED BY <1>2, <1>6

\* Two such lists that adjoin make one.
LEMMA RangesAdjoin ==
    ASSUME NEW s \in Nat, NEW l \in Nat, NEW n \in Nat, s <= l, l <= n
    PROVE  [i \in 1 .. (l - s) |-> s + i] \o [i \in 1 .. (n - l) |-> l + i]
               = [i \in 1 .. (n - s) |-> s + i]
<1> DEFINE g == [i \in 1 .. (l - s) |-> s + i]
           f == [i \in 1 .. (n - l) |-> l + i]
           h == [i \in 1 .. (n - s) |-> s + i]
<1>1. l - s \in Nat /\ n - l \in Nat /\ n - s \in Nat /\ (l - s) + (n - l) = n - s
  OBVIOUS
<1>2. /\ g \in Seq(Nat) /\ Len(g) = l - s
      /\ f \in Seq(Nat) /\ Len(f) = n - l
      /\ h \in Seq(Nat) /\ Len(h) = n - s
  BY <1>1
<1>3. /\ \A i \in 1 .. (l - s) : g[i] = s + i
      /\ \A i \in 1 .. (n - l) : f[i] = l + i
      /\ \A i \in 1 .. (n - s) : h[i] = s + i
  OBVIOUS
<1> HIDE DEF f, g, h
<1>4. /\ g \o f \in Seq(Nat) /\ Len(g \o f) = n - s
      /\ \A i \in 1 .. (n - s) : (g \o f)[i] =
                IF i <= l - s THEN g[i] ELSE f[i - (l - s)]
  <2>1. /\ g \o f \in Seq(Nat) /\ Len(g \o f) = Len(g) + Len(f)
        /\ \A i \in 1 .. Len(g) + Len(f) : (g \o f)[i] =
                  IF i <= Len(g) THEN g[i] ELSE f[i - Len(g)]
    BY <1>2, ConcatProperties
  <2>2. Len(g) + Len(f) = n - s
    BY <1>1, <1>2
  <2>3. QED BY <1>2, <2>1, <2>2
<1>5. ASSUME NEW i \in 1 .. (n - s) PROVE (g \o f)[i] = h[i]
  <2>1. CASE i <= l - s
    BY <1>3, <1>4, <2>1
  <2>2. CASE ~ (i <= l - s)
    <3>1. i - (l - s) \in 1 .. (n - l)
      BY <2>2
    <3>2. QED BY <1>3, <1>4, <2>2, <3>1
  <2>3. QED BY <2>1, <2>2
<1>6. g \o f = h
  BY <1>2, <1>4, <1>5, SeqEqual
<1>7. QED BY <1>6 DEF f, g, h

\* A poller never reads past the table, and it fetches only what is behind
\* the number it has just read: rows that are all there.
PollersWithinTable ==
    \A p \in Pollers :
        LET q == pollers[p] IN
        q.phase # "off" =>
            /\ q.since <= q.last /\ q.last <= Len(table)
            /\ q.phase = "fetching" =>
                  q.last < q.current /\ q.current <= Len(table)

PollersInv == PollersWithinTable /\ PollersMissNothing

\* The table only grows, and only appends change it.
LEMMA TableGrows ==
    ASSUME PgAssumption, IInv, NEW w \in Appenders, AppendStep(w)
    PROVE  UNCHANGED pollers /\ Len(table) <= Len(table') /\ Len(table') \in Nat
<1>1. Len(table) \in Nat /\ table \in Seq(Row)
  BY TableFacts DEF IInv, PgAssumption
<1>2. UNCHANGED pollers
  BY DEF AppendStep, Call, CheckAggregateVersion, GetPreviousHash,
         GetCurrentSequence, Insert, Finish
<1>3. CASE UNCHANGED table
  BY <1>1, <1>2, <1>3
<1>4. CASE ~ UNCHANGED table
  <2>1. Insert(w) /\ appends'[w].phase = "stored"
    <3>1. Insert(w) /\ appends' = [appends EXCEPT ![w].phase = "stored"]
      BY <1>4 DEF AppendStep, Call, CheckAggregateVersion, GetPreviousHash,
                  GetCurrentSequence, Insert, Finish
    <3>2. QED BY <3>1 DEF IInv, TypeOK, AppendState
  <2>2. table' = Append(table, NewRow(w)) /\ NewRow(w) \in Row
    BY <2>1, InsertFacts
  <2>3. QED BY <1>1, <1>2, <2>2
<1>5. QED BY <1>3, <1>4

LEMMA PollersInit == PgAssumption /\ Init => PollersInv
  BY DEF Init, PollersInv, PollersWithinTable, PollersMissNothing, NotPolling

\* The steps of the polling loop: a poll reads a number in the table, and the
\* fetch that follows is given the numbers up to it, without a gap.
LEMMA PollersStep ==
    ASSUME PgAssumption, IInv, PollersInv, NEW p \in Pollers, PollStep(p)
    PROVE  PollersInv'
<1> DEFINE q == pollers[p]
<1>1. /\ UNCHANGED table
      /\ pollers \in [Pollers -> PollerState] /\ q \in PollerState
      /\ Len(table) \in Nat /\ DOMAIN table = 1 .. Len(table)
  <2>1. UNCHANGED table
    BY DEF PollStep, StartPolling, Poll, Fetch, StopPolling
  <2>2. pollers \in [Pollers -> PollerState]
    BY DEF IInv, TypeOK
  <2>3. Len(table) \in Nat /\ DOMAIN table = 1 .. Len(table)
    BY TableFacts DEF IInv, PgAssumption
  <2>4. QED BY <2>1, <2>2, <2>3
<1>2. /\ q.since \in Nat /\ q.last \in Nat /\ q.current \in Nat
      /\ q.given \in Seq(Nat)
  BY <1>1 DEF PollerState
<1>3. \A n \in 0 .. MaxEvents : IsMaxSequence(n) => n \in Nat /\ n <= Len(table)
  BY <1>1 DEF IsMaxSequence, PgAssumption
<1> DEFINE Good(r) ==
             r.phase # "off" =>
                /\ r.since <= r.last /\ r.last <= Len(table)
                /\ r.phase = "fetching" =>
                      r.last < r.current /\ r.current <= Len(table)
                /\ r.given = [i \in 1 .. (r.last - r.since) |-> r.since + i]
<1>4. \A x \in Pollers : Good(pollers[x])
  BY DEF PollersInv, PollersWithinTable, PollersMissNothing
<1>5. \E new : pollers' = [pollers EXCEPT ![p] = new] /\ Good(new)
  <2>1. CASE StartPolling(p)
    <3>1. PICK n \in 0 .. MaxEvents :
            /\ IsMaxSequence(n)
            /\ pollers' = [pollers EXCEPT ![p] =
                  [phase |-> "polling", since |-> n, last |-> n, current |-> 0,
                   given |-> << >>]]
      BY <2>1 DEF StartPolling
    <3>2. Good([phase |-> "polling", since |-> n, last |-> n, current |-> 0,
                given |-> << >>])
      BY <1>3, <3>1
    <3>3. QED BY <3>1, <3>2
  <2>2. CASE Poll(p)
    <3>1. PICK n \in 0 .. MaxEvents :
            /\ IsMaxSequence(n) /\ n > q.last
            /\ pollers' = [pollers EXCEPT ![p].phase = "fetching",
                                          ![p].current = n]
      BY <2>2 DEF Poll
    <3> DEFINE new == [q EXCEPT !.phase = "fetching", !.current = n]
    <3>2. pollers' = [pollers EXCEPT ![p] = new]
      BY <1>1, <3>1
    <3>3. /\ new.phase = "fetching" /\ new.since = q.since /\ new.last = q.last
          /\ new.given = q.given /\ new.current = n /\ q.phase = "polling"
      BY <1>1, <2>2 DEF PollerState, Poll
    <3> HIDE DEF new
    <3>4. Good(q)
      BY <1>4
    <3>5. n \in Nat /\ n <= Len(table) /\ q.last < n
      BY <1>2, <1>3, <3>1
    <3>6. Good(new)
      BY <3>3, <3>4, <3>5
    <3>7. QED BY <3>2, <3>6
  <2>3. CASE Fetch(p)
    <3>1. PICK found \in RowsInOrder(q.last + 1, q.current) :
             pollers' = [pollers EXCEPT ![p].phase = "polling",
                                        ![p].given = @ \o found,
                                        ![p].last = q.current]
      BY <2>3 DEF Fetch
    <3>2. /\ q.since <= q.last /\ q.last < q.current /\ q.current <= Len(table)
          /\ q.given = [i \in 1 .. (q.last - q.since) |-> q.since + i]
      BY <1>4, <2>3 DEF Fetch
    <3>3. (q.last + 1) .. q.current \subseteq DOMAIN table
      BY <1>1, <1>2, <3>2
    <3>4. found = [i \in 1 .. (q.current - q.last) |-> q.last + i]
      BY <1>2, <3>2, <3>3, RowsOfARange
    <3>5. q.last <= q.current
      BY <1>2, <3>2
    <3>6. q.given \o found = [i \in 1 .. (q.current - q.since) |-> q.since + i]
      <4> DEFINE g == [i \in 1 .. (q.last - q.since) |-> q.since + i]
                 f == [i \in 1 .. (q.current - q.last) |-> q.last + i]
      <4>1. g \o f = [i \in 1 .. (q.current - q.since) |-> q.since + i]
        BY <1>2, <3>2, <3>5, RangesAdjoin
      <4> HIDE DEF f, g
      <4>2. q.given = g /\ found = f
        BY <3>2, <3>4 DEF f, g
      <4>3. QED BY <4>1, <4>2
    <3> DEFINE new == [q EXCEPT !.phase = "polling", !.given = q.given \o found,
                                !.last = q.current]
    <3>7. pollers' = [pollers EXCEPT ![p] = new]
      BY <1>1, <3>1
    <3>8. /\ new.phase = "polling" /\ new.since = q.since
          /\ new.last = q.current /\ new.given = q.given \o found
      BY <1>1 DEF PollerState
    <3> HIDE DEF new
    <3>9. Good(new)
      BY <1>2, <3>2, <3>6, <3>8
    <3>10. QED BY <3>7, <3>9
  <2>4. CASE StopPolling(p)
    <3>1. Good(NotPolling)
      BY DEF NotPolling
    <3>2. QED BY <2>4, <3>1 DEF StopPolling
  <2>5. QED BY <2>1, <2>2, <2>3, <2>4 DEF PollStep
<1>6. PICK new : pollers' = [pollers EXCEPT ![p] = new] /\ Good(new)
  BY <1>5
<1>7. \A x \in Pollers : Good(pollers'[x])
  BY <1>1, <1>4, <1>6
<1>8. QED BY <1>1, <1>7 DEF PollersInv, PollersWithinTable, PollersMissNothing

LEMMA PollersNext ==
    PgAssumption /\ IInv /\ PollersInv /\ [Next]_vars => PollersInv'
<1> SUFFICES ASSUME PgAssumption, IInv, PollersInv, [Next]_vars PROVE PollersInv'
  OBVIOUS
<1>1. ASSUME NEW w \in Appenders, AppendStep(w) PROVE PollersInv'
  <2>1. /\ UNCHANGED pollers /\ Len(table) <= Len(table') /\ Len(table') \in Nat
        /\ Len(table) \in Nat /\ pollers \in [Pollers -> PollerState]
    BY <1>1, TableGrows, TableFacts DEF IInv, TypeOK, PgAssumption
  <2>2. \A p \in Pollers : pollers[p].last \in Nat /\ pollers[p].current \in Nat
    BY <2>1 DEF PollerState
  <2>3. PollersWithinTable'
    BY <2>1, <2>2 DEF PollersInv, PollersWithinTable
  <2>4. QED BY <2>1, <2>3 DEF PollersInv, PollersMissNothing
<1>2. ASSUME NEW p \in Pollers, PollStep(p) PROVE PollersInv'
  BY <1>2, PollersStep
<1>3. CASE UNCHANGED vars
  BY <1>3 DEF vars, PollersInv, PollersWithinTable, PollersMissNothing
<1>4. QED BY <1>1, <1>2, <1>3 DEF Next

\* The polling loop of subscribe (postgres-event-store.ts:512) yields every row
\* stored after it started, once and in order, whatever is inserted between its
\* two queries: an INSERT takes the number after the highest one in the table,
\* so no row can appear behind a number a poller has passed.
THEOREM NothingMissed == Spec => []PollersMissNothing
<1>1. PgAssumption
  BY PgAssumption
<1>2. PollersInv => PollersMissNothing
  BY DEF PollersInv
<1>3. QED BY <1>1, <1>2, Invariance, PollersInit, PollersNext, PTL DEF Spec

-----------------------------------------------------------------------------
\* Only an insert that succeeds writes the table (append,
\* postgres-event-store.ts:366): polls, reads and refusals leave every row alone.
LEMMA OnlyInsertsWrite ==
    ASSUME IInv, [Next]_vars, table' # table
    PROVE  \E w \in Appenders : Insert(w) /\ appends'[w].phase = "stored"
<1>1. \A p \in Pollers : ~ PollStep(p)
  BY DEF PollStep, StartPolling, Poll, Fetch, StopPolling
<1>2. PICK w \in Appenders : AppendStep(w)
  BY <1>1 DEF Next, vars
<1>3. Insert(w)
  BY <1>2 DEF AppendStep, Call, CheckAggregateVersion, GetPreviousHash,
              GetCurrentSequence, Finish
<1>4. appends[w] \in AppendState /\ appends \in [Appenders -> AppendState]
  BY DEF IInv, TypeOK
<1>5. appends' = [appends EXCEPT ![w].phase = "stored"]
  BY <1>3 DEF Insert
<1>6. appends'[w].phase = "stored"
  BY <1>4, <1>5 DEF AppendState
<1>. QED BY <1>3, <1>6

\* The table implements the versioned ledger: an INSERT that succeeds records
\* the next fact of its aggregate, every other step changes no fact.
THEOREM Refinement == Spec => ImplementsLedger
<1> DEFINE FactOf(row) == [aggregate |-> row.aggregate, version |-> row.version,
                           type |-> row.type]
           abs == [s \in DOMAIN table |-> FactOf(table[s])]
<1>1. Init => L!Init
  BY DEF Init, L!Init
<1>2. IInv /\ PgAssumption /\ [Next]_vars => [L!Next]_abs
  <2> SUFFICES ASSUME IInv, PgAssumption, [Next]_vars
               PROVE  L!Next \/ abs' = abs
    BY DEF L!Next
  <2>1. ASSUME NEW w \in Appenders, Insert(w), appends'[w].phase = "stored"
        PROVE  L!Next
    <3> DEFINE r == appends[w].request
               row == NewRow(w)
    <3>1. /\ table' = Append(table, row) /\ row \in Row
          /\ row.aggregate = r.aggregate /\ row.version = r.version
          /\ row.type = r.type
          /\ \A u \in 1 .. (r.version - 1) :
                 \E s \in RowsOf(r.aggregate) : table[s].version = u
          /\ \A s \in RowsOf(r.aggregate) : table[s].version < r.version
      BY <2>1, InsertFacts
    <3>2. table \in Seq(Row) /\ DOMAIN table = 1 .. Len(table) /\ Len(table) \in Nat
      BY TableFacts DEF IInv
    <3>3. r.aggregate \in Aggregates /\ r.version \in Versions /\ r.type \in EventTypes
      BY DEF IInv, TypeOK, AppendState, PgAssumption, Request
    <3> HIDE DEF row
    <3>4. abs' = Append(abs, FactOf(row))
      BY <3>1, <3>2
    <3>5. L!FactsAbout(r.aggregate) = RowsOf(r.aggregate)
      BY DEF L!FactsAbout, RowsOf
    <3>6. \A s \in RowsOf(r.aggregate) : s \in DOMAIN table /\ abs[s].version = table[s].version
      BY DEF RowsOf
    <3>7. L!IsNextVersion(r.aggregate, r.version)
      BY <3>1, <3>5, <3>6 DEF L!IsNextVersion
    <3>8. PICK a \in Aggregates, v \in Versions, t \in EventTypes :
              a = r.aggregate /\ v = r.version /\ t = r.type
      BY <3>3
    <3>9. L!IsNextVersion(a, v)
      BY <3>7, <3>8
    <3>10. FactOf(row) = [aggregate |-> a, version |-> v, type |-> t]
      BY <3>1, <3>8
    <3>11. L!Record(a, v, t)
      BY <3>4, <3>9, <3>10 DEF L!Record
    <3>12. QED BY <3>11 DEF L!Next
  <2>2. ASSUME table' = table PROVE abs' = abs
    BY <2>2
  <2>. QED BY <2>1, <2>2, OnlyInsertsWrite
<1>3. PgAssumption
  BY PgAssumption
<1>4. QED BY <1>1, <1>2, <1>3, Invariance, PTL DEF Spec, ImplementsLedger, L!Spec

-----------------------------------------------------------------------------
(***************************************************************************)
(* The chain of appends that do not meet.                                  *)
(***************************************************************************)
OneAtATime ==
    \A v, w \in Appenders : appends[v].phase # "idle" /\ appends[w].phase # "idle" => v = w

\* The hash a link should be: that of the last row.
LastLink == IF Len(table) = 0 THEN Genesis ELSE table[Len(table)].hash

\* What an append has read for its link is still the hash of the last row.
LinkInv ==
    /\ ChainIntact
    /\ \A w \in Appenders :
           appends[w].phase \in {"linked", "numbered"} => appends[w].previousHash = LastLink

\* A step that stores no row.
LEMMA LinkStays ==
    ASSUME PgAssumption, IInv, LinkInv, UNCHANGED table,
           \A w \in Appenders : appends'[w].phase \in {"linked", "numbered"} =>
               \/ appends'[w].previousHash = LastLink
               \/ appends[w].phase \in {"linked", "numbered"}
                  /\ appends'[w].previousHash = appends[w].previousHash
    PROVE  LinkInv'
BY DEF LinkInv, ChainIntact, LastLink

LEMMA LinkKept ==
    ASSUME PgAssumption, IInv, LinkInv, OneAtATime, NEW w \in Appenders, AppendStep(w)
    PROVE  LinkInv'
<1>1. /\ appends \in [Appenders -> AppendState]
      /\ Len(table) \in Nat /\ DOMAIN table = 1 .. Len(table) /\ table \in Seq(Row)
  BY TableFacts DEF IInv, TypeOK, PgAssumption
<1>2. CASE (\E r \in Requests : Call(w, r)) \/ Finish(w)
  <2>1. UNCHANGED table /\ \A v \in Appenders : v # w => appends'[v] = appends[v]
    BY <1>1, <1>2 DEF Call, Finish
  <2>2. appends'[w].phase \in {"called", "idle"}
    <3>1. \A r : [NoAppend EXCEPT !.phase = "called", !.request = r].phase = "called"
      BY DEF NoAppend
    <3>2. NoAppend.phase = "idle" BY DEF NoAppend
    <3>. QED BY <1>1, <1>2, <3>1, <3>2 DEF Call, Finish
  <2>. QED BY <2>1, <2>2, LinkStays
<1>3. CASE CheckAggregateVersion(w)
  <2>1. UNCHANGED table /\ \A v \in Appenders : v # w => appends'[v] = appends[v]
    BY <1>1, <1>3 DEF CheckAggregateVersion
  <2>2. appends'[w].phase \in {"checked", "conflict"}
    BY <1>1, <1>3 DEF CheckAggregateVersion, AppendState
  <2>. QED BY <2>1, <2>2, LinkStays
<1>4. CASE GetPreviousHash(w)
  <2>1. PICK h \in Hashes :
          IsLastHash(h) /\ appends' = [appends EXCEPT ![w].phase = "linked", ![w].previousHash = h]
    BY <1>4 DEF GetPreviousHash
  <2>2. h = LastLink
    <3>1. CASE Len(table) = 0 BY <1>1, <2>1, <3>1 DEF IsLastHash, LastLink
    <3>2. CASE Len(table) # 0
      <4>1. PICK n \in DOMAIN table : IsMaxSequence(n) /\ h = table[n].hash
        <5>1. 1 \in 1 .. Len(table) BY <1>1, <3>2
        <5>2. DOMAIN table # {} BY <1>1, <5>1
        <5>. QED BY <2>1, <5>2 DEF IsLastHash
      <4>2. n = Len(table)
        <5>1. n \in 1 .. Len(table) /\ Len(table) \in 1 .. Len(table) BY <1>1, <3>2, <4>1
        <5>2. Len(table) <= n BY <1>1, <4>1, <5>1 DEF IsMaxSequence
        <5>. QED BY <1>1, <5>1, <5>2
      <4>. QED BY <3>2, <4>1, <4>2 DEF LastLink
    <3>. QED BY <3>1, <3>2
  <2>3. appends'[w].previousHash = h BY <1>1, <2>1 DEF AppendState
  <2>4. UNCHANGED table /\ \A v \in Appenders : v # w => appends'[v] = appends[v]
    BY <1>1, <1>4 DEF GetPreviousHash
  <2>. QED BY <2>2, <2>3, <2>4, LinkStays
<1>5. CASE GetCurrentSequence(w)
  <2>1. UNCHANGED table /\ \A v \in Appenders : v # w => appends'[v] = appends[v]
    BY <1>1, <1>5 DEF GetCurrentSequence
  <2>2. /\ appends[w].phase = "linked"
        /\ appends'[w].previousHash = appends[w].previousHash
    BY <1>1, <1>5 DEF GetCurrentSequence, AppendState
  <2>. QED BY <2>1, <2>2, LinkStays
<1>6. CASE Insert(w) /\ appends'[w].phase # "stored"
  <2>1. UNCHANGED table /\ appends' = [appends EXCEPT ![w].phase = "refused"]
    BY <1>1, <1>6 DEF Insert, AppendState
  <2>2. appends'[w].phase = "refused" /\ \A v \in Appenders : v # w => appends'[v] = appends[v]
    BY <1>1, <2>1 DEF AppendState
  <2>. QED BY <2>1, <2>2, LinkStays
<1>7. CASE Insert(w) /\ appends'[w].phase = "stored"
  <2>1. /\ appends[w].phase = "numbered"
        /\ table' = Append(table, NewRow(w)) /\ NewRow(w) \in Row
    BY <1>7, InsertFacts
  <2>2. NewRow(w).previousHash = LastLink BY <2>1 DEF NewRow, LinkInv
  <2>3. \A v \in Appenders : v # w => appends'[v].phase = "idle"
    BY <1>1, <1>7, <2>1 DEF Insert, OneAtATime
  <2>4. /\ Len(table') = Len(table) + 1 /\ DOMAIN table' = 1 .. Len(table) + 1
        /\ table'[Len(table) + 1] = NewRow(w)
        /\ \A s \in 1 .. Len(table) : table'[s] = table[s]
    BY <1>1, <2>1
  <2>5. ASSUME NEW s \in DOMAIN table'
        PROVE  table'[s].previousHash = IF s = 1 THEN Genesis ELSE table'[s - 1].hash
    <3>1. CASE s \in 1 .. Len(table)
      <4>1. s # 1 => s - 1 \in 1 .. Len(table) BY <1>1, <3>1
      <4>. QED BY <1>1, <2>4, <3>1, <4>1 DEF LinkInv, ChainIntact
    <3>2. CASE s = Len(table) + 1
      <4>1. s # 1 => Len(table) # 0 /\ Len(table) \in 1 .. Len(table) /\ s - 1 = Len(table)
        BY <1>1, <3>2
      <4>2. s = 1 => Len(table) = 0 BY <1>1, <3>2
      <4>. QED BY <2>2, <2>4, <3>2, <4>1, <4>2 DEF LastLink
    <3>. QED BY <1>1, <2>4, <3>1, <3>2
  <2>. QED BY <1>7, <2>3, <2>5 DEF LinkInv, ChainIntact
<1>. QED BY <1>2, <1>3, <1>4, <1>5, <1>6, <1>7 DEF AppendStep

\* As long as no two appends are under way at once, whichever processes they
\* come from and whichever of them die, every row is linked to the row before
\* it (append, postgres-event-store.ts:342); two that meet may fork the chain.
THEOREM ChainHoldsApart == Spec /\ []OneAtATime => []ChainIntact
<1>1. Init => LinkInv
  BY DEF Init, LinkInv, ChainIntact, NoAppend
<1>2. IInv /\ LinkInv /\ OneAtATime /\ [Next]_vars => LinkInv'
  <2>. SUFFICES ASSUME IInv, LinkInv, OneAtATime, [Next]_vars PROVE LinkInv'
    OBVIOUS
  <2>1. ASSUME NEW w \in Appenders, AppendStep(w) PROVE LinkInv'
    BY <2>1, LinkKept, PgAssumption
  <2>2. ASSUME NEW p \in Pollers, PollStep(p) PROVE LinkInv'
    <3>1. UNCHANGED <<table, appends>>
      BY <2>2 DEF PollStep, StartPolling, Poll, Fetch, StopPolling
    <3>. QED BY <3>1 DEF LinkInv, ChainIntact, LastLink
  <2>3. CASE UNCHANGED vars BY <2>3 DEF vars, LinkInv, ChainIntact, LastLink
  <2>. QED BY <2>1, <2>2, <2>3 DEF Next
<1>3. LinkInv => ChainIntact BY DEF LinkInv
<1>. QED BY <1>1, <1>2, <1>3, Invariance, PTL DEF Spec
=============================================================================
