------------------------------ MODULE Finding -------------------------------
(***************************************************************************)
(* What is asked of the ledger by content: queries as a builder makes      *)
(* them, and the index that documents are found in. They share nothing:    *)
(* each has a specification of its own, in a section of its own.           *)
(***************************************************************************)
EXTENDS Naturals, Sequences, SequencesExt, FiniteSetsExt, FiniteSets

CONSTANTS
    \* Queries.
    Builders,   \* the builders in use
    Asks,       \* calls that may be made of a builder: [op, arg]
    MaxAsked,   \* bound: calls made of each
    \* The index.
    Documents,      \* [type, id] of the documents there may be
    Realms, Words,
    PageLimit,          \* how many hits a page has when nobody says
    MaxCalls        \* bound: calls that change the index

VARIABLES
    \* Queries.
    query,      \* builder |-> the query it makes
    asked,      \* builder |-> the calls made of it, in order
    built,      \* builder |-> whether somebody holds its query
    \* The index.
    documents,      \* the Map: a sequence of [type, id, realm, words]
    reindexing,     \* documents that a reindex has read and not yet put back
    given,          \* document |-> what the last call left of it, <<>> for nothing
    met,            \* documents that were changed while a reindex held them
    calls

-----------------------------------------------------------------------------
(***************************************************************************)
(* The builder of queries (src/core/api/query-language.ts).  Every call    *)
(* changes the one query of the builder, and build hands out that query    *)
(* and no copy: who holds a query built sees what is asked of the builder  *)
(* afterwards.                                                             *)
(***************************************************************************)
queryVars == <<query, asked, built>>

None == 0
DefaultLimit == 20

-----------------------------------------------------------------------------
(* The calls.                                                              *)

\* entities, agreements, assets, roles and events.
Select(type) ==
    [select |-> type, where |-> <<>>, at |-> None, include |-> <<>>, orderBy |-> <<>>,
     limit |-> None, after |-> None, aggregate |-> <<>>, groupBy |-> <<>>]

Add(q, part, arg) == [q EXCEPT ![part] = Append(@, arg)]

\* where, and, or and hasRelation: a condition more.
Where(q, arg) == Add(q, "where", arg)

\* Mutant of Limit: the pagination is the limit.
LimitAlone(q, n) == [q EXCEPT !.limit = n, !.after = None]

Limit(q, n) == [q EXCEPT !.limit = n]

\* Mutant of After: a page has the default size.
AfterByDefault(q, cursor) == [q EXCEPT !.after = cursor, !.limit = DefaultLimit]

After(q, cursor) ==
    [q EXCEPT !.after = cursor, !.limit = IF q.limit = None THEN DefaultLimit ELSE q.limit]

\* count and sum go to aggregate.
Asked(q, a) ==
    CASE a.op = "where" -> Where(q, a.arg)
      [] a.op \in {"include", "orderBy", "aggregate", "groupBy"} -> Add(q, a.op, a.arg)
      [] a.op = "at" -> [q EXCEPT !.at = a.arg]
      [] a.op = "limit" -> Limit(q, a.arg)
      [] a.op = "after" -> After(q, a.arg)

-----------------------------------------------------------------------------
QueryInit ==
    /\ query \in [Builders -> {Select(type) : type \in {"Agreement", "Event"}}]
    /\ asked = [b \in Builders |-> <<>>]
    /\ built = [b \in Builders |-> FALSE]

\* Mutant of Ask: builders change one query.
AskAll(b) ==
    \E a \in Asks :
        /\ Len(asked[b]) < MaxAsked
        /\ query' = [c \in Builders |-> Asked(query[c], a)]
        /\ asked' = [asked EXCEPT ![b] = Append(@, a)]
        /\ UNCHANGED built

Ask(b) ==
    \E a \in Asks :
        /\ Len(asked[b]) < MaxAsked
        /\ query' = [query EXCEPT ![b] = Asked(@, a)]
        /\ asked' = [asked EXCEPT ![b] = Append(@, a)]
        /\ UNCHANGED built

\* A builder always has a select: it is made by a call that sets it.
Build(b) ==
    /\ ~built[b]
    /\ built' = [built EXCEPT ![b] = TRUE]
    /\ UNCHANGED <<query, asked>>

QueryNext == \E b \in Builders : Ask(b) \/ Build(b)

QuerySpec == QueryInit /\ [][QueryNext]_queryVars

-----------------------------------------------------------------------------
QueryTypeOK ==
    /\ \A b \in Builders :
           /\ query[b].select \in {"Agreement", "Event"}
           /\ {query[b].limit, query[b].after, query[b].at} \subseteq Nat
    /\ built \in [Builders -> BOOLEAN]

\* What a builder makes, of any arguments.
Args == {a.arg : a \in Asks}
ArgLists == Seq(Args)
QueriesThere ==
    [select : {"Agreement", "Event"}, where : ArgLists, at : Args \cup {None},
     include : ArgLists, orderBy : ArgLists, limit : Nat, after : Nat,
     aggregate : ArgLists, groupBy : ArgLists]
QueryInv == query \in [Builders -> QueriesThere]

ArgsOf(b, op) ==
    LET these == SelectSeq(asked[b], LAMBDA a : a.op = op) IN [i \in DOMAIN these |-> these[i].arg]

LastOf(b, op) == IF ArgsOf(b, op) = <<>> THEN None ELSE Last(ArgsOf(b, op))

\* A query is what was asked of its own builder, in whatever order: all the
\* conditions, inclusions, orders, aggregations and groups, and of limit,
\* after and at what was asked last; a cursor without a limit has the default
\* (QueryBuilder).
QueriesAreAsAsked ==
    \A b \in Builders :
        /\ \A part \in {"where", "include", "orderBy", "aggregate", "groupBy"} :
               query[b][part] = ArgsOf(b, part)
        /\ \A part \in {"after", "at"} : query[b][part] = LastOf(b, part)
        /\ query[b].limit =
               (IF ArgsOf(b, "limit") # <<>> THEN LastOf(b, "limit")
                ELSE IF ArgsOf(b, "after") # <<>> THEN DefaultLimit ELSE None)

\* A query somebody holds may be asked more of, and never less: it keeps
\* its conditions, and a page of it stays one (build).
NarrowsOnly ==
    \A b \in Builders : built[b] =>
        /\ query'[b].select = query[b].select
        /\ IsPrefix(query[b].where, query'[b].where)
        /\ query[b].limit # None => query'[b].limit # None
        /\ query[b].after # None => query'[b].after # None

-----------------------------------------------------------------------------
(***************************************************************************)
(* The search engine in memory of src/core/search/fake-search-engine.ts: a *)
(* Map from type and id to a document, in the order of insertion.  A       *)
(* reindex puts back, one await after the other, the documents it read     *)
(* when it began.                                                          *)
(***************************************************************************)
searchVars == <<documents, reindexing, given, met, calls>>

-----------------------------------------------------------------------------
SearchInit ==
    /\ documents = << >>
    /\ reindexing = << >>
    /\ given = [d \in Documents |-> << >>]
    /\ met = {}
    /\ calls = 0

\* Mutant of SameKey: documents of different types share their ids.
SameId(d, e) == d.id = e.id

SameKey(d, e) == d.type = e.type /\ d.id = e.id

\* Map.set: what is there keeps its place.
Put(docs, d) ==
    IF \E i \in DOMAIN docs : SameKey(docs[i], d)
    THEN [i \in DOMAIN docs |-> IF SameKey(docs[i], d) THEN d ELSE docs[i]]
    ELSE Append(docs, d)

With(d, realm, words) == [type |-> d.type, id |-> d.id, realm |-> realm, words |-> words]
Touch(d) == met' = IF \E i \in DOMAIN reindexing : SameKey(reindexing[i], d) THEN met \cup {d} ELSE met
Count == calls < MaxCalls /\ calls' = calls + 1

\* index, and each document of indexBulk.
Index(d, realm, words) ==
    /\ Count /\ Touch(d)
    /\ documents' = Put(documents, With(d, realm, words))
    /\ given' = [given EXCEPT ![d] = <<With(d, realm, words)>>]
    /\ UNCHANGED reindexing

RemoveDocument(d) ==
    /\ Count /\ Touch(d)
    /\ documents' = SelectSeq(documents, LAMBDA e : ~SameKey(e, d))
    /\ given' = [given EXCEPT ![d] = << >>]
    /\ UNCHANGED reindexing

\* update changes what is there, and nothing else.
Update(d, words) ==
    /\ Count /\ Touch(d)
    /\ documents' = [i \in DOMAIN documents |->
                        IF SameKey(documents[i], d) THEN [documents[i] EXCEPT !.words = words]
                        ELSE documents[i]]
    /\ given' = [given EXCEPT ![d] = IF @ = << >> THEN @ ELSE <<[@[1] EXCEPT !.words = words]>>]
    /\ UNCHANGED reindexing

Reindex(type) ==
    /\ Count /\ reindexing = << >>
    /\ reindexing' = SelectSeq(documents, LAMBDA e : e.type = type)
    /\ UNCHANGED <<documents, given, met>>

ReindexNext ==
    /\ reindexing # << >>
    /\ documents' = Put(documents, Head(reindexing))
    /\ reindexing' = Tail(reindexing)
    /\ UNCHANGED <<given, met, calls>>

\* clear, of the tests.
Clear ==
    /\ Count
    /\ documents' = << >>
    /\ given' = [d \in Documents |-> << >>]
    /\ met' = met \cup {d \in Documents : \E i \in DOMAIN reindexing : SameKey(reindexing[i], d)}
    /\ UNCHANGED reindexing

SearchNext ==
    \/ \E d \in Documents :
           \/ \E realm \in Realms, words \in SUBSET Words : Index(d, realm, words)
           \/ RemoveDocument(d)
           \/ \E words \in SUBSET Words : Update(d, words)
    \/ \E d \in Documents : Reindex(d.type)
    \/ ReindexNext \/ Clear

SearchSpec == SearchInit /\ [][SearchNext]_searchVars

-----------------------------------------------------------------------------
\* Mutant of Slice: the offset counts pages.
SliceByPage(seq, offset, limit) ==
    SubSeq(seq, offset * limit + 1, IF (offset + 1) * limit < Len(seq) THEN (offset + 1) * limit ELSE Len(seq))

Slice(seq, offset, limit) ==
    SubSeq(seq, offset + 1, IF offset + limit < Len(seq) THEN offset + limit ELSE Len(seq))

\* No query, no realm and no types ask for everything; a limit of 0 is none.
Filtered(q) ==
    SelectSeq(documents, LAMBDA d : /\ q.word = "" \/ q.word \in d.words
                                    /\ q.realm = "" \/ q.realm = d.realm
                                    /\ q.types = {} \/ d.type \in q.types)
PageSize(q) == IF q.limit = 0 THEN PageLimit ELSE q.limit
Search(q) == [hits |-> Slice(Filtered(q), q.offset, PageSize(q)), total |-> Len(Filtered(q))]

\* suggest: titles are one word here, and prefixes are the word.
Suggest(word, realm, types, limit) ==
    Slice(Filtered([word |-> word, realm |-> realm, types |-> types]), 0, IF limit = 0 THEN PageLimit ELSE limit)

ByType(type) == Len(SelectSeq(documents, LAMBDA d : d.type = type))
Types == {d.type : d \in Documents}

Queries ==
    [word : Words \cup {""}, realm : Realms \cup {""}, types : {{}} \cup {{t} : t \in Types}]

SearchTypeOK ==
    /\ documents \in Seq([type : Types, id : {d.id : d \in Documents}, realm : Realms, words : SUBSET Words])
    /\ met \subseteq Documents
    /\ calls \in 0 .. MaxCalls

(***************************************************************************)
(* A document is found as the last call left it, removed ones not at all,  *)
(* unless that call came while a reindex held the document.                *)
(***************************************************************************)
FoundAsGiven ==
    \A d \in Documents \ met :
        SelectSeq(documents, LAMBDA e : e.type = d.type /\ e.id = d.id) = given[d]

(***************************************************************************)
(* Page after page shows every document that matches once, whatever the    *)
(* size of the pages, and the totals by type make the total.               *)
(***************************************************************************)
PagesCover ==
    /\ \A q \in Queries, limit \in 0 .. 2 :
           LET Page(offset) == Search([word |-> q.word, realm |-> q.realm, types |-> q.types,
                                       offset |-> offset, limit |-> limit])
               size == IF limit = 0 THEN PageLimit ELSE limit
               all == Page(0).total
           IN  FlattenSeq([p \in 1 .. all + 1 |-> Page((p - 1) * size).hits]) = Filtered(q)
    /\ \A realm \in Realms, type \in Types : Len(Suggest("", realm, {type}, 1)) <= ByType(type)
=============================================================================
