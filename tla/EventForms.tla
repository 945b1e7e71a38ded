----------------------------- MODULE EventForms -----------------------------
(***************************************************************************)
(* Events as others know them: the formats they are sent in, the versions  *)
(* they were written in, and the calls of services that events are made    *)
(* of. They share nothing: each has a specification of its own, in a       *)
(* section of its own.                                                     *)
(***************************************************************************)
EXTENDS Naturals, Sequences, SequencesExt, FiniteSets

CONSTANTS
    \* Formats.
    Events,     \* the events there may be, records as Event makes them
    MaxSent,    \* bound: messages sent
    \* Versions.
    LastVersion,       \* the last version there is an upcaster to
    MaxEvents,  \* bound: events written
    \* Calls of services.
    Objects,        \* payment intents, subscriptions or users, by number
    Agreements,
    MaxHappenings,  \* bound: what happens to the objects
    MaxCalls        \* bound: calls of the webhook

VARIABLES
    \* Formats.
    sent,       \* [event, format], in the order of sending
    received,   \* [message, event], for the formats that are read back
    refused,    \* the last message that could not be made
    \* Versions.
    current,    \* the version the registry says is current
    upcasters,  \* those registered, sorted: [from, to]
    events,     \* events written: [schemaVersion, fields], schemaVersion 0 for none
    \* Calls of services.
    secrets,        \* what the adapter was initialized with
    objects,        \* object |-> [kind, agreement], where it has been made
    happened,       \* what happened, in order: [type, object]
    hookEvents,         \* the events made of calls: [id, type, aggregate, of]
    hookRefused         \* calls that threw

-----------------------------------------------------------------------------
(***************************************************************************)
(* The formats in which events of the ledger leave the system              *)
(* (src/core/adapters/standards: cloudevents.ts and amqp.ts, with Kafka,   *)
(* SQS, Pub/Sub, Redis and NATS) and come back.  A name has its words and  *)
(* may have capitals, AgreementCreated two of them; a word is a sequence   *)
(* of what it was put together from, so that in lower case the name is one *)
(* word of two.                                                            *)
(***************************************************************************)
formatVars == <<sent, received, refused>>

None == "none"
Formats == {"structured", "binary", "reference", "amqp", "sqs", "pubsub", "nats", "redis", "kafka"}

-----------------------------------------------------------------------------
\* What was one word of many is one word of all their parts.
Lower(name) == [capitals |-> FALSE, words |-> <<FlattenSeq(name.words)>>]

\* Each word gets its capital; but a name is split at "-" and "_" alone, of
\* which it has none.
ToPascalCase(name) == [capitals |-> TRUE, words |-> name.words]

\* toCloudEvent: without the payload where only a reference is wanted.
ToCloudEvent(e, includeData) ==
    [id |-> e.id, type |-> <<Lower(e.kind), Lower(e.type)>>, subject |-> <<e.kind, e.aggregate>>,
     aggregatetype |-> e.kind, aggregateid |-> e.aggregate, sequence |-> e.sequence, realmid |-> e.realm,
     correlationid |-> e.correlation, causationid |-> e.cause, data |-> IF includeData THEN e.payload ELSE None]

\* Mutant of FromCloudEvent: the place in the log is left out.
FromCloudEventUnnumbered(c) ==
    [id |-> c.id, type |-> ToPascalCase(c.type[2]), kind |-> ToPascalCase(c.type[1]),
     aggregate |-> c.aggregateid, version |-> 1, sequence |-> 0, realm |-> c.realmid,
     correlation |-> c.correlationid, cause |-> c.causationid, actor |-> "cloudevents-adapter", payload |-> c.data]

\* fromCloudEvent: the names come from the type, in lower case, though
\* aggregatetype has one of them as it was.
FromCloudEvent(c) ==
    [id |-> c.id, type |-> ToPascalCase(c.type[2]), kind |-> ToPascalCase(c.type[1]),
     aggregate |-> c.aggregateid, version |-> 1, sequence |-> c.sequence, realm |-> c.realmid,
     correlation |-> c.correlationid, cause |-> c.causationid, actor |-> "cloudevents-adapter", payload |-> c.data]

\* Mutant of GetBinaryHeaders: the realm has no header either.
GetBinaryHeadersFew(c) == [c EXCEPT !.causationid = None, !.realmid = None]

\* getBinaryHeaders: all but the cause, for which there is no header.
GetBinaryHeaders(c) == [c EXCEPT !.causationid = None]

\* parseFromBinaryMode: the body is the data.
ParseFromBinaryMode(headers, body) == [headers EXCEPT !.data = body]

\* JSON has no bigint: an event that has a sequence cannot be put whole.
Stringified(e) == e.sequence = 0

\* A message for a format, or none.
Whole == {"amqp", "sqs", "pubsub", "nats"}
Makes(e, format) == format \in Whole => Stringified(e)

\* What the other side reads, for the formats that come back.
Reads(e, format) ==
    CASE format = "structured" -> FromCloudEvent(ToCloudEvent(e, TRUE))
      [] format = "reference" -> FromCloudEvent(ToCloudEvent(e, FALSE))
      [] format = "binary" ->
         LET c == ToCloudEvent(e, TRUE) IN FromCloudEvent(ParseFromBinaryMode(GetBinaryHeaders(c), c.data))
      [] format = "amqp" -> e

\* Mutant of Key: events are spread by their ids.
KeyById(e) == <<e.kind, e.id>>

\* getKafkaKey and the orderingKey of Pub/Sub.
Key(e) == <<e.kind, e.aggregate>>

\* The routing key of AMQP and the subject of NATS.
RoutingKey(e) == <<Lower(e.kind), Lower(e.type)>>

LowerCase(word) == [capitals |-> FALSE, words |-> <<<<word>>>>]

\* The queues of LEDGER_TOPOLOGY that are bound to the exchange of events.
Queues(e) ==
    {q \in {"all", "agreement", "workflow", "notification"} :
        CASE q = "all" -> TRUE
          [] q = "notification" -> RoutingKey(e)[2] = LowerCase("notification")
          [] OTHER -> RoutingKey(e)[1] = LowerCase(q)}

-----------------------------------------------------------------------------
FormatInit == sent = << >> /\ received = << >> /\ refused = {}

Send(e, format) ==
    /\ Len(sent) < MaxSent
    /\ IF Makes(e, format)
       THEN sent' = Append(sent, [event |-> e, format |-> format]) /\ UNCHANGED refused
       ELSE refused' = {<<e.id, format>>} /\ UNCHANGED sent
    /\ UNCHANGED received

\* Brokers keep the order of one key; messages come once, or are lost.
Receive(i) ==
    /\ sent[i].format \in {"structured", "binary", "reference", "amqp"}
    /\ \A r \in DOMAIN received : received[r].message # i
    /\ \A r \in DOMAIN received :
           Key(sent[received[r].message].event) = Key(sent[i].event) => received[r].message < i
    /\ received' = Append(received, [message |-> i, event |-> Reads(sent[i].event, sent[i].format)])
    /\ UNCHANGED <<sent, refused>>

FormatNext ==
    \/ \E e \in Events, format \in Formats : Send(e, format)
    \/ \E i \in DOMAIN sent : Receive(i)

FormatSpec == FormatInit /\ [][FormatNext]_formatVars

-----------------------------------------------------------------------------
FormatTypeOK ==
    /\ sent \in Seq([event : Events, format : Formats])
    /\ \A r \in DOMAIN received : received[r].message \in DOMAIN sent
    /\ \A x \in refused : x[2] \in Whole

(***************************************************************************)
(* What is received says what was sent: of which aggregate, in which realm *)
(* and place of the log, with which content, unless a reference was asked  *)
(* for, and on what request.  (The names of types lose their capitals, and *)
(* versions, actors and, in headers, causes are lost: a CloudEvent does    *)
(* not come back as the event it was made of.)                             *)
(***************************************************************************)
ReceivedIsSent ==
    \A r \in DOMAIN received :
        LET m == sent[received[r].message]
            e == received[r].event
        IN  /\ e.id = m.event.id /\ e.aggregate = m.event.aggregate /\ e.realm = m.event.realm
            /\ e.sequence = m.event.sequence /\ e.correlation = m.event.correlation
            /\ m.format # "reference" => e.payload = m.event.payload
            /\ m.format # "binary" => e.cause = m.event.cause
            /\ Lower(e.type) = Lower(m.event.type) /\ Lower(e.kind) = Lower(m.event.kind)

(***************************************************************************)
(* Events of one aggregate are received in the order in which they were    *)
(* sent, since they share a key and those of different aggregates do not;  *)
(* and the queue of their kind gets all of them.                           *)
(***************************************************************************)
AggregateInOrder ==
    /\ \A r, s \in DOMAIN received :
           LET a == sent[received[r].message].event
               b == sent[received[s].message].event
           IN  r < s /\ a.aggregate = b.aggregate /\ a.kind = b.kind
               => received[r].message < received[s].message
    /\ \A i \in DOMAIN sent :
           Len(sent[i].event.kind.words) = 1 /\ sent[i].event.kind.words[1] \in {<<"agreement">>, <<"workflow">>}
           => Cardinality(Queues(sent[i].event)) >= 2

-----------------------------------------------------------------------------
(***************************************************************************)
(* The chain of src/core/evolution/versioning.ts that brings an event to   *)
(* the version its readers know: every upcaster that starts at the version *)
(* of the event or above is applied, in the order of the versions they     *)
(* start at.  Code is deployed version by version; what the registry says  *)
(* is current is told separately.                                          *)
(***************************************************************************)
upcastVars == <<current, upcasters, events>>

\* The fields of PartyRegistered in its first four versions.
Fields(v) ==
    CASE v = 1 -> {"name", "type"}
      [] v = 2 -> {"name", "type", "identity"}
      [] v = 3 -> {"name", "partyType", "identity"}
      [] OTHER -> {"name", "partyType", "identity", "establishedBy"}

\* EXAMPLE_UPCASTERS, what each does to the fields it finds.
Upcast(from, fields) ==
    CASE from = 1 -> fields \cup {"identity"}
      [] from = 2 -> (fields \ {"type"}) \cup {"partyType"}
      [] OTHER -> fields \cup {"establishedBy"}

-----------------------------------------------------------------------------
UpcastInit == current = 1 /\ upcasters = << >> /\ events = << >>

\* Mutant of Inserted: the order of registration is kept.
InsertedLast(u) == Append(upcasters, u)

Inserted(u) == SortSeq(Append(upcasters, u), LAMBDA a, b : a.from < b.from)

Register(from) ==
    /\ \A i \in DOMAIN upcasters : upcasters[i].from # from
    /\ upcasters' = Inserted([from |-> from, to |-> from + 1])
    /\ UNCHANGED <<current, events>>

\* The registry moves on.
Introduce == current < LastVersion /\ current' = current + 1 /\ UNCHANGED <<upcasters, events>>

\* An event of the current version, or of the first without saying so.
Write(says) ==
    /\ Len(events) < MaxEvents
    /\ says \/ current = 1
    /\ events' = Append(events, [schemaVersion |-> IF says THEN current ELSE 0, fields |-> Fields(current)])
    /\ UNCHANGED <<current, upcasters>>

UpcastNext ==
    \/ \E from \in 1 .. LastVersion - 1 : Register(from)
    \/ Introduce
    \/ \E says \in BOOLEAN : Write(says)

UpcastSpec == UpcastInit /\ [][UpcastNext]_upcastVars

-----------------------------------------------------------------------------
Version(e) == IF e.schemaVersion = 0 THEN 1 ELSE e.schemaVersion

\* Mutant of GetChain: those above the version of the event.
GetChainAbove(v) == SelectSeq(upcasters, LAMBDA u : u.from > v)

GetChain(v) == SelectSeq(upcasters, LAMBDA u : u.from >= v)

\* upcast: nothing for an event that is current, the whole chain for others.
Read(e) ==
    IF Version(e) >= current THEN [schemaVersion |-> e.schemaVersion, fields |-> e.fields]
    ELSE FoldLeft(LAMBDA r, u : [schemaVersion |-> u.to, fields |-> Upcast(u.from, r.fields)],
                  e, GetChain(Version(e)))

UpcastTypeOK ==
    /\ current \in 1 .. LastVersion
    /\ upcasters \in Seq([from : 1 .. LastVersion - 1, to : 2 .. LastVersion])
    /\ events \in Seq([schemaVersion : 0 .. LastVersion, fields : SUBSET UNION {Fields(v) : v \in 1 .. LastVersion}])

(***************************************************************************)
(* Whenever the upcasters that are there are those up to the current       *)
(* version, in whatever order they were registered, an event of any age is *)
(* read as one of the current version.  (One registered ahead of the       *)
(* registry, or missing in between, is not noticed.)                       *)
(***************************************************************************)
ReadAsCurrent ==
    {upcasters[i].from : i \in DOMAIN upcasters} = 1 .. current - 1 =>
        \A i \in DOMAIN events :
            /\ Read(events[i]).fields = Fields(current)
            /\ Version(Read(events[i])) = current

-----------------------------------------------------------------------------
(***************************************************************************)
(* The adapters of src/core/adapters that turn what a payment or identity  *)
(* service tells into events of the ledger (stripe.ts, auth0.ts).  The     *)
(* service calls a webhook for everything that happens, at least once and  *)
(* in any order; an event made of a call has an id made of the object the  *)
(* call is about, and the agreement its metadata name.                     *)
(***************************************************************************)
hookVars == <<secrets, objects, happened, hookEvents, hookRefused>>

Nowhere == "none"       \* no agreement in the metadata
Empty == ""             \* an agreement that is the empty string
Missing == [kind |-> "none", agreement |-> Nowhere]

\* What can happen to an object of each kind.
TypesOf(kind) ==
    CASE kind = "payment" -> {"payment_intent.succeeded", "payment_intent.payment_failed", "charge.refunded",
                              "payment_intent.created"}
      [] kind = "subscription" -> {"customer.subscription.created", "customer.subscription.deleted",
                                   "invoice.paid"}
      [] kind = "user" -> {"user.created", "user.logged_in", "user.email_verified", "user.deleted"}
      [] OTHER -> {}

\* What happens to one object time and again.
Repeats == {"payment_intent.payment_failed", "charge.refunded", "invoice.paid", "user.logged_in"}

-----------------------------------------------------------------------------
HookInit ==
    /\ secrets = {}
    /\ objects = [o \in Objects |-> Missing]
    /\ happened = << >>
    /\ hookEvents = << >>
    /\ hookRefused = 0

\* initialize throws without the key; the secret of the webhook may wait.
Initialize(given) ==
    /\ secrets = {} /\ "key" \in given
    /\ secrets' = given
    /\ UNCHANGED <<objects, happened, hookEvents, hookRefused>>

Metadata(agreement) == IF agreement = Nowhere THEN Empty ELSE agreement

\* createPaymentIntent and createSubscription, of an adapter that is ready.
Create(o, kind, agreement) ==
    /\ "key" \in secrets /\ objects[o] = Missing
    /\ objects' = [objects EXCEPT ![o] = [kind |-> kind, agreement |-> Metadata(agreement)]]
    /\ UNCHANGED <<secrets, happened, hookEvents, hookRefused>>

\* What others make of the service carries what they like.
MadeElsewhere(o, kind, agreement) ==
    /\ objects[o] = Missing
    /\ objects' = [objects EXCEPT ![o] = [kind |-> kind, agreement |-> agreement]]
    /\ UNCHANGED <<secrets, happened, hookEvents, hookRefused>>

Happens(o, type) ==
    /\ Len(happened) < MaxHappenings
    /\ type \in TypesOf(objects[o].kind)
    /\ \A i \in DOMAIN happened : happened[i] = [type |-> type, object |-> o] => type \in Repeats
    /\ happened' = Append(happened, [type |-> type, object |-> o])
    /\ UNCHANGED <<secrets, objects, hookEvents, hookRefused>>

-----------------------------------------------------------------------------
\* The name an event is given: of the object, and for some of what happened.
\* Invoices and logins are objects of their own; a login is told by no id.
Prefix(type) ==
    CASE type = "payment_intent.succeeded" -> "evt_stripe_"
      [] type = "payment_intent.payment_failed" -> "evt_stripe_fail_"
      [] type = "charge.refunded" -> "evt_stripe_refund_"
      [] type = "invoice.paid" -> "evt_stripe_inv_"
      [] type = "customer.subscription.created" -> "evt_stripe_sub_"
      [] type = "customer.subscription.deleted" -> "evt_stripe_sub_cancel_"
      [] type = "user.created" -> "evt_auth0_signup_"
      [] type = "user.logged_in" -> "evt_auth0_login_"
      [] type = "user.email_verified" -> "evt_auth0_verified_"
      [] type = "user.deleted" -> "evt_auth0_deleted_"

LedgerType(type) ==
    CASE type \in {"payment_intent.succeeded", "invoice.paid"} -> "ObligationFulfilled"
      [] type = "payment_intent.payment_failed" -> "PaymentFailed"
      [] type = "charge.refunded" -> "CompensationIssued"
      [] type = "customer.subscription.created" -> "AgreementActivated"
      [] type = "customer.subscription.deleted" -> "AgreementTerminated"
      [] type = "user.created" -> "EntityCreated"
      [] type = "user.logged_in" -> "SessionEstablished"
      [] type = "user.email_verified" -> "EntityUpdated"
      [] type = "user.deleted" -> "EntityDeactivated"
      [] OTHER -> "null"

\* Mutant of Own: an event has the number of the call that made it.
OwnCall(i) == Len(hookEvents) + 1

\* What tells two happenings of one type and object apart: an invoice has
\* an id of its own, a session is given one at each call.
Own(i) ==
    CASE happened[i].type = "invoice.paid" -> i
      [] happened[i].type = "user.logged_in" -> Len(hookEvents) + 1
      [] OTHER -> 0

\* Mutant of NamedAfter: what has no agreement goes to one of its kind.
NamedAfterKind(o) == <<objects[o].kind, 0, 0>>

NamedAfter(o) == <<objects[o].kind, o, 0>>

\* The agreement of the metadata, if there are any; else one named after
\* the object.  A user is an entity of its own, a session an aggregate.
Aggregate(i) ==
    LET o == happened[i].object IN
    CASE objects[o].kind = "user" -> <<IF happened[i].type = "user.logged_in" THEN "session" ELSE "entity", o, Own(i)>>
      [] objects[o].agreement = Nowhere -> NamedAfter(o)
      [] OTHER -> <<objects[o].agreement, 0, 0>>

LedgerEvent(i) ==
    [id |-> <<Prefix(happened[i].type), happened[i].object, Own(i)>>,
     type |-> LedgerType(happened[i].type), aggregate |-> Aggregate(i), of |-> i]

\* handleWebhook throws without a secret; what has no event becomes none.
\* Auth0 calls a function that knows no secret.
HandleWebhook(i) ==
    /\ Len(hookEvents) + hookRefused < MaxCalls
    /\ IF objects[happened[i].object].kind # "user" /\ ~{"key", "webhook"} \subseteq secrets
       THEN hookRefused' = hookRefused + 1 /\ UNCHANGED hookEvents
       ELSE /\ LedgerType(happened[i].type) # "null"
            /\ hookEvents' = Append(hookEvents, LedgerEvent(i)) /\ UNCHANGED hookRefused
    /\ UNCHANGED <<secrets, objects, happened>>

HookNext ==
    \/ \E given \in SUBSET {"key", "webhook"} : Initialize(given)
    \/ \E o \in Objects, agreement \in Agreements \cup {Nowhere} :
           \/ \E kind \in {"payment", "subscription"} : Create(o, kind, agreement)
           \/ \E kind \in {"payment", "subscription"} : MadeElsewhere(o, kind, agreement)
           \/ agreement = Nowhere /\ MadeElsewhere(o, "user", agreement)
    \/ \E o \in Objects : \E type \in TypesOf(objects[o].kind) : Happens(o, type)
    \/ \E i \in DOMAIN happened : HandleWebhook(i)

HookSpec == HookInit /\ [][HookNext]_hookVars

-----------------------------------------------------------------------------
HookTypeOK ==
    /\ secrets \subseteq {"key", "webhook"}
    /\ objects \in [Objects -> [kind : {"none", "payment", "subscription", "user"},
                                agreement : Agreements \cup {Nowhere, Empty}]]
    /\ \A e \in DOMAIN hookEvents : hookEvents[e].of \in DOMAIN happened
    /\ Len(hookEvents) + hookRefused \in 0 .. MaxCalls

Same(e, f) == hookEvents[e].id = hookEvents[f].id

(***************************************************************************)
(* Called again for the same, a webhook makes the same event, on the same  *)
(* aggregate, so that who receives it can tell; a login alone is a new     *)
(* session each time.  And events of different happenings have different   *)
(* ids, but for a payment that fails, or is refunded, twice.               *)
(***************************************************************************)
IdTellsHappening ==
    \A e, f \in DOMAIN hookEvents :
        LET a == happened[hookEvents[e].of] IN
        /\ hookEvents[e].of = hookEvents[f].of /\ a.type # "user.logged_in" =>
                   Same(e, f) /\ hookEvents[e].aggregate = hookEvents[f].aggregate
        /\ Same(e, f) /\ hookEvents[e].of # hookEvents[f].of =>
               a.type \in {"payment_intent.payment_failed", "charge.refunded"}

(***************************************************************************)
(* What happens to a payment is told of the agreement it was made for, and *)
(* two payments share an aggregate only if they share the agreement: those *)
(* that the adapter made for no agreement all do, under an empty id.       *)
(***************************************************************************)
OnItsAgreement ==
    \A e, f \in DOMAIN hookEvents :
        LET Agreement(g) == objects[happened[hookEvents[g].of].object].agreement
        IN  /\ Agreement(e) \in Agreements /\ hookEvents[e].type \notin {"EntityCreated", "EntityUpdated",
                   "EntityDeactivated", "SessionEstablished"} => hookEvents[e].aggregate[1] = Agreement(e)
            /\ hookEvents[e].aggregate = hookEvents[f].aggregate =>
                       \/ happened[hookEvents[e].of].object = happened[hookEvents[f].of].object
                       \/ Agreement(e) = Agreement(f) /\ Agreement(e) # Nowhere
=============================================================================
