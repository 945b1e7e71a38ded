------------------------------ MODULE Adapters ------------------------------
(***************************************************************************)
(* The adapters to what is outside: the runtimes that run code, git        *)
(* repositories and object storage. They share nothing: each has a         *)
(* specification of its own, in a section of its own.                      *)
(***************************************************************************)
EXTENDS Naturals, Sequences, FiniteSets, FiniteSetsExt

CONSTANTS
    \* Runtimes.
    Runtimes,       \* runtimes there may be a plugin of
    Silent,         \* those of them whose plugins have no shutdown
    Calls,          \* calls of execute, healthCheck and shutdown
    MaxPlugins,     \* bound: plugins registered
    \* Git.
    GitCalls,
    Asks,       \* assignments of calls: [op, token, force]
    MaxCommits, \* bound: commits made here or elsewhere
    \* Storage.
    StorageCalls,
    Documents,  \* [owner, id, name, content, type]
    StorageAsks,       \* call |-> <<operation, document>> it may be made for
    Schemes,    \* of keys: "byRealm", "byEntity", "content"
    PageSize,   \* of a list of the service (1000)
    MaxShut     \* bound: times the adapter is shut down

VARIABLES
    \* Runtimes.
    made,       \* sequence of the runtimes of all plugins ever registered
    cleared,    \* how many of them have been taken from the map
    shutdownAsked,      \* plugins whose shutdown was called
    stopped,    \* plugins whose shutdown has ended well
    calls,      \* call |-> [op, pc, ...]: what it has done
    \* Git.
    asks,       \* call |-> what is asked for
    pc,         \* call |-> the command it stands before
    before,     \* call |-> the branch as it was before the pull or the push
    atFirst,    \* history: call |-> the remote branch when the call began
    answers,    \* call |-> its answer
    there,      \* whether there is a repository at the path
    local,      \* the branch of the repository
    remote,     \* the branch on the server
    named,      \* whether the repository has the remote
    tracking,   \* what the repository knows of it, or None
    \* Storage.
    scheme,   \* how keys are made
    client,   \* the clients made so far; the last is the adapter's
    open,     \* whether the adapter has one
    objects,  \* key |-> content
    storageCalls,    \* call |-> what it does: [op, document, client, at]
    storageAnswers,  \* call |-> its answer
    shown     \* history: call |-> contents its key had while it was under way

-----------------------------------------------------------------------------
(***************************************************************************)
(* The registry of the runtimes that run what is in a workspace            *)
(* (src/core/sandbox/runtimes/registry.ts).  One plugin a runtime; a       *)
(* health check walks the live map and waits for each plugin; a shutdown   *)
(* asks all plugins at once and empties the map when all have answered.    *)
(***************************************************************************)
runtimeVars == <<made, cleared, shutdownAsked, stopped, calls>>

Idle == [op |-> "none", pc |-> "idle"]

Plugins == (cleared + 1)..Len(made)
Has(runtime) == \E i \in Plugins : made[i] = runtime
Get(runtime) == CHOOSE i \in Plugins : made[i] = runtime

Goto(c, call) == calls' = [calls EXCEPT ![c] = call]

-----------------------------------------------------------------------------
RuntimeInit ==
    /\ made = <<>> /\ cleared = 0
    /\ shutdownAsked = {} /\ stopped = {}
    /\ calls = [c \in Calls |-> Idle]

\* Mutant of Free: a plugin takes the place of the one there is.
FreeAlways(runtime) == TRUE

\* A second plugin of a runtime is refused.
Free(runtime) == ~Has(runtime)

Register(runtime) ==
    /\ Len(made) < MaxPlugins
    /\ Free(runtime)
    /\ made' = Append(made, runtime)
    /\ UNCHANGED <<cleared, shutdownAsked, stopped, calls>>

\* A runtime without a plugin is answered with an error.  dying tells that
\* the plugin had been asked to stop, excused that a shutdown waited or failed.
Execute(c, runtime) ==
    /\ calls[c] = Idle
    /\ Goto(c, [op |-> "execute", pc |-> "done", runtime |-> runtime,
                plugin |-> IF Has(runtime) THEN Get(runtime) ELSE 0,
                dying |-> Has(runtime) /\ Get(runtime) \in shutdownAsked,
                excused |-> \E s \in Calls : calls[s].op = "shutdown" /\ calls[s].pc # "done"])
    /\ UNCHANGED <<made, cleared, shutdownAsked, stopped>>

-----------------------------------------------------------------------------
(* healthCheck: the iterator of the map goes on with what is added to it.  *)

CallHealthCheck(c) ==
    /\ calls[c] = Idle
    /\ Goto(c, [op |-> "healthCheck", pc |-> "next", at |-> 0, results |-> {},
                began |-> Plugins, ended |-> {}])
    /\ UNCHANGED <<made, cleared, shutdownAsked, stopped>>

\* Mutant of After: of the plugins there were when it began.
AfterOld(call) == {i \in call.began : i > call.at}

After(call) == {i \in Plugins : i > call.at}

\* A check that rejects is one that says no.
CheckNext(c) ==
    /\ calls[c].op = "healthCheck" /\ calls[c].pc = "next"
    /\ IF After(calls[c]) = {}
       THEN Goto(c, [calls[c] EXCEPT !.pc = "done", !.ended = Plugins])
       ELSE \E healthy \in BOOLEAN :
                LET i == Min(After(calls[c]))
                    others == {r \in calls[c].results : r.runtime # made[i]} IN
                Goto(c, [calls[c] EXCEPT
                    !.at = i,
                    !.results = others \cup {[runtime |-> made[i], plugin |-> i, healthy |-> healthy]}])
    /\ UNCHANGED <<made, cleared, shutdownAsked, stopped>>

-----------------------------------------------------------------------------
(* shutdown.                                                               *)

\* Mutant of Stoppable: the first plugin without a shutdown ends the loop.
StoppableFirst == {i \in Plugins : \A j \in (cleared + 1)..i : made[j] \notin Silent}

Stoppable == {i \in Plugins : made[i] \notin Silent}

CallShutdown(c) ==
    /\ calls[c] = Idle
    /\ Goto(c, [op |-> "shutdown", pc |-> "wait", waits |-> Stoppable, began |-> Plugins])
    /\ shutdownAsked' = shutdownAsked \cup Stoppable
    /\ UNCHANGED <<made, cleared, stopped>>

\* A plugin answers: Promise.all waits for the others, or rejects.
PluginStops(c, i) ==
    /\ calls[c].op = "shutdown" /\ i \in calls[c].waits
    /\ Goto(c, [calls[c] EXCEPT !.waits = @ \ {i}])
    /\ stopped' = stopped \cup {i}
    /\ UNCHANGED <<made, cleared, shutdownAsked>>

PluginFails(c, i) ==
    /\ calls[c].op = "shutdown" /\ calls[c].pc = "wait" /\ i \in calls[c].waits
    /\ Goto(c, [calls[c] EXCEPT !.pc = "rejected", !.waits = @ \ {i}])
    /\ UNCHANGED <<made, cleared, shutdownAsked, stopped>>

\* Mutant of AllStopped: the answers are not awaited.
AllStoppedSoon(call) == TRUE

AllStopped(call) == call.waits = {}

Clear(c) ==
    /\ calls[c].op = "shutdown" /\ calls[c].pc = "wait" /\ AllStopped(calls[c])
    /\ cleared' = Len(made)
    /\ Goto(c, [calls[c] EXCEPT !.pc = "done"])
    /\ UNCHANGED <<made, shutdownAsked, stopped>>

RuntimeNext ==
    \/ \E runtime \in Runtimes : Register(runtime)
    \/ \E c \in Calls :
           \/ \E runtime \in Runtimes : Execute(c, runtime)
           \/ CallHealthCheck(c)
           \/ CheckNext(c)
           \/ CallShutdown(c)
           \/ \E i \in DOMAIN made : PluginStops(c, i) \/ PluginFails(c, i)
           \/ Clear(c)

RuntimeSpec == RuntimeInit /\ [][RuntimeNext]_runtimeVars

-----------------------------------------------------------------------------
RuntimeTypeOK ==
    /\ made \in Seq(Runtimes)
    /\ cleared \in 0..Len(made)
    /\ stopped \subseteq shutdownAsked /\ shutdownAsked \subseteq DOMAIN made
    /\ \A c \in Calls : calls[c].op \in {"none", "execute", "healthCheck", "shutdown"}

Shutdowns == {c \in Calls : calls[c].op = "shutdown"}

\* A runtime has one plugin at a time: what is run for it goes where its
\* health is asked and its shutdown (register).
OnePluginARuntime == Cardinality({made[i] : i \in Plugins}) = Cardinality(Plugins)

\* No plugin goes from the map without its shutdown having ended, but for
\* those without one and those registered while a shutdown waited (shutdown).
ClearedIsStopped ==
    \A i \in 1..cleared :
        \/ made[i] \in Silent
        \/ i \in stopped
        \/ \E c \in Shutdowns : calls[c].pc = "done" /\ i \notin calls[c].began

\* What is run goes to a plugin that was asked to stop only while a shutdown
\* has not ended or after one that failed, which leaves its plugins (execute).
RunByTheLiving ==
    \A c \in Calls : calls[c].op = "execute" /\ calls[c].dying => calls[c].excused

\* A health check tells of every runtime that has a plugin when it ends, the
\* ones registered meanwhile included, and of the plugin it has (healthCheck).
HealthIsOfAll ==
    \A c \in Calls : calls[c].op = "healthCheck" /\ calls[c].pc = "done" =>
        \A i \in calls[c].ended :
            \E r \in calls[c].results : r.runtime = made[i] /\ r.plugin = i

-----------------------------------------------------------------------------
(***************************************************************************)
(* The adapter of the sandbox to git (src/core/sandbox/git-adapters/       *)
(* simple-git.ts).  Each of its operations is a row of git commands on one *)
(* repository, between which other calls, and whoever works in it, change  *)
(* it.  With a token, pull and push take the first remote away and add it  *)
(* again under another URL.                                                *)
(*                                                                         *)
(* git is external: a branch is the set of its commits, a push that is not *)
(* forced needs all of the remote branch, and a pull of branches that have *)
(* diverged merges them or fails.                                          *)
(***************************************************************************)
gitVars == <<asks, pc, before, atFirst, answers, there, local, remote, named, tracking>>

None == {}
Pending == [success |-> FALSE, pending |-> TRUE]

-----------------------------------------------------------------------------
Commits == local \cup remote
NextCommit == Cardinality(Commits) + 1

GitInit ==
    /\ asks \in Asks
    /\ pc = [c \in GitCalls |-> "idle"]
    /\ before = [c \in GitCalls |-> {}] /\ atFirst = [c \in GitCalls |-> {}]
    /\ answers = [c \in GitCalls |-> Pending]
    /\ remote = {1}
    /\ there \in BOOLEAN /\ named = there
    /\ local = (IF there THEN {1} ELSE {}) /\ tracking = local

repository == <<there, local, remote, named, tracking>>

GitGoto(c, where) == pc' = [pc EXCEPT ![c] = where] /\ UNCHANGED <<asks, before, atFirst, answers>>

Answer(c, answer) ==
    /\ answers' = [answers EXCEPT ![c] = answer]
    /\ pc' = [pc EXCEPT ![c] = "done"]
    /\ UNCHANGED <<asks, before, atFirst, repository>>

Failure == [success |-> FALSE, pending |-> FALSE]

\* Any command may fail -- the network, a lock of another command -- and is
\* caught by the one try block around all of an operation.
Fail(c) ==
    /\ pc[c] \notin {"idle", "done"}
    /\ Answer(c, Failure)

\* pull asks for the commit first, push only after the remote is rewritten.
Begin(c) ==
    /\ pc[c] = "idle"
    /\ there \/ asks[c].op = "clone"
    /\ before' = [before EXCEPT ![c] = local]
    /\ atFirst' = [atFirst EXCEPT ![c] = remote]
    /\ pc' = [pc EXCEPT ![c] = IF asks[c].token /\ asks[c].op \in {"pull", "push"}
                               THEN "getRemotes" ELSE asks[c].op]
    /\ UNCHANGED <<asks, answers, repository>>

\* Where nothing is yet, there is nothing to pull, push or tell of.
NoRepository(c) ==
    /\ pc[c] = "idle" /\ asks[c].op # "clone" /\ ~there
    /\ Answer(c, Failure)

\* A clone makes the repository; git makes none where one is.
Clone(c) ==
    /\ pc[c] = "clone" /\ ~there
    /\ there' = TRUE /\ named' = TRUE
    /\ local' = remote /\ tracking' = remote
    /\ GitGoto(c, "cloned")
    /\ UNCHANGED remote

Cloned(c) ==
    /\ pc[c] = "cloned"
    /\ Answer(c, [success |-> TRUE, pending |-> FALSE, commit |-> local])

\* No remote, nothing to rewrite.
GetRemotes(c) ==
    /\ pc[c] = "getRemotes"
    /\ GitGoto(c, IF named THEN "removeRemote" ELSE asks[c].op)
    /\ UNCHANGED repository

\* git forgets with a remote what it knew of its branches and which of them
\* the branch follows.
RemoveRemote(c) ==
    /\ pc[c] = "removeRemote" /\ named
    /\ named' = FALSE /\ tracking' = None
    /\ GitGoto(c, "addRemote")
    /\ UNCHANGED <<there, local, remote>>

AddRemote(c) ==
    /\ pc[c] = "addRemote" /\ ~named
    /\ named' = TRUE
    /\ GitGoto(c, asks[c].op)
    /\ UNCHANGED <<there, local, remote, tracking>>

\* What a fetch or a push leaves of the remote branch: nothing the branch
\* follows, once the remote was added again.
Tracked(branch) == IF tracking = None THEN None ELSE branch

\* The pull between the two revparse.
Pull(c) ==
    /\ pc[c] = "pull" /\ named
    /\ local' = local \cup remote
    /\ tracking' = Tracked(remote)
    /\ GitGoto(c, "pulled")
    /\ UNCHANGED <<there, remote, named>>

\* Mutant of Updated: the comparison the other way round.
UpdatedSame(c) == before[c] = local

Updated(c) == before[c] # local

Pulled(c) ==
    /\ pc[c] = "pulled"
    /\ Answer(c, [success |-> TRUE, pending |-> FALSE, updated |-> Updated(c), commit |-> local])

RevParse(c) ==
    /\ pc[c] = "push"
    /\ before' = [before EXCEPT ![c] = local]
    /\ pc' = [pc EXCEPT ![c] = "pushing"]
    /\ UNCHANGED <<asks, atFirst, answers, repository>>

\* Mutant of Accepted: pushed with --force all the same.
AcceptedAlways(c) == TRUE

Accepted(c) == asks[c].force \/ remote \subseteq local

Push(c) ==
    /\ pc[c] = "pushing" /\ named
    /\ Accepted(c)
    /\ remote' = local
    /\ tracking' = Tracked(local)
    /\ GitGoto(c, "pushed")
    /\ UNCHANGED <<there, local, named>>

\* Mutant of HasPushed: git did not complain.
HasPushedAnyway(c) == TRUE

\* The commit is the one it was before.
HasPushed(c) == before[c] = local

Pushed(c) ==
    /\ pc[c] = "pushed"
    /\ Answer(c, [success |-> TRUE, pending |-> FALSE, pushed |-> HasPushed(c), commit |-> local])

\* How far the branch is ahead and behind comes of one command, the commit
\* of a later one; without a branch that is followed both are 0.
Ahead == IF tracking = None THEN {} ELSE local \ tracking
Behind == IF tracking = None THEN {} ELSE tracking \ local

StatusRead(c) ==
    /\ pc[c] = "status"
    /\ answers' = [answers EXCEPT ![c] = [success |-> FALSE, pending |-> TRUE, ahead |-> Ahead,
                                          behind |-> Behind, follows |-> tracking # None,
                                          known |-> remote]]
    /\ pc' = [pc EXCEPT ![c] = "revparse"]
    /\ UNCHANGED <<asks, before, atFirst, repository>>

Status(c) ==
    /\ pc[c] = "revparse"
    /\ Answer(c, [success |-> TRUE, pending |-> FALSE, ahead |-> answers[c].ahead,
                  behind |-> answers[c].behind, follows |-> answers[c].follows,
                  known |-> answers[c].known, commit |-> local])

\* Somebody works in the repository; others push to the server.
CommitHere ==
    /\ there /\ NextCommit <= MaxCommits
    /\ local' = local \cup {NextCommit}
    /\ UNCHANGED <<asks, pc, before, atFirst, answers, there, remote, named, tracking>>

CommitElsewhere ==
    /\ NextCommit <= MaxCommits
    /\ remote' = remote \cup {NextCommit}
    /\ UNCHANGED <<asks, pc, before, atFirst, answers, there, local, named, tracking>>

GitNext ==
    \/ \E c \in GitCalls :
           \/ Begin(c) \/ Fail(c) \/ GetRemotes(c) \/ RemoveRemote(c) \/ AddRemote(c)
           \/ NoRepository(c) \/ Clone(c) \/ Cloned(c)
           \/ Pull(c) \/ Pulled(c) \/ RevParse(c) \/ Push(c) \/ Pushed(c)
           \/ StatusRead(c) \/ Status(c)
    \/ CommitHere \/ CommitElsewhere

GitSpec == GitInit /\ [][GitNext]_gitVars

-----------------------------------------------------------------------------
GitTypeOK ==
    /\ local \cup remote \subseteq 1 .. MaxCommits
    /\ there \in BOOLEAN /\ named \in BOOLEAN
    /\ pc \in [GitCalls -> {"idle", "clone", "cloned", "getRemotes", "removeRemote", "addRemote",
                            "pull", "pulled", "push", "pushing", "pushed", "status", "revparse",
                            "done"}]

Of(op) == {c \in GitCalls : asks[c].op = op /\ answers[c].success}
Unforced == \A c \in GitCalls : ~asks[c].force

(***************************************************************************)
(* The remote is missing only while a call is between the two commands, or *)
(* after one has failed there; no later call adds it, with a token or not. *)
(***************************************************************************)
RemoteIsRewritten ==
    there /\ ~named =>
        \E c \in GitCalls : /\ asks[c].token
                            /\ pc[c] = "addRemote" \/ answers[c] = Failure

(***************************************************************************)
(* A clone or a pull that succeeded has all that was on the server when    *)
(* it began, unless a push was forced; if it says nothing was updated, the *)
(* branch had it before.                                                   *)
(***************************************************************************)
PulledIsThere ==
    Unforced =>
        /\ \A c \in Of("pull") \cup Of("clone") : atFirst[c] \subseteq answers[c].commit
        /\ \A c \in Of("pull") : ~answers[c].updated => atFirst[c] \subseteq before[c]

(***************************************************************************)
(* What is said to be pushed is on the server, and no push takes a commit  *)
(* of others away, unless one is forced.                                   *)
(***************************************************************************)
PushedIsThere ==
    Unforced => /\ \A c \in Of("push") : answers[c].pushed => answers[c].commit \subseteq remote
                /\ \A c \in GitCalls : atFirst[c] \subseteq remote

(***************************************************************************)
(* A status tells what the server lacks, of the commits that were there    *)
(* when it began, as long as the branch follows one there and no push was  *)
(* forced.  It follows none once a token was used: nothing is ahead or     *)
(* behind then, whatever there is.                                         *)
(***************************************************************************)
StatusTells ==
    \A c \in Of("status") :
        IF answers[c].follows
        THEN Unforced => before[c] \ answers[c].known \subseteq answers[c].ahead
        ELSE /\ answers[c].ahead \cup answers[c].behind = {}
             /\ \E d \in GitCalls : asks[d].token

-----------------------------------------------------------------------------
(***************************************************************************)
(* The adapter to object storage (src/core/adapters/standards/s3.ts): the  *)
(* documents of a ledger under keys made of what they belong to, or of     *)
(* their content.  Each operation sends one command to the service with    *)
(* the client that the adapter has at that time; shutdown destroys it.     *)
(* The service is external: it answers in time or not, and does what it    *)
(* was asked for in either case or not at all.                             *)
(***************************************************************************)
storageVars == <<scheme, client, open, objects, storageCalls, storageAnswers, shown>>

StorageNone == [op |-> "none"]
Absent == 0

-----------------------------------------------------------------------------
Extensions == [pdf |-> ".pdf", text |-> ".txt", other |-> ""]

\* Mutant of ContentAddressedKey: the directory alone.
ContentDirectory(d) == <<"cas", d.content % 2, "", Extensions[d.type]>>

\* The hash is the content here; its first two characters are the parity.
ContentAddressedKey(d) == <<"cas", d.content % 2, d.content, Extensions[d.type]>>

\* Mutant of DocumentKey: documents of one owner by their names.
DocumentKeyByName(s, d) == <<s, d.owner, d.name, d.name>>

DocumentKey(s, d) == <<s, d.owner, d.id, d.name>>

Key(d) == IF scheme = "content" THEN ContentAddressedKey(d) ELSE DocumentKey(scheme, d)
Keys == {Key(d) : d \in Documents}

StorageInit ==
    /\ scheme \in Schemes
    /\ client = 1 /\ open = TRUE
    /\ objects = <<>>
    /\ storageCalls = [c \in StorageCalls |-> StorageNone]
    /\ storageAnswers = [c \in StorageCalls |-> StorageNone]
    /\ shown = [c \in StorageCalls |-> {}]

At(k) == IF k \in DOMAIN objects THEN objects[k] ELSE Absent

\* Without a client: exists says no, everything else throws.
Unready(op) == IF op = "exists" THEN [op |-> op, found |-> FALSE] ELSE [op |-> "thrown"]

Call(c, op, d) ==
    /\ storageCalls[c] = StorageNone
    /\ storageCalls' = [storageCalls EXCEPT ![c] = [op |-> op, document |-> d, client |-> client]]
    /\ storageAnswers' = [storageAnswers EXCEPT ![c] = IF open THEN StorageNone ELSE Unready(op)]
    /\ shown' = [shown EXCEPT ![c] = {At(Key(d))}]
    /\ UNCHANGED <<scheme, client, open, objects>>

UnderWay == {c \in StorageCalls : storageCalls[c] # StorageNone /\ storageAnswers[c] = StorageNone}

\* What every call under way on the key sees of a change.
Seen(k, content) ==
    shown' = [c \in StorageCalls |-> IF c \in UnderWay /\ Key(storageCalls[c].document) = k
                                     THEN shown[c] \cup {content} ELSE shown[c]]

Put(k, content) ==
    /\ objects' = [j \in DOMAIN objects \cup {k} |-> IF j = k THEN content ELSE objects[j]]
    /\ Seen(k, content)

Remove(k) ==
    /\ objects' = [j \in DOMAIN objects \ {k} |-> objects[j]]
    /\ Seen(k, Absent)

StorageAnswer(c, answer) == storageAnswers' = [storageAnswers EXCEPT ![c] = answer]

\* The service does what the command says.
Effect(c) ==
    LET k == Key(storageCalls[c].document) IN
    CASE storageCalls[c].op = "upload" -> Put(k, storageCalls[c].document.content)
      [] storageCalls[c].op = "delete" -> Remove(k)
      [] OTHER -> UNCHANGED <<objects, shown>>

\* The keys of one page, in the order of the service.
Page(k) ==
    LET listed == {j \in DOMAIN objects : j[1] = k[1] /\ j[2] = k[2]}
    IN  IF Cardinality(listed) <= PageSize THEN {listed} ELSE kSubset(PageSize, listed)

\* What an answer in time tells.
Result(c) ==
    LET k == Key(storageCalls[c].document)  op == storageCalls[c].op IN
    CASE op = "download" ->
            {IF k \in DOMAIN objects THEN [op |-> op, content |-> objects[k]] ELSE [op |-> "thrown"]}
      [] op = "exists" -> {[op |-> op, found |-> k \in DOMAIN objects]}
      [] op = "list" -> {[op |-> op, keys |-> page] : page \in Page(k)}
      [] OTHER -> {[op |-> op]}

Serve(c) ==
    /\ c \in UnderWay /\ (storageCalls[c].client = client /\ open)
    /\ Effect(c)
    /\ \E answer \in Result(c) : StorageAnswer(c, answer)
    /\ UNCHANGED <<scheme, client, open, storageCalls>>

\* The service fails, or its answer is lost, or the client is destroyed: what
\* was asked for may have been done.  Any error of exists means no.
ServiceFails(c) ==
    /\ c \in UnderWay
    /\ Effect(c) \/ UNCHANGED <<objects, shown>>
    /\ StorageAnswer(c, Unready(storageCalls[c].op))
    /\ UNCHANGED <<scheme, client, open, storageCalls>>

Shutdown ==
    /\ open /\ client <= MaxShut
    /\ open' = FALSE
    /\ UNCHANGED <<scheme, client, objects, storageCalls, storageAnswers, shown>>

Initialize ==
    /\ ~open
    /\ open' = TRUE /\ client' = client + 1
    /\ UNCHANGED <<scheme, objects, storageCalls, storageAnswers, shown>>

StorageNext ==
    \/ \E c \in StorageCalls :
           \/ \E ask \in StorageAsks[c] : Call(c, ask[1], ask[2])
           \/ Serve(c) \/ ServiceFails(c)
    \/ Shutdown \/ Initialize

StorageSpec == StorageInit /\ [][StorageNext]_storageVars

-----------------------------------------------------------------------------
StorageTypeOK ==
    /\ scheme \in Schemes /\ open \in BOOLEAN
    /\ client \in 1 .. MaxShut + 1
    /\ DOMAIN objects \subseteq Keys

Downloads == {c \in StorageCalls : storageAnswers[c].op = "download"}

(***************************************************************************)
(* A download gives what its key had at some moment of the call, and by    *)
(* one way of making keys or another it is a content of the document that  *)
(* was asked for: no other document lies under its key.                    *)
(***************************************************************************)
DownloadedIsItsOwn ==
    \A c \in Downloads :
        LET asked == storageCalls[c].document IN
        /\ storageAnswers[c].content \in shown[c]
        /\ IF scheme = "content" THEN storageAnswers[c].content = asked.content
           ELSE \E d \in Documents : /\ d.content = storageAnswers[c].content
                                     /\ d.owner = asked.owner /\ d.id = asked.id

(***************************************************************************)
(* What is found to exist was there; that it does not exist is also said   *)
(* when the service cannot be asked, so who uploads only what does not     *)
(* exist writes over what does -- which keys made of contents survive.     *)
(***************************************************************************)
FoundWasThere ==
    \A c \in StorageCalls :
        storageAnswers[c].op = "exists" /\ storageAnswers[c].found => shown[c] # {Absent}

(***************************************************************************)
(* A list that is shorter than a page has every key of its prefix that was *)
(* there all the while; of more than a page the adapter never asks for the *)
(* rest, and nothing in the answer tells.                                  *)
(***************************************************************************)
ShortListIsAll ==
    \A c \in StorageCalls :
        /\ storageAnswers[c].op = "list" /\ Cardinality(storageAnswers[c].keys) < PageSize
        /\ Absent \notin shown[c]
        => Key(storageCalls[c].document) \in storageAnswers[c].keys
=============================================================================
