--------------------------- MODULE IntentHandlers ---------------------------
(***************************************************************************)
(* The built-in intents (src/core/api/intent-api.ts and intent-handlers/): *)
(* requests that are handled concurrently over one event store.  A handler *)
(* is a sequence of awaited steps, and other requests run between any two  *)
(* of them.  Every definition below that is named for an intent lists the  *)
(* steps its handler awaits, in the order of the code; the actions say     *)
(* what a step does.  Payloads are left out; what is kept of a file is the *)
(* number of its version and who wrote the content under that number.      *)
(***************************************************************************)
EXTENDS Naturals, Sequences, FiniteSets, SequencesExt

CONSTANTS
    Requests,   \* requests for an intent, each handled once
    Old,        \* the id of a file, a function and a repository made earlier
    Mixes,      \* the intents asked for: functions on some of the requests
    Checkeds    \* whether the store checks versions: TRUE of PostgreSQL's

VARIABLES
    intent,     \* request |-> the intent it asks for
    checked,    \* which of the stores is configured
    pc,         \* request |-> steps done; 0 before it is received
    outcome,    \* request |-> "none", or how it was answered
    start,      \* request |-> length of the log when it was received
    current,    \* request |-> the file version it has read
    latest,     \* request |-> kind |-> the aggregate version it has read
    log,        \* the events
    stored,     \* content in the workspace storage: records with a unique key
    ran         \* requests whose function ran, or whose git command did

vars == <<intent, checked, pc, outcome, start, current, latest, log, stored, ran>>

-----------------------------------------------------------------------------
(* The handlers.                                                           *)

Authorize       == [do |-> "authorize"]
Read            == [do |-> "read"]
Keep            == [do |-> "keep"]
Fetch           == [do |-> "fetch"]
Run             == [do |-> "run"]
Throw           == [do |-> "throw"]
Latest(kind)    == [do |-> "latest", kind |-> kind]
Put(kind, type) == [do |-> "append", kind |-> kind, type |-> type]

\* getLatest followed by append of the version after it.
Record(kind, type) == <<Latest(kind), Put(kind, type)>>

\* Mutant of UploadFile: the event first.
UploadFileEventFirst == <<Authorize>> \o Record("File", "FileUploaded") \o <<Keep>>

UploadFile       == <<Authorize, Keep>> \o Record("File", "FileUploaded")
DownloadFile     == <<Authorize, Read, Fetch>>
ListFiles        == <<Authorize>>
\* Mutant of ModifyFile: the events of the file are not read.
ModifyFileUnread == <<Authorize, Keep>> \o Record("File", "FileModified")

ModifyFile       == <<Authorize, Read, Keep>> \o Record("File", "FileModified")
DeleteFile       == <<Authorize, Read>> \o Record("File", "FileDeleted")
RegisterFunction == <<Authorize, Keep>> \o Record("Function", "FunctionRegistered")
ExecuteFunction  == <<Authorize, Fetch, Run>> \o Record("Function", "FunctionExecuted")
ExecuteScript    == <<Authorize, Throw>>
\* Mutant of CloneRepository: the clone is made before anyone is asked.
CloneRepositoryUnasked == <<Run, Authorize>> \o Record("Repository", "RepositoryCloned")

CloneRepository  == <<Authorize, Run>> \o Record("Repository", "RepositoryCloned")
PullRepository   == <<Authorize, Read, Run>> \o Record("Repository", "RepositoryPulled")
PushRepository   == <<Authorize, Read, Run>> \o Record("Repository", "RepositoryPushed")
Register         == Record("Party", "PartyRegistered")
Propose          == Record("Agreement", "AgreementProposed")
RegisterAsset    == Record("Asset", "AssetRegistered")
\* Mutant of RegisterWorkspace: activated before the owner has consented.
RegisterWorkspaceUnconsented ==
    <<Latest("Asset"), Latest("Workspace"), Put("Asset", "AssetRegistered"),
      Put("Workspace", "WorkspaceCreated")>>
    \o Record("Agreement", "AgreementProposed")
    \o Record("Agreement", "AgreementActivated")
    \o Record("Agreement", "PartyConsented")

RegisterWorkspace ==
    <<Latest("Asset"), Latest("Workspace"), Put("Asset", "AssetRegistered"),
      Put("Workspace", "WorkspaceCreated")>>
    \o Record("Agreement", "AgreementProposed")
    \o Record("Agreement", "PartyConsented")
    \o Record("Agreement", "AgreementActivated")

\* consent, fulfill, terminate, transfer, transition and the queries answer
\* with success and do nothing.
Unrecorded == << >>

Handler(i) ==
    CASE i = "upload" -> UploadFile [] i = "download" -> DownloadFile
      [] i = "list" -> ListFiles [] i = "modify" -> ModifyFile
      [] i = "delete" -> DeleteFile [] i = "function" -> RegisterFunction
      [] i = "execute" -> ExecuteFunction [] i = "script" -> ExecuteScript
      [] i = "clone" -> CloneRepository [] i = "pull" -> PullRepository
      [] i = "push" -> PushRepository [] i = "register" -> Register
      [] i = "propose" -> Propose [] i = "asset" -> RegisterAsset
      [] i = "workspace" -> RegisterWorkspace [] OTHER -> Unrecorded

Kinds == {"File", "Function", "Repository", "Party", "Agreement", "Asset", "Workspace"}

\* The intents about something that is there; the others make a fresh id.
OnOld == {"download", "modify", "delete", "execute", "pull", "push"}
Id(r) == IF intent[r] \in OnOld THEN Old ELSE r

\* What an intent stores or loads.
Holder(r) == IF intent[r] \in {"function", "execute"} THEN "Function" ELSE "File"

Of(kind, id) == SelectSeq(log, LAMBDA e : e.kind = kind /\ e.id = id)
Has(kind, id, type) == \E i \in DOMAIN log :
    log[i].kind = kind /\ log[i].id = id /\ log[i].type = type

LatestVersion(kind, id) ==
    LET es == Of(kind, id) IN IF es = << >> THEN 0 ELSE Last(es).version

\* The numbers under which content of a file was recorded.
FileVersions(id) == {e.file : e \in {x \in Range(log) :
    x.kind = "File" /\ x.id = id /\ x.type \in {"FileUploaded", "FileModified"}}}

\* Mutant of CurrentVersion: FileModified is passed over.
CurrentVersionUploaded(id) == 1

\* The version modify:file goes on from: a modification counts as one more.
CurrentVersion(id) ==
    LET modified == {e.file + 1 : e \in {x \in Range(log) :
            x.kind = "File" /\ x.id = id /\ x.type = "FileModified"}}
    IN Max(modified \cup {1})

\* The version under which a request stores content.
NewVersion(r) == IF intent[r] = "modify" THEN current[r] + 1 ELSE 1

-----------------------------------------------------------------------------
(* One action per kind of step.                                            *)

Seed ==
    <<[kind |-> "File", id |-> Old, type |-> "FileUploaded", version |-> 1,
       by |-> Old, file |-> 1],
      [kind |-> "Function", id |-> Old, type |-> "FunctionRegistered", version |-> 1,
       by |-> Old, file |-> 1],
      [kind |-> "Repository", id |-> Old, type |-> "RepositoryCloned", version |-> 1,
       by |-> Old, file |-> 0]>>

Content(kind, id, version, by) ==
    [kind |-> kind, id |-> id, version |-> version, by |-> by]

Init ==
    /\ intent \in Mixes
    /\ checked \in Checkeds
    /\ pc = [r \in Requests |-> 0]
    /\ outcome = [r \in Requests |-> "none"]
    /\ start = [r \in Requests |-> 0]
    /\ current = [r \in Requests |-> 1]
    /\ latest = [r \in Requests |-> [k \in Kinds |-> 0]]
    /\ ran = {}
    /\ \/ /\ log = Seed
          /\ stored = {Content("File", Old, 1, Old), Content("Function", Old, 1, Old)}
       \/ log = << >> /\ stored = {}

Receive(r) ==
    /\ pc[r] = 0
    /\ pc' = [pc EXCEPT ![r] = 1]
    /\ start' = [start EXCEPT ![r] = Len(log)]
    /\ UNCHANGED <<intent, checked, outcome, current, latest, log, stored, ran>>

Steps(r) == Handler(intent[r])
Ended == 12     \* more than the steps of any handler
Next1(r) == pc' = [pc EXCEPT ![r] = @ + 1]
End(r, how) == outcome' = [outcome EXCEPT ![r] = how] /\ pc' = [pc EXCEPT ![r] = Ended]
Go(r) == Next1(r) /\ UNCHANGED outcome

\* Request r is about to do a step of this sort.
At(r, what) ==
    /\ pc[r] \in 1..Len(Steps(r))
    /\ Steps(r)[pc[r]].do = what

\* The authorization engine's answer; a refusal is the end of the request.
Permit(r) ==
    /\ At(r, "authorize")
    /\ Go(r) \/ End(r, "denied")
    /\ UNCHANGED <<intent, checked, start, current, latest, log, stored, ran>>

\* getByAggregate, folded: what has been deleted, or is not there, is an
\* error, but a modification goes on without a file.
ReadEvents(r) ==
    /\ At(r, "read")
    /\ IF intent[r] \in {"pull", "push"}
       THEN /\ IF Has("Repository", Old, "RepositoryCloned") THEN Go(r) ELSE End(r, "error")
            /\ UNCHANGED current
       ELSE \/ /\ Has("File", Old, "FileDeleted")
               /\ End(r, "error")
               /\ UNCHANGED current
            \/ /\ ~ Has("File", Old, "FileDeleted")
               /\ IF intent[r] # "modify" /\ FileVersions(Old) = {}
                  THEN End(r, "error") /\ UNCHANGED current
                  ELSE /\ current' = [current EXCEPT ![r] =
                             IF intent[r] = "download"
                             THEN Max(FileVersions(Old)) ELSE CurrentVersion(Old)]
                       /\ Go(r)
    /\ UNCHANGED <<intent, checked, start, latest, log, stored, ran>>

\* storeFile and storeFunction write over what the key held.
KeepContent(r) ==
    /\ At(r, "keep")
    /\ stored' = {c \in stored : ~ (/\ c.kind = Holder(r)
                                    /\ c.id = Id(r)
                                    /\ c.version = NewVersion(r))}
                 \cup {Content(Holder(r), Id(r), NewVersion(r), r)}
    /\ Go(r)
    /\ UNCHANGED <<intent, checked, start, current, latest, log, ran>>

\* loadFile and loadFunction.
FetchContent(r) ==
    /\ At(r, "fetch")
    /\ IF \E c \in stored : c.kind = Holder(r) /\ c.id = Id(r) /\ c.version = current[r]
       THEN Go(r) ELSE End(r, "error")
    /\ UNCHANGED <<intent, checked, start, current, latest, log, stored, ran>>

\* The sandbox runs the code, or git does its work.
RunIt(r) ==
    /\ At(r, "run")
    /\ ran' = ran \cup {r}
    /\ Go(r)
    /\ UNCHANGED <<intent, checked, start, current, latest, log, stored>>

GetLatest(r) ==
    /\ At(r, "latest")
    /\ LET kind == Steps(r)[pc[r]].kind IN
       latest' = [latest EXCEPT ![r][kind] = LatestVersion(kind, Id(r))]
    /\ Go(r)
    /\ UNCHANGED <<intent, checked, start, current, log, stored, ran>>

\* Mutant of AppendEvent: a version that is taken is passed over in silence.
AppendEventQuietly(r) ==
    /\ At(r, "append")
    /\ LET step == Steps(r)[pc[r]]
           e == [kind |-> step.kind, id |-> Id(r), type |-> step.type,
                 version |-> latest[r][step.kind] + 1, by |-> r, file |-> 0]
       IN /\ log' = IF checked /\ LatestVersion(step.kind, Id(r)) # latest[r][step.kind]
                    THEN log ELSE Append(log, e)
          /\ Go(r)
    /\ UNCHANGED <<intent, checked, start, current, latest, stored, ran>>

AppendEvent(r) ==
    /\ At(r, "append")
    /\ LET step == Steps(r)[pc[r]]
           e == [kind |-> step.kind, id |-> Id(r), type |-> step.type,
                 version |-> latest[r][step.kind] + 1, by |-> r, file |->
                 IF step.type \in {"FileUploaded", "FileModified", "FunctionRegistered"}
                 THEN NewVersion(r) ELSE 0]
       IN IF checked /\ LatestVersion(step.kind, Id(r)) # latest[r][step.kind]
          THEN UNCHANGED log /\ End(r, "error")
          ELSE log' = Append(log, e) /\ Go(r)
    /\ UNCHANGED <<intent, checked, start, current, latest, stored, ran>>

\* What a handler awaits throws, or the process ends: the request goes no
\* further.  A function that fails is recorded and answered with an error.
Fail(r) ==
    /\ pc[r] \in 1..Len(Steps(r))
    /\ End(r, "error")
    /\ UNCHANGED <<intent, checked, start, current, latest, log, stored, ran>>

Answer(r) ==
    /\ pc[r] = Len(Steps(r)) + 1
    /\ End(r, "ok") \/ (intent[r] = "execute" /\ End(r, "failed"))
    /\ UNCHANGED <<intent, checked, start, current, latest, log, stored, ran>>

Next == \E r \in DOMAIN intent :
    \/ Receive(r) \/ Permit(r) \/ ReadEvents(r) \/ KeepContent(r)
    \/ FetchContent(r) \/ RunIt(r) \/ GetLatest(r) \/ AppendEvent(r)
    \/ Fail(r) \/ Answer(r)

Spec == Init /\ [][Next]_vars

-----------------------------------------------------------------------------
(* Properties.                                                             *)

TypeOK ==
    /\ intent \in Mixes
    /\ checked \in BOOLEAN
    /\ pc \in [Requests -> 0..Ended]
    /\ outcome \in [Requests -> {"none", "ok", "failed", "denied", "error"}]
    /\ start \in [Requests -> 0..Len(log)]
    /\ current \in [Requests -> Nat]
    /\ latest \in [Requests -> [Kinds -> Nat]]
    /\ \A e \in Range(log) : e.kind \in Kinds /\ e.version > 0 /\ e.by \in Requests \cup {Old}
    /\ ran \in SUBSET Requests

\* What the log says was done has been done: content recorded under a number
\* is in the storage under it, and a run or a git command that is recorded has
\* taken place.  The handlers store and run first and append afterwards.
RecordedIsDone == \A e \in Range(log) :
    /\ e.file > 0 => \E c \in stored :
           c.kind = e.kind /\ c.id = e.id /\ c.version = e.file
    /\ /\ e.type \in {"FunctionExecuted", "RepositoryCloned", "RepositoryPulled",
                      "RepositoryPushed"}
       /\ e.by # Old
       => e.by \in ran

\* A request that was refused has left nothing behind: no event, no content,
\* no run.
RefusedLeavesNothing == \A r \in Requests : outcome[r] = "denied" =>
    /\ r \notin ran
    /\ \A e \in Range(log) : e.by # r
    /\ \A c \in stored : c.by # r

\* The events of a registration are in the log in the order that makes sense
\* of them, however far it has come and whatever else was appended meanwhile.
Cause ==
    [WorkspaceCreated |-> <<"Asset", "AssetRegistered">>,
     PartyConsented |-> <<"Agreement", "AgreementProposed">>,
     AgreementActivated |-> <<"Agreement", "PartyConsented">>]
EffectsFollowCauses == \A i \in DOMAIN log : log[i].type \in DOMAIN Cause =>
    \E j \in 1..(i - 1) :
        /\ log[j].kind = Cause[log[i].type][1]
        /\ log[j].type = Cause[log[i].type][2]
        /\ log[j].id = log[i].id

\* The last event of an intent; the intents without one record nothing.
Outcome ==
    [upload |-> "FileUploaded", modify |-> "FileModified", delete |-> "FileDeleted",
     function |-> "FunctionRegistered", execute |-> "FunctionExecuted",
     clone |-> "RepositoryCloned", pull |-> "RepositoryPulled",
     push |-> "RepositoryPushed", register |-> "PartyRegistered",
     propose |-> "AgreementProposed", asset |-> "AssetRegistered",
     workspace |-> "AgreementActivated"]

\* An answer of success to an intent that records something stands on an event
\* of this request, once; an intent that failed before it appended anything is
\* free to be sent again.
SuccessIsRecorded == \A r \in Requests :
    outcome[r] = "ok" /\ intent[r] \in DOMAIN Outcome =>
        Cardinality({i \in DOMAIN log :
            log[i].by = r /\ log[i].type = Outcome[intent[r]]}) = 1

\* A request that comes when the deletion of its file is in the log does not
\* succeed, whatever its handler was waiting for in between.
DeletedIsFinal == \A r \in Requests :
    outcome[r] = "ok" /\ intent[r] \in {"download", "modify", "delete"} =>
        \A i \in 1..start[r] : ~ (log[i].type = "FileDeleted" /\ log[i].id = Id(r))

\* An edit that was recorded before the next one came keeps its content: only
\* modifications that overlap write over each other's.
Recorded(r, i) == log[i].by = r /\ log[i].type = "FileModified"
Apart(r, q) ==
    \/ pc[q] = 0
    \/ \E i \in DOMAIN log : Recorded(r, i) /\ i <= start[q]
    \/ \E i \in DOMAIN log : Recorded(q, i) /\ i <= start[r]
EditsApartAreKept == \A r \in Requests : \A i \in DOMAIN log :
    /\ Recorded(r, i)
    /\ \A q \in DOMAIN intent \ {r} : intent[q] = "modify" => Apart(r, q)
    => Content("File", log[i].id, log[i].file, r) \in stored
=============================================================================
