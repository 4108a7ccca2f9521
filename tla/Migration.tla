------------------------------ MODULE Migration ------------------------------
(***************************************************************************)
(* Moving a self-hosted cloud to the hosted edition: the export of the     *)
(* self-hosted database (scripts/export-hosted.mjs) and the import by an   *)
(* operator (migration.ts), who retries it when it stops halfway.          *)
(*                                                                         *)
(* Every bundle is made of the same cloud, with one machine and one domain.*)
(* The bundle Second is made for the workspace y, the others for x; z is   *)
(* a third cloud, with hostnames of its own.  An import awaits D1 or the   *)
(* workspace between its steps; a call of the workspace is atomic.         *)
(***************************************************************************)
EXTENDS FiniteSets, Integers

CONSTANTS
  Bundle, Second,   \* the exports
  Import,           \* requests of operators
  ImportFaults      \* bound: imports that stop halfway

Work      == {"deployment", "promotion", "database", "domain", "push", "command"}
Target    == {"x", "y"}
Into(b)   == IF b = Second THEN "y" ELSE "x"
None      == "none"
Own       == "own"
NoMarker  == [digest |-> None, status |-> None]
NoRoute   == [to |-> None, id |-> None]
Route(w)  == [to |-> w, id |-> "source"]

VARIABLES
  source,         \* self-hosted: work that is not finished
  files,          \* bundles written
  account,        \* D1 users: the id of the GitHub account of the owner
  members,        \* D1 memberships, per workspace
  machine_route, domain_route,  \* D1
  documents,      \* per workspace: the bundles, and documents of its own
  marker,         \* per workspace: meta/migration
  writing,        \* workspaces with a request that has yet to write
  imports,
  stops

mvars == <<source, files, account, members, machine_route, domain_route, documents,
           marker, writing, imports, stops>>
tables == <<account, members, machine_route, domain_route>>
object == <<documents, marker, writing>>
export == <<source, files>>

NoImport == [pc |-> None, bundle |-> None]

\* The operator may have prepared the account and its workspace.
Init ==
  /\ source = {"deployment"} /\ files = {}
  /\ \/ account = None /\ members = [w \in Target |-> {}]
     \/ account = "user" /\ members = [x |-> {"user"}, y |-> {}]
  /\ machine_route = None /\ domain_route = NoRoute
  /\ documents = [w \in Target |-> {}] /\ marker = [w \in Target |-> NoMarker]
  /\ writing = {}
  /\ imports = [i \in Import |-> NoImport]
  /\ stops = 0

At(i, pc)  == imports[i].pc = pc
To(i, pc)  == imports' = [imports EXCEPT ![i].pc = pc]
End(i)     == imports' = [imports EXCEPT ![i] = NoImport]
Of(i)      == Into(imports[i].bundle)
Status(w)  == marker[w].status
-----------------------------------------------------------------------------
(* The self-hosted cloud.                                                  *)

SourceWorks ==
  /\ files # Bundle /\ source' = IF source = {} THEN {"deployment"} ELSE {}
  /\ UNCHANGED <<files, tables, object, imports, stops>>

\* transformLegacy, of one snapshot of the database: nothing may be under way.
AtRest == source \cap Work = {}

Export(b) ==
  /\ b \notin files /\ AtRest /\ files' = files \cup {b}
  /\ UNCHANGED <<source, tables, object, imports, stops>>
-----------------------------------------------------------------------------
(* handleMigration, in the worker.                                         *)

\* The bundle is checked, record by record.
Begin(i, b) ==
  /\ At(i, None) /\ b \in files
  /\ imports' = [imports EXCEPT ![i] = [pc |-> "user", bundle |-> b]]
  /\ UNCHANGED <<export, tables, object, stops>>

CheckUser(i) ==
  /\ At(i, "user")
  /\ IF account \in {None, "user"} THEN To(i, "members") ELSE End(i)
  /\ UNCHANGED <<export, tables, object, stops>>

CheckMembers(i) ==
  /\ At(i, "members")
  /\ IF members[Of(i)] \in {{}, {"user"}} THEN To(i, "status") ELSE End(i)
  /\ UNCHANGED <<export, tables, object, stops>>

BugAfter(i) ==
  CASE Status(Of(i)) = None     -> IF documents[Of(i)] = {} THEN "machines" ELSE "end"
    [] marker[Of(i)].digest # imports[i].bundle -> "end"
    [] Status(Of(i)) = "active" -> "end"
    [] OTHER -> "activate"

\* What follows on the state of the workspace: it is empty, or it was staged by
\* this bundle.
After(i) ==
  CASE Status(Of(i)) = None     -> IF documents[Of(i)] = {} THEN "machines" ELSE "end"
    [] marker[Of(i)].digest # imports[i].bundle -> "end"
    [] Status(Of(i)) = "active" -> "end"
    [] OTHER -> "machines"

ReadStatus(i) ==
  /\ At(i, "status")
  /\ IF After(i) = "end" THEN End(i) ELSE To(i, After(i))
  /\ UNCHANGED <<export, tables, object, stops>>

CheckMachines(i) ==
  /\ At(i, "machines")
  /\ IF machine_route \in {None, Of(i)} THEN To(i, "domains") ELSE End(i)
  /\ UNCHANGED <<export, tables, object, stops>>

CheckDomains(i) ==
  /\ At(i, "domains")
  /\ IF domain_route \in {NoRoute, Route(Of(i))} THEN To(i, "stage") ELSE End(i)
  /\ UNCHANGED <<export, tables, object, stops>>

BugVacant(w) == TRUE
\* No document that an import would overwrite.
Vacant(w) == documents[w] = {}

\* handleWorkspaceMigration stage: all documents and the marker at once.
Stage(i) ==
  LET w == Of(i)  b == imports[i].bundle IN
  /\ At(i, "stage")
  /\ \/ /\ marker[w] = NoMarker /\ Vacant(w)
        /\ documents' = [documents EXCEPT ![w] = @ \cup {b}]
        /\ marker' = [marker EXCEPT ![w] = [digest |-> b, status |-> "staged"]]
        /\ To(i, "batch")
     \/ /\ marker[w].digest = b /\ To(i, "batch") /\ UNCHANGED <<documents, marker>>
     \/ /\ IF marker[w] = NoMarker THEN ~Vacant(w) ELSE marker[w].digest # b
        /\ End(i) /\ UNCHANGED <<documents, marker>>
  /\ UNCHANGED <<export, tables, writing, stops>>

BugUnclaimed(w) == account \in {None, "user"}
\* What the batch demands of the directory: a row of another cloud becomes NULL,
\* and another account has the GitHub id.
Unclaimed(w) ==
  /\ account \in {None, "user"}
  /\ machine_route \in {None, w} /\ domain_route \in {NoRoute, Route(w)}

Batch(i) ==
  LET w == Of(i) IN
  /\ At(i, "batch")
  /\ IF Unclaimed(w)
     THEN /\ account' = "user" /\ members' = [members EXCEPT ![w] = @ \cup {"user"}]
          /\ machine_route' = w /\ domain_route' = Route(w)
          /\ To(i, "activate")
     ELSE End(i) /\ UNCHANGED tables
  /\ UNCHANGED <<export, object, stops>>

Activate(i) ==
  LET w == Of(i) IN
  /\ At(i, "activate") /\ End(i)
  /\ marker' = IF marker[w].digest = imports[i].bundle
               THEN [marker EXCEPT ![w].status = "active"] ELSE marker
  /\ UNCHANGED <<export, tables, documents, writing, stops>>

\* The worker stops, or an answer of the workspace or of D1 is lost.
Stop(i) ==
  /\ ~At(i, None) /\ stops < ImportFaults /\ stops' = stops + 1 /\ End(i)
  /\ UNCHANGED <<export, tables, object>>
-----------------------------------------------------------------------------
(* The hosted clouds.                                                      *)

BugAccessible(w) == TRUE
\* A workspace that waits for its activation takes no requests.
Accessible(w) == Status(w) # "staged"

\* A request of a member writes a document, at once or after an await of D1.
Write(w) ==
  /\ Accessible(w) /\ members[w] # {}
  /\ \/ documents' = [documents EXCEPT ![w] = @ \cup {Own}] /\ UNCHANGED writing
     \/ writing' = writing \cup {w} /\ UNCHANGED documents
  /\ UNCHANGED <<export, tables, marker, imports, stops>>

Written(w) ==
  /\ w \in writing /\ writing' = writing \ {w}
  /\ documents' = [documents EXCEPT ![w] = @ \cup {Own}]
  /\ UNCHANGED <<export, tables, marker, imports, stops>>

\* The members of an active workspace change and remove what was imported.
Use(w) ==
  /\ Accessible(w) /\ Status(w) = "active"
  /\ \/ machine_route' = None /\ machine_route = w /\ UNCHANGED domain_route
     \/ domain_route' = NoRoute /\ domain_route.to = w /\ UNCHANGED machine_route
  /\ UNCHANGED <<export, account, members, object, imports, stops>>

SignUp ==
  /\ account = None /\ account' = "another"
  /\ UNCHANGED <<export, members, machine_route, domain_route, object, imports, stops>>

AddMember(w) ==
  /\ members[w] # {} /\ members' = [members EXCEPT ![w] = @ \cup {"another"}]
  /\ UNCHANGED <<export, account, machine_route, domain_route, object, imports, stops>>

\* z, which existed before, creates a domain with the hostname, or removes it.
TakeHostname ==
  /\ domain_route' = IF domain_route = NoRoute
                     THEN [to |-> "z", id |-> "hosted"] ELSE NoRoute
  /\ domain_route.to \in {None, "z"}
  /\ UNCHANGED <<export, account, members, machine_route, object, imports, stops>>

ImportStep(i) ==
  \/ CheckUser(i) \/ CheckMembers(i) \/ ReadStatus(i) \/ CheckMachines(i)
  \/ CheckDomains(i) \/ Stage(i) \/ Batch(i) \/ Activate(i)

Next ==
  \/ SourceWorks \/ \E b \in Bundle : Export(b)
  \/ \E i \in Import : ImportStep(i) \/ Stop(i) \/ \E b \in Bundle : Begin(i, b)
  \/ \E w \in Target : Write(w) \/ Written(w) \/ Use(w) \/ AddMember(w)
  \/ SignUp \/ TakeHostname

Spec == Init /\ [][Next]_mvars
-----------------------------------------------------------------------------
(* Properties.                                                             *)

TypeOK ==
  /\ source \subseteq Work /\ files \subseteq Bundle /\ writing \subseteq Target
  /\ account \in {None, "user", "another"}
  /\ \A w \in Target :
       /\ documents[w] \subseteq Bundle \cup {Own}
       /\ marker[w].status = None <=> marker[w].digest = None
  /\ machine_route \in Target \cup {None}

\* No import takes a machine or a hostname from another cloud, whoever gets it
\* while the import is under way (migration.ts:467-498, 515-528).
RoutesHold ==
  [][/\ machine_route # None => machine_route' \in {machine_route, None}
     /\ domain_route # NoRoute => domain_route' \in {domain_route, NoRoute}]_mvars

\* A workspace becomes active with all that was imported, however often the
\* import stopped before: its documents, its routes, and its owner
\* (migration.ts:356-366, 499-551).
ActiveIsWhole ==
  [][\A w \in Target : Status(w) # "active" /\ marker'[w].status = "active" =>
       /\ marker[w].digest \in documents[w] /\ "user" \in members[w]
       /\ machine_route = w /\ domain_route = Route(w)]_mvars

\* The documents of a workspace come from one export at most, and the export was
\* stored when there was nothing to overwrite (migration.ts:379-393).
ImportedOnce ==
  [][\A w \in Target, b \in Bundle : b \in documents'[w] \ documents[w] =>
       documents[w] = {} /\ documents'[w] = {b}]_mvars

\* A staged workspace is paused: only a request accepted before may still write
\* (workspace.ts:184-185).
StagedIsPaused ==
  [][\A w \in Target : Status(w) = "staged" /\ documents'[w] # documents[w] =>
       w \in writing /\ w \notin writing']_mvars
=============================================================================
