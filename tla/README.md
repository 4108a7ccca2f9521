# TLA+ models of dinghy (personal-cloud)

This directory holds specifications of the parts of this repository whose
correctness depends on the order in which independent things happen, the TLC
configurations that check them on small instances, and proofs checked by TLAPS
for every size. All definitions are translated from the source; `PROJECT.json`
names for each of them the lines it stands for.

Run `tlc -config X.cfg M.tla` for a run and `tlapm M.tla` for the proofs; the
runs and their modules are listed in `PROJECT.json`.

## 1. The system

dinghy deploys applications, databases and public domains onto machines the
user owns. There are two editions:

* **hosted** (`apps/control-cloud`, TypeScript on Cloudflare Workers): one
  Durable Object per workspace holds all documents in SQLite; D1 holds the
  directory (users, sessions, which workspace owns which machine or host name);
  R2 holds registry blobs, backups and artifacts;
* **self-hosted** (`crates/control-plane`, Rust over PostgreSQL), several tasks
  of one process that share rows by leases and advisory locks.

Both drive the same agent (`crates/agent`) on each machine, which reaches a
local Nomad. Both are modelled; a component that exists in both has a module for
each, because they protect themselves by different means.

### Components, their state and operations

| component | source | state | operations | why it is hard | module |
|---|---|---|---|---|---|
| Registry uploads | `registry.ts` 356-727 | one Durable Object per upload: chunk list, size, lease, alarm; R2 objects | init, PATCH, PUT, DELETE, lease renewal, alarm | requests overlap; leases expire while bodies stream; lost replies; eviction | `RegistryUpload` |
| Registry front end | `registry.ts` 45-354 | R2 manifests, blobs and tags | authorize, HEAD/GET, manifests | a manifest before what it names; a worker that ends halfway | `Registry` |
| Command relay | `workspace.ts` 354-431, `fleet.ts` 429-485, `provision.rs` 400-490 | `commands` documents | requestNomad, agent poll, result, prune | lost messages, restarts, unknown outcomes | `CommandRelay` |
| Deployments | `runtime/deploy.ts`, `runtime/common.ts`, `runtime.ts` | `deployments`, `services`, `runtime_stops`, Nomad jobs | deploy, rollback, phases, promote, clean-up, health, remove | the alarm works on documents it read earlier while requests change them | `Deployment` |
| Domains and tunnel | `integrations.ts` | `domains`, `settings/tunnel`, DNS, tunnel configuration | add, delete, reconcile, configure, acknowledge | configuration applied but not acknowledged or not recorded | `Domains`, `Deployment` |
| Fleet | `fleet.ts` | `machines`, `enrollments`, `network_nodes`, D1 routes | enroll, revoke, heartbeat, config, edit, remove | two stores without a common transaction | `Fleet` |
| Databases | `runtime/database.ts` | `databases`, `bindings`, `retained_volumes` | create, attach, detach, retry, remove, reconcile | a removal or retry during reconciliation | `Databases` |
| Backups | `runtime/backups.ts`, `backup-jobs.ts` | `database_backups`, `backup_policies`, R2 objects | queue, upload, restore, delete, retention, expiry | immutable copies, clean-up that fails, late dumps | `DatabaseBackups` |
| Apple jobs | `apple-jobs.ts`, `apple-nomad.ts`, `apple.rs` | `apple_jobs` | create, start, token, artifact, result, cancel, reconcile | any order around awaits | `AppleJobs` |
| Push requests | `github.ts`, `workspace.ts`, `runtime.ts` | `webhooks`, `push_requests`, D1 deliveries, the alarm | webhook, forward, dispatch | repeated deliveries, retries, one alarm at a time | `Pushes` |
| Accounts, sockets | `auth.ts`, `index.ts`, `workspace.ts` | D1 users, sessions, flows, memberships; sockets | sign in, link, select, log out, remove member, revoke, connect | statements of many workers interleave | `Accounts` |
| Source tokens | `github.ts` | D1 user tokens, installations, memberships | refresh, mint, release, install, disconnect, revoke | a refresh token is good once; grants read before an await | `SourceTokens` |
| Migration | `migration.ts`, `export-hosted.mjs` | staged bundle, routes in D1 | export, stage, claim, activate, abort | repeated and interrupted steps over two stores | `Migration`, `HostedExport` |
| Project organization | `project-organization.ts`, `cloudflare-overview.ts`, `workspace.ts` | projects, services, assignments, connection, cache | create, remove, connect, organize | lost updates, answers of an old connection | `Organization` |
| Self-hosted deployments | `runtime/deploy.rs`, `runtime.rs`, `integrations.rs` | `deployments`, `services`, leases | deploy, rollback, select, promote, clean up, observe | leases that end while the work goes on | `SelfHostedDeploys` |
| Self-hosted domains | `integrations.rs` | `domains`, advisory locks, Cloudflare | create, provision, observe, remove | three tasks, calls that fail with effect | `SelfHostedDomains` |
| Self-hosted GitHub App | `github_app.rs` | secrets, owner, sessions, installations | register, link, sign in, unlink, refresh, synchronize | an advisory lock around some of the steps | `SelfHostedGitHub` |
| Self-hosted pushes | `integrations.rs` | outbox, branch heads, deployments | webhook, poll, queue, supersede, ensure webhook | at least once, out of order | `SelfHostedPushes` |
| Self-hosted databases | `runtime/database.rs` | `databases`, retained volumes, leases | create, provision, observe, retry, remove | registrations that come late | `SelfHostedDatabases` |
| Self-hosted fleet | `networking.rs`, `main.rs`, `runtime.rs`, `provision.rs` | tokens, machines, network nodes, commands, runtime setting | enroll, configure, remove, relay | handlers of several statements | `SelfHostedFleet` |
| Read-only views | `readiness.ts`, `preflight.ts` | - | - | computed from documents | not modelled |
| Agent provisioning | `provision.rs`, `main.rs` | files, system services | reconcile, report | system I/O | not modelled |
| Dashboard, scripts | `apps/web`, `infra`, `build` | - | - | presentation, shell | not modelled |

Interaction, hosted: the dashboard and GitHub call the workspace object over HTTP.
Its **alarm** is the only background activity: it reconciles Apple jobs,
deployments, databases, services, backups and domains one after the other.
Whatever needs a machine goes through **requestNomad**, a mailbox polled by the
agent. While a handler or the alarm awaits such a call (or Cloudflare, R2, D1),
every other request may run and change the documents; between two awaits nothing
runs. This is the source of nearly every hazard of the hosted edition.

Interaction, self-hosted: requests, deployment workers, the observers and the
controller of pushes are tasks over the same PostgreSQL. Statements are atomic;
between two of them any task may run, and a restart keeps what was committed.
Leases (`lease_until`) and advisory locks are the only protection, and the hazards
are what happens when a lease ends, a lock is dropped with its transaction, or a
value was read before the lock was taken.

What makes each component correct:

* uploads: a completed upload consists of exactly the bytes acknowledged, in
  order, and its blob is what its digest says; an operation that lost its lease
  changes nothing; nothing stays behind for ever;
* registry: whatever a tag or manifest names can be pulled;
* relay: a mutation is carried out at most once and in order; an unknown outcome
  is never turned into a repetition or into a success, and does not block for ever;
* deployments: one at a time per service; visitors are only ever routed to a
  release that housekeeping leaves alone; the current release changes only after
  its route was observed; failed and removed releases leave nothing running;
  every deployment is decided;
* domains: a name belongs to one workspace, its record leads to that workspace's
  tunnel, and its reservation is released last;
* fleet: a grant enrolls one machine, a route exists for each machine, at most
  one coordinator, no shared address, no machine removed under a workload;
* databases and backups: a removal that was accepted is carried out and leaves no
  server; a copy offered as a success exists and is not removed under a restore;
  nothing stays in the object store for a failed backup;
* Apple jobs: a build ends as it really ended, once; its credentials are released
  only while it runs;
* pushes: every push is deployed at most once, is never lost, and is tried until
  it is deployed;
* accounts: sessions belong to members; revocation is final and closes sockets;
* source tokens: a refresh token is used once and its successor is kept; a
  credential is released under a grant that is still there;
* migration: a workspace that is active has all its routes; what was exported can
  be imported, once;
* organization: rows and services have their project; a person changes what they saw.

## 2. Modules

| module | about |
|---|---|
| `RegistryUpload` | one upload object: its requests, its alarm and the bucket |
| `UploadContract` | what an upload promises: bytes are appended, then published and completed, or abandoned |
| `RegistryUploadProofs` | theorems about the alarm, limits, bytes and objects of `RegistryUpload`, and that it implements `UploadContract` |
| `Deployment` | one service: deployments, Nomad jobs, tunnel, alarm and requests |
| `DeploymentProofs` | theorems about `Deployment`: its documents, releases, routes and stops |
| `Fleet`, `FleetProofs` | the machines of one workspace: grants, enrollment, network, removal; theorems |
| `Domains`, `DomainsProofs` | public host names of several workspaces: directory, DNS zone, tunnels, alarms; theorems |
| `Databases` | databases of a workspace; extended by |
| `DatabaseBackups`, `DatabaseBackupsProofs` | backups, restores and retention, composed with the databases; theorems |
| `CommandRelay`, `AppleJobs`, `Pushes`, `SourceTokens` | suite `MCHostedWork`: the mailbox of a machine, builds on a Mac, pushes, credentials |
| `Accounts`, `Migration`, `HostedExport`, `Organization`, `Registry` | suite `MCHostedRecords`: what the directory, the bundle, the organization and the bucket hold |
| `SelfHostedDeploys`, `SelfHostedDomains`, `SelfHostedGitHub`, `SelfHostedPushes`, `SelfHostedDatabases`, `SelfHostedFleet` | suite `MCSelfHosted` |
| `MCRegistryUpload`, `MCDeployment`, `MCFleet`, `MCDomains`, `MCDatabaseBackups` | small instances for TLC |
| `MCHostedWork`, `MCHostedRecords`, `MCSelfHosted`, `MCEndings` | suites |
| `HostedWorkProofs`, `HostedRecordsProofs`, `SelfHostedProofs` | theorems about the suites of those names, part by part and together |

A **suite** checks several modules in one run. The parts share nothing, so their
interleavings would only multiply states: in a behaviour one of them moves, the one
that the variable `focus` names, and the others stay in their initial states. A
property of a suite is a conjunction of properties of its parts; what each conjunct
says is written where it is defined. `Endings` is the suite for liveness, and its
fairness is that of the part that moves.

`RegistryUpload` implements `UploadContract` (`ImplementsContract`), and
`DatabaseBackups` is the composition of backups with `Databases`, whose state it
reads and changes. The other modules share no variable: what one sees of another is
a nondeterministic choice that contains every outcome the other allows. `Deployment`
and `Domains` see Nomad and Cloudflare through calls that may fail, be lost, or take
effect unnoticed; `Domains` leaves the change of a service's address and the
acknowledgement of connectors to `Deployment`, and `Deployment` leaves DNS and names
to `Domains`.

`Bug...` operators are plausible mistakes in the definition that follows them:
each property is shown to notice at least one (`mutants` in `PROJECT.json`).

### RegistryUpload

State: `upload` (the record in the object's storage), `alarm`, `reaper` (the
alarm handler), `objects` and `blobs` (the bucket), and for each request its
place `pc`, its locals `work` and its `status`. One action per stretch of code
between two awaits: `Arrive` (the first look), `Claim` (the transaction that
takes the lease), `StorePart`, `Renew`, `CommitPart`, `Accept`, `Assemble`,
`ReadChunk`, `StoreAssembled`, `Verified`, `Publish`, `Finish`, `Cancel`, the
listing and deletion of `removePrefix`, and the two halves of `finally`
(`Discard`, `Release`). `UpdateOwned` is `updateOwned()`. `Fail` is any rejected
await, `Evict` a restart of the object, `Tick` time. A body is one of a few
values and a digest is the sequence of the values it stands for, so that two
contents have the same digest only if they are equal. Sizes count chunks;
bodies of the wrong length are `Fail`. Leases and the time to live are small
numbers of ticks.

`UploadContract` knows neither leases nor requests.

### CommandRelay

State: the `commands` documents (with ages instead of dates), each call of
`requestNomad`, the agent, result requests that are being handled, and how often
Nomad ran each command. `Call` is the lookup and, unless `SealYields`, the
creation; with `SealYields` other events may run while the request is encrypted
(WebCrypto in the Workers runtime completes within one turn; safety is checked
for the more permissive reading, and the absence of a second copy of an unknown
mutation, which needs that encryption does not yield, for the accurate one).
`ReadForResult` and `StoreResult` are separate because the handler awaits the body
and the encryption between reading and writing the document. `AgentLoses` is any
lost exchange or a restart.

### Deployment

State: the `service` and `deployment` documents, `runtime_stops`, the Nomad jobs,
the tunnel (the stored hash, Cloudflare's configuration, what the connectors
serve and whether they acknowledged), the domain, and the alarm with the documents
it holds (`alarm.work`, `alarm.svc`). HTTP requests (`Deploy`, `Rollback`,
`removeService`, `EditRead`/`EditSave`) interleave with the alarm wherever it
awaits something that matters to them. Alarm steps that read and write only what
the alarm owns are one action. `Refresh ... Configure, Apply, Ack` are
`refreshServiceDomains`; `Throw` says what becomes of an error there, depending on
the caller (`alarm.back`). `ensureJob` registers a job, which has no allocation until
Nomad places one (`Place`), at any time or never. `StopStep` is `stopJob`: note the
allocations there are, purge, observe those that were noted. Failures are of five kinds (`FailureKinds`), given per run: a failed
request, a lost reply of a submission, a lost reply of the tunnel configuration,
a rejection (4xx), an eviction. The constant `Start` gives the service's first
state: was it released before, and the status of its domain.

Abstractions: one service, so a problem of one service's domain that blocks the
tunnel configuration of another is not represented; a release is healthy or not,
and the 45 seconds before automatic rollback are a nondeterministic choice once
the service is marked unhealthy; Nomad answers with its state at the time of the
question (through the relay an answer may be five seconds old); a reallocation
changes the address between two values; the deadline of a deployment passes at
any time.

### Fleet

State: the documents `enrollments`, `machines` and `network_nodes` of the
workspace object, the directory's tables `enrollment_routes` and
`machine_routes`, and the requests in progress. A request runs without
interruption between two awaits: of the directory (`Offer`/`PublishGrant`,
`Revoke`/`Unpublish`, `Enroll`/`InsertRoute`/`Consume`/`Unroute`,
`Remove`/`RemoveRoute`/`RemoveDocs`) or of a body (`HeartbeatRead`/`HeartbeatSave`,
`EditRead`/`EditSave`). `Config` is `networkNode()`, which awaits nothing. A
statement of the directory may fail before or after its effect
(`DirectoryFails`, `LateEffect`). `origin` and `removing` are history variables.

Abstractions: identities and tokens are random and therefore never given twice;
the fifteen minutes of a grant may be over at any look, so a check of the date is
a choice; a report consists of its key and of whether Nomad runs; the check of
workloads and of the age of the coordinator's last report in
`assertMachineRemovable` is a choice.

### Domains

State: the `domains` documents of all workspaces, the directory `domain_routes`, the
`dns` zone, each workspace's `tunnel` (the stored hash is modelled by the
configuration it stands for) and `addressed` services, and each workspace's
`alarm` with the documents it listed (`todo`), the one it works on (`domain`) and
the configuration it sent. `reconcileDomains` is `Start`, then for each document
`Take` (which calculates what `configureTunnel` sends), `Configured`, `Connected`,
and either `Unroute`, `Release` or `Lookup`, `Create`, `Probe`/`NotReady`; `Caught` is
its catch block. `Add`/`Added`/`AddFails` and `Delete` are the requests. They run
only while the alarm awaits a call (`Turn`): storage operations do not let other
events in, and between two documents the alarm awaits nothing else. A call to
Cloudflare or the directory may fail (`Fail`), lose its reply after its effect
(`LoseReply`), or be interrupted by a restart (`Evict`), before or after its effect.

`unsure` is a history variable: the calls that took effect without their workspace
knowing. Three properties leave out names whose creation or release is among them,
because there the code's promise does not hold (section 4).

Abstractions: the services of a workspace are constant, and one is addressable
once it was deployed; connectors are ready or not at any look; the public probe
succeeds only if the name leads to some application; imported domains are left out.

### Databases and DatabaseBackups

State: the documents (`databases`, `bindings`, `retained_volumes`,
`database_backups`, `backup_policies`), the scheduler's `jobs` and
`runtime_stops`, the bucket (`artifacts`), the `uploads` of dumps, a request that
retries a database (`retrying`) and the `alarm`: what is left of the list it made, and
the document it works on. An alarm is `Start`; then for each database
`ReconcileCalls` and the answer (`Reconciled`, `StopJob`, `Removed`, `CallFails`,
`ServerChanged`), or one of the ends without a call (`ReconcileOverdue`,
`ReconcileFailed`); then `ListOperations` and for each backup or restore `Begin`
with `DestinationCreated`, `WatchJob`, `CheckObject`, or the clean-up `Sweep`,
`CleanedUp`; then `Retain` and `Expire`, `DeleteObject`, `Expired`. An answer saves
the document the alarm holds, unless `Superseded` says that the stored one was
removed: this is what makes removals during reconciliation hard. `RetryDatabase` and
`RetryQueued` are the two halves of a retry around its await. `PutData`,
`ObjectStored`, `DataStored` are the upload of a dump, which may come after the
backup failed (`Late`). `Restart` loses the alarm, the retry and the uploads.

`overtaken` (databases a retry brought back from their removal) and `interrupted`
(uploads lost with the object) are history variables: two properties leave them out,
because there the code's promise does not hold (section 4, findings 3 and the last
observations).

Abstractions: a checksum is one of a few values; a server is registered or not; the
health of a server, of a probe and of a backup job is a choice; retention looks at
the number of copies, and the age of a failed backup is left out.

### Suite HostedWork

* `AppleJobs`: the documents, the project, `allocation` (the scheduler), `stops`
  (`runtime_stops`), the `helper` on the Mac and the request of it that the object
  works on, the artifacts, and the alarm (`round`). A request is `Request`,
  `Accessed` (GitHub answered), `Queued` (the nodes are known); the alarm is
  `Alarm`, one call per job and `Rest`; a helper's request (start, token, artifact,
  result) is split where the object awaits, so that a cancellation may fall between
  the look at the job and the answer. An artifact is put, then recorded, or else
  deleted in a call of its own (`Unwanted`, `Deleted`); any of these calls may fail
  before or after its effect, or end with the object (`UploadCut`). `Lost` is a Mac or
  a request that is lost.
* `Pushes`: D1's `record` of a delivery, GitHub's requests (`handler`), the object's
  `webhooks` and `push_requests`, the alarm with the requests it listed, and one
  service. `WorkerStops` and `ObjectStops` may end a handler at any await.
* `SourceTokens`: the user token in D1 with its lock, what GitHub accepts, and
  requests that refresh it, mint a repository credential or save an installation.
  Tokens are numbered, and a refresh token is spent when it was used. `Stop` and
  `RefreshLost` end a refresh anywhere. A lock that nobody needs any more runs out at
  any time (`LockEnds`); that it runs out, after 30 seconds, under a request that still
  waits for GitHub is one of the counted mishaps, for then two requests may use one
  refresh token, and the stored token may be spent.
* `CommandRelay`: as above, once with and once without a yield while a command is
  encrypted.

### Suite HostedRecords

* `Accounts`: the user with its authorization generation, memberships, sessions,
  sign-ins in progress (`flow`), sockets and the workspaces still to be told that
  sessions have ended (`closing`). Each statement or batch of D1 is a step.
* `Migration`: the self-hosted source that still works while exports are made, the
  tables of D1, the documents and the marker of two workspaces, and imports, which
  may stop between any two steps and are repeated by the operator.
* `HostedExport`: the rows of the source in any combination its life can produce
  (`Becomes`), the export with its refusals, and the validation of the import.
  `Importable` says that the one implies the other, but for what is too large: `over`
  is what has outgrown the import's limits (`Limits`), of which the exporter checks
  only those of the whole bundle. The length of identities (`migration.ts:145`) is not
  one of them: those of the source are UUIDs.
* `Organization`: projects, the service of each, assignments with their revision,
  the Cloudflare connection, the overview that is kept, the flight of requests and
  what each dashboard has seen.
* `Registry`: blobs, manifests by digest, tags, and builders that push images whose
  parts are looked up one by one and whose objects are written one by one.

### Suite SelfHosted

A statement or transaction of PostgreSQL is a step; a lease is a row in `leased`
until `LeaseEnds`; an advisory lock is a variable that names its holder and is
dropped with the holder (`Restart`, `Cut`).

* `SelfHostedDeploys`: deployments, leases, the service, its domain, Cloudflare's
  configuration and what the connector serves, jobs, and the tasks: workers, the
  reconciler of services, the observer of domains and the creation of a domain. The
  constants `CutSaves` and `LateCleanups` add two behaviours the code allows and under
  which the properties do not hold (section 4, findings 8 and 9); the suite has
  them off.
* `SelfHostedDomains`: rows, locks, and what three tasks create and remove at
  Cloudflare and Nomad. A record is looked at (`CheckRecord`) and deleted
  (`DeleteRecord`) in two calls, between which the operator may edit it.
* `SelfHostedGitHub`: registration, owner, token, sessions, installations, and the
  lock that sign-in, synchronization and other users of the token share. A person
  revokes the App at GitHub (`Revoke`), which ends all tokens he has, those on their
  way included; the webhook comes later (`Disown`). `revoked`, `untold` and `outrun`
  are history variables: the dead tokens, the persons whose webhook is to come, and
  the tokens that were on their way when it came.
* `SelfHostedPushes`: the branch, deliveries, the outbox, the controller and the
  deployments it asks for; the webhook of the repository. A request is dated by the
  start of its transaction (`Open`, `Begin`) and is there from its commit (`Deliver`,
  `Compare`), so that the dates are not the order in which requests appear. What had
  left the queue before a request appeared is kept with it (`after`, history).
* `SelfHostedDatabases`: rows with leases, locks, a provisioner, an observer and a
  request; registrations whose caller is gone may be carried out late.
* `SelfHostedFleet`: tokens, machines, addresses, the runtime setting, and commands
  claimed by agents. The focus "fleet" has no commands, "commands" one token. What
  keeps a machine are its services and databases: deployments, which refer to it too,
  are detached before the machine is deleted (`runtime.rs:591`).

## 3. Runs

| run | instance | shows |
|---|---|---|
| `upload` | 3 requests at once, 4 kinds of request, no faults | completed uploads are whole and committed parts stay (`BytesKept`), ranges hold, blobs are what their digests say, refinement of `UploadContract` |
| `upload_faults` | 2 requests, all kinds, 1 fault, fairness | type, an alarm is pending, nothing is left behind, an idle upload is removed with all its objects |
| `deployment` | 3 deployments, 1 failure of any kind but a lost PUT | what is current or routed keeps running, what ended is stopped, one owner of a promotion, current only after routing |
| `deployment_faults` | 2 deployments, 1 failure of every kind, 1 edit | type, over all failures and edits |
| `deployment_ends` | fairness, 2 deployments, 1 failure, 1 move | deployments and housekeeping end |
| `fleet` | 2 requests at once, 3 grants, 3 machines of which 2 fit, 2 keys, slots to 3, 2 faults | grants are used once and hold, addresses and keys are distinct, one coordinator, machines kept |
| `domains` | 2 workspaces, 2 names, 1 service, 3 domains, 1 fault | reservations, records and tunnels agree, only own records are removed |
| `databases` | 1 service, 2 databases (1 by a restore), 2 backups, 1 fault (2 from a state with a kept copy), 2 checksums | copies are kept, nothing misplaced, accepted removals hold |
| `hosted_work` | 2 jobs with a limit of 1, 2 deliveries and 3 requests of GitHub, 2 requests on 3 tokens, 2 callers with 2 mutations and 2 commands, 1 fault each (`Bounded`) | nothing lost, done twice or falsely reported; owners exist; credentials released under authority; outcomes final |
| `hosted_records` | 2 sign-ins, 2 workspaces, 1 revocation; 2 exports, 2 imports, 1 stop; 2 machines, 1 volume; 1 project, 2 dashboards, 2 changes; 2 blobs, 2 images, 1 index, 2 repositories, 2 builders | references and reservations |
| `self_hosted` | 2 workers, 2 deployments, 2 faults; 2 domains, 2 faults; 2 persons, 1 installation, 2 tokens, 1 fault; 2 pushes, 2 deployments, 3 transactions, 2 faults; 1 database, 3 starts, 3 faults; 2 tokens and machines or 2 commands, 2 faults | what serves keeps running; claimed once; nothing undone |
| `endings` | one or two of everything, fairness | work ends, blocks end |

Each takes at most three minutes.

Bounds. *Uploads*: three requests are the smallest number in which a superseded
request, its successor and a client that asks again coexist; two chunks give an
offset other than zero and an order. The cancellation is left out where three
requests overlap (`Uploads`) and present with two. *Relay*: two commands with the
same key are needed for a repetition, and a third would only be the second again
after the first was pruned; one fault loses any one message or restarts the agent
once at any place; ages are compared with thresholds that keep the order
RECLAIM < EXPIRY < PRUNE, and `RECLAIM = 0` lets a claimed command be offered again
at once, the earliest the code could. *Deployments*: three releases are needed for
a predecessor that is neither current nor the one being deployed (housekeeping of
A while B is current, rollback to A while C is queued); one failure at any await
is what the catch blocks distinguish; edits and moves concern only the current
release and its successor. *Fleet*: a third machine is needed for a slot that
becomes free between two others and for one above the limit of machines; the
third grant replaces one that was revoked. *Domains*: with two names and three
domains a name is removed and added again, by the same or the other workspace,
while another is live. *Databases*: a restore needs a source, its copy and a
destination; two backups are a copy and the restore that reads it, or a copy and the
one for which retention gives it up; the second initial state is reachable without a
fault, and starting there leaves a fault for what happens to a kept copy. *Jobs*: a
second job meets the limit and shares the alarm; only one of the two gets as far as
a Mac (`Bounded`), for there they share nothing. *Pushes*: a third request of GitHub
is a redelivery beside two pushes. *Tokens*: two requests contend for the lock, the
third token is the successor of the one that was refreshed. *Accounts*: two
sign-ins are an old session and a sign-in that overtakes a revocation or a removal.
*Migration*: two imports of the same or of two exports, one of which stops; the run
gives each workspace one bundle, and that a second bundle for the same workspace
changes nothing is shown by the theorem only.
*Organization*: two dashboards overwrite each other; the second change of the
connection comes while the first one's requests are under way. *Self-hosted*: two
workers share a deployment whose lease ended; two domains follow each other under
one host name; three starts are a server, its replacement and a late one; three
transactions are those of two deliveries, and of a poll or a delivery that comes again.
The two callers that set up a webhook are the same to the code, hence the symmetry.

What is left out of a run, and why. In `deployment` no moves, which would multiply its
states (the theorem covers any number of them); no edits, because `CurrentAfterRouting` does not hold with them (`runtime.ts:312`); no lost
PUT, because of finding 1. `deployment_ends` does not start with a first
deployment of a service that already has a domain (`deploy.ts:386`).
`SelfHosted` has `CutSaves` and `LateCleanups` off because of findings 8 and 9.
In `hosted_work` the mailbox loses messages only where a command is encrypted in one
step, as in the runtime (`Bounded`); the theorems of section 5 are free of both bounds.

Deadlock is not checked: callers, grants, deployments and domains are bounded, so
every run really comes to rest.

Fairness. Requests in progress are continued by the runtime (weak fairness of each
request's steps); alarms are retried by the platform until they return, and the
workspace's alarm is armed again at the end of each alarm while a deployment is
active, a push waits, a socket is open or a domain exists (`workspace.ts` 526-554),
and by every heartbeat (`fleet.ts` 380) otherwise; the agent polls for ever; a purged
container exits (`AppleJobs.Exit` of a deregistered job); connectors fetch their
configuration; time passes; an active deployment ends, which `deployment_ends` shows
(`Pushes.DeploymentEnds`). Weak fairness of an alarm's step supposes that the earlier
stages of the same alarm return, each of which catches the errors of its calls.
Nothing is assumed of clients, of Nomad starting a job, of a release or database
becoming healthy or of a probe succeeding: that a deployment is decided follows from
its deadline, and that a removal ends needs only that every service of the workspace
has an address, without which the tunnel's configuration cannot be written.
`WorkEnds` is checked of the mailbox, builds, pushes, domains and copies each alone;
the self-hosted modules are checked for safety only.

## 4. Findings

Each is a property of the module named. It is stated there beside the others but not
part of a run; TLC finds it violated when it is added to the run's instance (for a
part of a suite: as `A!CancelledHasExited` in a module that extends the suite's).
`PROJECT.json` quotes what the code says of itself.

1. `Deployment.RoutedKeepsRunning`, with `"put"` among the `Failures`: the hash of
   the tunnel configuration is stored after the reply (`integrations.ts:133-144`).
   If the reply is lost, the failing candidate is stopped while it is still routed.
2. `Domains.DeletionHolds`: the alarm saves a domain it read before its awaits
   (`integrations.ts:609, 622, 634`) and forgets a removal that was accepted
   meanwhile, without any failure.
3. `DatabaseBackups.RemovalIsFinal`: a retry saves the document it read before two
   awaits (`runtime/database.ts:114-140`) over a removal accepted meanwhile.
   `RemovalHolds` is what remains: nothing but such a retry takes a removal back.
4. `HostedExport.ExportIsSettled`: the exporter refuses databases that are being
   removed, but not those whose removal failed (`export-hosted.mjs:141-144`); the
   hosted edition brings such a database up again.
5. `AppleJobs.QueueBounded`: the queue's limit is checked before the awaits of a
   request and not when its job is stored (`apple-jobs.ts:231-265`).
6. `AppleJobs.CancelledHasExited`: an allocation placed after `stopJob` noted the
   allocations may run after its job counts as cancelled (`runtime/common.ts:96-142`).
   `Deployment.FailedHasExited` is the same for the jobs of a deployment: one whose
   evaluation is pending has no allocation to note, and gets one before the purge.
7. `Pushes.NoPushOfGone`: the push request of a removed service is never deleted
   (`workspace.ts:442-461`) and forbids the removal of the last machine for ever.
8. `SelfHostedDeploys.RoutedRuns`, with `CutSaves`: the counterpart of finding 1 in
   `integrations.rs:1134-1144`.
9. `SelfHostedDeploys.CurrentRuns`, with `LateCleanups`: the lease of a failing
   deployment is no longer renewed during its clean-up (`runtime/deploy.rs:133-145`),
   and another worker takes it up.
10. `SelfHostedDomains.StaysRemoved`: a status is written over an accepted removal
    (`integrations.rs:964, 1144`).
11. `SelfHostedDomains.RoutedHasTunnel`: after a crash before the tunnel is stored, a
    route decodes a null (`integrations.rs:1129, 1370`).
12. `SelfHostedDomains.FailedIsClean`: the lock is given back before the status of a
    failed domain is stored (`integrations.rs:833-837`).
13. `SelfHostedGitHub.GrantsOfOwner`: a list read for one owner is stored for the
    next (`github_app.rs:560-587`).
14. `SelfHostedGitHub.UnlinkEnds`: a sign-in verified before an unlink issues its
    session after it (`github_app.rs:436-438`).
15. `SelfHostedPushes.FollowsBranch`: requests are ordered by their arrival and not by
    the branch (`integrations.rs:1260-1325`).
16. `SelfHostedFleet.RuntimeHasMachine`: the machine the runtime names may be removed
    between the check and the removal (`runtime.rs:568-601`).
17. `AppleJobs.OnlyOffered`: an artifact that may not be kept is deleted by a call that
    may fail, and nothing tries again (`apple-jobs.ts:143-152`).
18. `HostedExport.AlwaysImportable`: the exporter writes bundles the import refuses, for
    it checks neither the size of a document nor the number of installations
    (`export-hosted.mjs:491, 605`, `migration.ts:101, 149`).
19. `SelfHostedGitHub.RevokedIsDropped`: a token that was exchanged before its
    revocation is accepted after the webhook was handled (`github_app.rs:461-489`).
20. `SelfHostedPushes.OlderNeverLater`: requests are compared by the start of their
    transactions; one that commits after a newer one was queued is queued after it
    (`integrations.rs:446-463, 1299, 1326`).
21. `SelfHostedDomains.EditedIsKept`: a record that is edited after `delete_owned_dns`
    has compared it is deleted (`integrations.rs:152-160`).

Further behaviour that the models show or that was met while writing them:

* `registry.ts:561`: after 512 chunks every operation, cancellation included, is
  answered 413, although the message of a digest mismatch (l.661) offers both.
* `runtime.ts:312-318`: a PUT of a service saves the document read before its body
  arrived and can revert a promotion. The window is short, since the entry worker
  buffers bodies (`MaxEdits = 1` in run `deployment`).
* `deploy.ts:386` with `integrations.ts:128`: the first deployment of a service that
  already has a domain, failed after its address was noted, is never decided
  (`Start` = `<<FALSE, "pending">>` in run `deployment_ends`); `deploy.ts:466` repeats
  its clean-up for ever.
* `runtime.ts:473`: a failed health check saves "degraded" over an accepted removal.
* `common.ts:98`: an allocation that is placed, or replaces another one, during
  `stopJob` may also outlive the records of a removed service.
* `fleet.ts:531-547`: a peer that joins while an accepted removal of the
  coordinator waits for the directory is left without a coordinator, whereas the
  message in l.192 asks to remove peers first.
* `fleet.ts:353, 526`: a heartbeat or an edit in progress stores the document of a
  machine that was removed in the meantime. The directory no longer routes to it.
* `integrations.ts:566`: a release whose reply was lost is repeated by name and
  workspace, and takes the reservation of a domain that was added again under
  the name in between; l.681 promises that reservations are exclusive.
* `integrations.ts:590-591`: a record whose creation went unnoticed stays in the zone
  if the domain is removed before the creation is tried again; the name then
  cannot be used by another workspace.
* `integrations.ts:128`: the domain of a service that has no address prevents the
  configuration of the tunnel, and thereby additions and removals, for all
  services of the workspace, until that domain is removed.
* `integrations.ts:128-144`: if the reply to a configuration of the tunnel was lost,
  the stored hash is that of an older configuration. When the wanted configuration
  returns to that older one, it is taken for present although the tunnel has the
  newer: a domain shown as healthy may lead to another service of its workspace until
  the next change. It takes two services and two failures; `HealthyIsServed` and the
  invariants of `Domains` leave it out.
* An insertion into the directory that took effect although its reply was lost
  leaves the name reserved for a domain that does not exist.
* `networking.rs:357-383`: a registration whose caller was dropped may still be
  claimed and carried out for a minute (`SelfHostedDatabases.revived`).
* `networking.rs:186-195`: the settings of the network are read before the lock, so a
  configuration may be computed from the ones just replaced.
* `workspace.ts:208` accepts a commit of 40 to 64 hexadecimal digits, `deploy.ts:41`
  requires 40: a longer one stays a push request for ever.
* `backups.ts:437`: a copy is saved as expired from the document that was listed; a
  clean-up that a late dump asked for meanwhile is lost, and so is the clean-up after
  an upload that ended with the object (`NoOrphan` leaves both out).

## 5. Proofs

The theorems hold for any sets, numbers and bounds that satisfy the `ASSUME` of the
module, and for all its faults. Each module states an inductive invariant that
extends what is claimed; its parts are proved preserved by every action.

`RegistryUploadProofs`:

* `TypeCorrect`: `Spec => []TypeOK`. `TypeOK` is inductive as it stands; it is split
  into the record, the alarm, the bucket, requests, locals and control.
* `AlarmAlwaysPending`: a stored upload has an alarm or a running handler. The
  strengthening adds that a record that was renewed is armed: the alarm is written
  in the same transaction.
* `BlobsContentAddressed`: strengthened by *a request that is past the comparison
  has built exactly the contents its digest names*, which survives supersession
  because it speaks of the request's locals only.
* `ChunksInRange`: strengthened by *the owner of the lease asked for the present
  size*: while a request owns the lease nobody else changes the size, and every
  committed chunk was sent by a request that started.

Its second half proves `BytesKept`, `NothingLeftBehind` and `ImplementsContract`.
`BytesInv` follows a chunk from the request that brings it to the blob:

* `Opened`, `Roles`: which kind of request is where; an upload that is not stored
  holds nothing;
* `Commits`: a chunk is in the upload from the commit of its request on, not before;
* `Removals`, `Parts`: parts are removed only once nobody may add to the upload, and
  until then each chunk has its part. This is `BytesKept`;
* `OwnerSees`: the owner of the lease has read the list of chunks as it is. It fails
  for everybody else, which is why the lease is compared again after every await;
* `Assembly`, `Published`: what the owner has put together is a prefix of the chunks,
  and all of them once it compares digests;
* `Unanswered`, `CompletedIsWhole`, `AnswersHold`: a request answers with what it did,
  and a completed upload is the whole of what was acknowledged.

`NothingIsLeft` adds `Quiet` (when the period of inactivity is over no request that
may write is at work) and `Swept` (what the reaper listed is all there is). It has
the hypothesis `RequestsEnd`, as has the run: a request does not outlast the period
of inactivity. `UploadImplementsContract` takes each action to the step of the
contract it is: most stutter, a commit appends, the publication of the blob, the
completion and the end of the record are the contract's.

`FleetProofs` proves every invariant of run `fleet` (`FleetTyped`, `GrantsHonoured`,
`NetworkIsSound`, `MachinesKept`, and the parts of `GrantsHold` as `RevocationHolds`
and `OneMachinePerGrant`) from one inductive invariant, `TypeOK` together with

* `InFlight`: what requests hold: a token that is being published and an identity
  that is being enrolled are held by one request only, the identity was not given to
  a machine before, and one that is being removed is noted in `removing`;
* `GrantsTold`: the grant of an enrolled machine is used and not revoked;
* `Known`: a machine that has a document, or whose removal was accepted, was enrolled.

Slots are distinct because a new one is above all that are in use; that such a
greatest slot exists is a lemma about finite sets of naturals.

`DeploymentProofs`: `DeploymentTyped` and `OneActiveAlways`, from `ActiveInv`:

* `Typed` and `Holds`: the alarm has, for the stage it is in, a document in the phase
  that stage works on;
* `Documents`: a document the alarm read is still what is stored, because only the
  alarm writes the documents of deployments and requests only add one while none is
  active;
* `Latest`: only the last deployment created is active.

The releases build on it, in four layers:

* `OwnerInv` (`OwnerAlways`, that is `OneOwner`): the release a service calls current is
  decided and has an address, the one that is being promoted is routing or failing
  and the reservation holds its address; what the alarm holds of the service is what
  is stored (`OfService`) unless a removal was accepted (`Removal`);
* `RouteInv` (`CurrentAfterRoutingAlways`, an action property): while a refresh is under
  way its target is the upstream of the service, and a candidate is promoted only if
  hash, configuration and acknowledgement agree on it;
* `StopsInv` (`CurrentKept`), with `Reaching` and `RoutedStops` (`ServedKept`): a job is
  stopped only if its deployment is over, and an application only if it is neither
  current nor being promoted, or the service is removed; the tunnel leads only to
  releases that may be reached;
* `JobsInv` (`EndedAlways`, that is `EndedIsStopped`): documents note a job before it is
  submitted, a stop ends only when the job is no longer registered and no allocation it
  noted runs (`Stopped`), and the lists of jobs to stop contain everything a deployment
  that ends has submitted. An allocation the stop has not seen may still run, because
  it was placed or moved after the list: this is finding 6 and not part of the claim.

Their hypotheses name hazards that are real and described in section 4, under which
the properties fail: `MaxEdits = 0` leaves out a PUT that saves a service read long ago
(`runtime.ts:312-318`), which undoes a promotion; `"put" \notin Failures` (`ServedKept`
only) leaves out the lost reply of finding 1, after which the stored hash is not that
of the tunnel. All other failures, any number of deployments and moves, jobs that are
placed late or never, and every interleaving of requests with the alarm are included.

`DomainsProofs`: `DomainsTyped` and `NamesStayReserved`, from `TypeOK` together with
`AlarmKnows` (the alarm's documents have the name and workspace of the stored ones,
or those are gone), `Fresh` (what was not added yet is nowhere) and `NamesReserved`,
which extends `Reserved` to documents that are still being added and to the release
that is under way: only the last release of a name's own domain frees it.

`RoutesAlwaysAgree` and `OnlyOwnAreRemoved` (an action property) extend it to the zone
and the tunnels with `RoutesInv`:

* `Reads`, `Stages`: what the alarm holds of a domain is the stored document but for a
  removal accepted since, and its stage fits it;
* `Records`, `Owned`: a record that a document remembers is a record of its name that
  leads to its workspace, or was removed; identities of records are not given twice;
* `Kept`, `Known`: the record of a document that is live, or that the alarm may bring
  back to life, stays; and a record whose creation was noticed is remembered by a
  document of its name;
* `Configurations`, `Served`: the configuration that the alarm has sent, or found by the
  stored hash, contains every healthy domain and leads the name it works on only to
  its own service; unless an application went unnoticed the stored hash is that of
  the tunnel's configuration.

`DatabaseBackupsProofs`: `TypeCorrect` and `RemovalIsKept` (`Spec => RemovalHolds`, an
action property), about the composition of databases, backups and restores. The
invariant is

* `Documents`: what is stored is well formed, and so is what a retry holds; a
  document is *deleting* exactly in the phase *delete*;
* `Handler`: the alarm's list and its current item are well formed for the stage it
  is in: databases first, then backups and restores;
* `Reservations`: an identity that was not reserved yet is nowhere, so that the
  destination of a restore is created once and never over another database;
* `Waiting`: a restore that the alarm holds as waiting for its destination is still
  waiting in the store. This one is what the action property needs: the alarm
  writes a destination from the restore it listed some awaits ago, and only because
  that restore still waits has no removal of the destination been accepted.

Besides, an answer never overwrites a removal, because `Superseded` looks at the
stored document in the same turn; and of the retries only one that began before the
removal can, which the property says. The identity of a new backup is a `CHOOSE` of a
least element, whose existence follows from the well-foundedness of the naturals.

`CopiesStay` (`CopiesAreKept`) rests on `CopiesInv`: a backup has its copy from the
success of its dump until it expires (`CopyKept`, `Dumps`); a restore at work has a
source that succeeded and whose copy has its checksum (`SourceKept`), because retention
and removal skip a copy that is being read; and what the alarm listed differs from
what is stored only in ways that are harmless (`Works`, `Lists`, `Interruptions`). Each
action is first classified by what it does to one backup (`Changes`), and the parts
are proved for the classes.

`NothingIsMisplaced` (`NothingMisplaced`) rests on `PlacesInv`: no server without a
document (`NoOrphans`), a document that is being removed is not bound and goes last
(`Deletions`), at most one backup or restore at work on a database (`OneActive`), copies
and bindings belong to stored databases (`CopiesOfStored`, `Attached`), the destination
of a restore appears once (`Destinations`, `Sources`), and a retry or a round of the
alarm does not bring a document back that is gone (`Retried`, `Rounds`). The classes of
what a step does to one database are `Becomes`.

`HostedWorkProofs` proves all that run `hosted_work` checks (`WorkTyped`,
`DoneOnceAlways`, `OwnersAlwaysExist`, `ReleasesAlwaysHold`, `OutcomesAlwaysHold`), from
`WorkInv`: the invariants of the parts, each kept by the steps of its part and by
steps that leave its variables alone.

* `MailInv` (relay): commands are numbered and keep their keys (`Numbered`); a mutation
  is handed out once, and until then nobody has it (`HandedOnce`); it has one report
  (`ReportedOnce`); success is told only of what has run (`Real`); and while a mutation
  may still be handed out no later one has run (`InTurn`). `OneOpen`, that a mutation
  has at most one open command, holds only where the lookup and the insertion of a
  command are one step, as in the runtime; the part of `DoneOnce` that says so for
  focus *mailbox* needs it, and the rest of the theorems do not.
* `TokenInv`: who refreshes has the lock and knows which token it replaces
  (`Refreshing`); without a mishap the stored token is good and unspent unless its
  successor is about to be stored (`Kept`).
* `PushInv`: what a worker reports as completed was handled (`Handled`); what waits does
  so once, and includes what the alarm has not got to (`InLine`); what was handled
  waits or was deployed, and waits although it was deployed only after a stop
  (`Counted`).
* `AppleInv`: the round of the alarm is about active jobs (`Rounds`), which is why an
  answer that comes late finds the job active or cancelled; a job that was
  deregistered is not placed, and the helper has one request (`Placed`); what is stored
  is offered, about to be recorded or deleted, or left by a request that failed
  (`Stocked`); with `EndIsTrue` and `ActiveHasProject`. Each
  action is classified by what it does to one job (`DocMoves`, `PlaceMoves`, `StopMoves`,
  `HelpMoves`), and the parts are proved for the classes.

They assume `WorkAssumption`: the ages of the relay are ordered as its constants are,
bounds on faults are naturals, there is a key, and *free* is not a request.

`HostedRecordsProofs` proves all that run `hosted_records` checks (`RecordsTyped`,
`ReferencesAlwaysHold`, `StepsAlwaysHold`), from `RecordsInv`:

* `AccountsInv`: a sign-in is no younger than the authorization, whose generation it
  reads once (`Flowing`), and a session or token is of a sign-in that has begun
  (`Begun`). Without it a session could be stored under a revoked authorization by a
  sign-in that compared an older generation;
* `MigrationInv`: the documents a workspace is marked with are there (`Marked`), and an
  import that is about to activate finds the routes and the owner its batch wrote,
  although other imports run between its calls (`Claimed`);
* `ExportInv`: the rows of the source keep the references of its own schema (`Sound`),
  from which it follows that a bundle the exporter lets pass has all the references
  that the import compares, and is refused only for a limit the exporter leaves out;
* `OrganizationInv`: a dashboard that still has the present revision has seen the
  present assignments (`Seen`), and one that waits for Cloudflare and finds the present
  revision of the connection has the present account (`Waits`): this is why comparing
  a number is enough to decide on what was shown;
* `RegistryInv`: what a manifest request has compared so far stays in the bucket, which
  only grows (`Found`).

They assume `RecordsAssumption`: the user owns a workspace, two bounds are naturals,
and the words the code writes for *nothing*, *own document*, *show* and *ignore* are
names of nothing else.

`SelfHostedProofs` proves all that run `self_hosted` checks (`SelfTyped`,
`RunningAlwaysKept`, `AlwaysClaimedOnce`, `SelfStepsAlwaysHold`), from `SelfInv`:

* `DepInv` (deployments): at most one deployment is on its way, and at most one worker,
  which holds its lease, works on it (`DepWorks`); what is to be stopped is healthy or
  removed and not current (`DepRuns`); whoever talks to Cloudflare has the lock of the
  domain, and the configuration sent is that of the row but between a PUT and its save
  (`DepLocks`); and whatever address a task is making public is the current release,
  the one that is promoted, or the one whose failure is being taken back
  (`DepRoutes`). The last part says why no address becomes public while its release
  may be stopped (`DepSafe`): a worker commits a promotion only when every task that
  sends an address sends that one;
* `DomInv`: tasks make and take back things at the providers only under the lock of the
  row (`DomLocked`), and after each step of a removal what it was to take back is not
  there (`DomGot`); nothing is made for a domain that is past provisioning, so what
  was taken back stays away (`DomSafe`, `DomCleared`);
* `GitInv`: a holder that refreshes works under the lock with the token that is stored
  (`GitLocked`), tokens that are on their way are unspent and not given twice
  (`GitFresh`), and a revoked one that is on its way has its webhook to come or was on
  its way when that came (`GitTold`), from the exchange to the acceptance;
* `PushInv`: requests and open transactions have dates of their own (`PushNumbered`); a
  pending request is younger than every push that was deployed and marked, or was
  committed after that one had left the queue, and a push that is being deployed or was
  deployed but not yet marked comes before what is pending in the same sense
  (`PushOrdered`), which is what makes a restart before the mark harmless; one caller
  sets up the webhook (`PushHooked`);
* `BaseInv`: each row has one task at work on it (`BaseLocked`); a row that is gone left
  no server unless a registration came late (`BaseGone`); what is probed and observed
  is the allocation on record (`BaseSeen`);
* `FleetInv`, and `RelayInv` for the fleet that is sent commands: a machine was admitted
  by one token, which is used, addresses are below the next slot, and a command is in
  the hands of an agent only between its claim and its run.

They assume `ParametersAssumption`: bounds are naturals, at least one deployment may
be created, and the names the code keeps for *nobody*, *nothing* and the tasks other
than workers name nobody. As in the run, `CutSaves` and `LateCleanups` are off: with
either, `RunningKept` fails (section 4, findings 8 and 9). Restarts at every other
point, expired leases and failed calls are included.

Every invariant and every action property of the runs is the conclusion of a theorem
or follows from one, under the hypotheses named above; what is only model-checked is
liveness (`Reclaimed`, `EventuallySettled`, `WorkEnds`, `BlocksEnd`), which rests on
fairness and `ENABLED` and is out of the prover's reach.

## 6. Not modelled, and the plan

Not modelled, and why:

* job specifications (`runtime/jobs.ts`, `runtime/backup-jobs.ts`) and the redaction
  of logs: functions from a document to JSON or text, without state. That a job of
  a given name runs, exits or is purged is modelled where jobs are used;
* the entry worker, the document store, encryption and shared helpers: routing and
  primitives. The models rest on what they promise: synchronous documents,
  transactions no other event interleaves, tokens never given twice;
* readiness, preflight and other views: they read documents and change nothing;
* the agent's provisioning and its heartbeat data (`provision.rs` beyond the relay,
  `main.rs`): files, packages and system services. The relay and the Apple runner of
  the agent are modelled;
* of the self-hosted control plane, the edition's projects, environment variables,
  logs and metrics (`main.rs`, `runtime.rs`): single statements of one table each; the
  tunnel's container (`tunnel.rs`) beyond the version of its configuration;
* imported tunnels of an older installation and the creation of a tunnel, which an
  operator does once;
* the dashboard, installation and test scripts, except the exporter: presentation
  and shell.

Partly modelled, for the reasons in `PROJECT.json`: deployments (one service at a
time), domains (no imported tunnels), fleet (the runtime setting and the workloads
that forbid a removal are choices), the workspace object (its routing and snapshot
are reads), the agent and the self-hosted control plane.

What remains worth doing, in this order:

1. several services in `Deployment`, so that the tunnel configuration of one service
   can be blocked by the domain of another;
2. `Domains` composed with `Deployment`: one tunnel, written by both alarm stages.
