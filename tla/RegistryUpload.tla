--------------------------- MODULE RegistryUpload ---------------------------
(***************************************************************************)
(* One image-layer upload of the hosted registry: the RegistryUpload       *)
(* Durable Object, the bucket objects below its prefix, and the blobs it   *)
(* publishes.  A step is one storage transaction or one bucket call, so    *)
(* requests, the alarm and evictions of the object interleave wherever the *)
(* code awaits.                                                            *)
(*                                                                         *)
(* Data: a chunk is one token and has size 1; the digest of a content is   *)
(* the content itself (the hash is taken to be collision free); a request  *)
(* is named by its operation id.  Time: instants are countdowns, 0 is      *)
(* "expired".                                                              *)
(***************************************************************************)
EXTENDS Integers, Sequences, FiniteSets

CONSTANTS
  Op,              \* operation ids: requests that reach the object
  Data,            \* chunk contents
  Digest,          \* digests that clients may put in a final PUT
  Request,         \* the requests that clients send
  None,            \* an absent field
  LEASE_MS,        \* ticks a claimed operation stays exclusive
  UPLOAD_TTL_MS,   \* ticks of inactivity before the upload is reaped
  MAX_BLOB,        \* bound on the size of an upload
  MAX_CHUNKS,      \* bound on its chunks (512 in the code)
  MaxRenewals,     \* bound: 15-second lease renewals per request
  MaxFaults,       \* bound: evictions of the object and failed alarms
  RequestsEnd      \* TRUE: no request outlives UPLOAD_TTL_MS

ASSUME UploadAssumption ==
  /\ Digest \subseteq Seq(Data)
  /\ None \notin Op \union Digest \union Data \union Nat
  \* A digest comes with a PUT and only with it, a DELETE has no body; a
  \* Content-Range is optional (-1).
  /\ Request \subseteq
       [method : {"PATCH"}, body : Data \union {None},
        start : {-1} \union Nat, digest : {None}] \union
       [method : {"PUT"}, body : Data \union {None},
        start : {-1} \union Nat, digest : Digest] \union
       [method : {"DELETE"}, body : {None}, start : {-1}, digest : {None}]
  /\ LEASE_MS \in Nat /\ UPLOAD_TTL_MS \in Nat
  /\ 0 < LEASE_MS /\ LEASE_MS < UPLOAD_TTL_MS
  /\ MAX_BLOB \in Nat /\ MAX_CHUNKS \in Nat
  /\ MaxRenewals \in Nat /\ MaxFaults \in Nat
  /\ RequestsEnd \in BOOLEAN

VARIABLES
  upload,    \* the record under the storage key "upload"
  opened,    \* has /init run
  alarm,     \* ticks until the alarm is due, or None
  reaper,    \* the alarm handler: its position and the keys it listed
  objects,   \* keys present below registry/<workspace>/uploads/<id>/
  blobs,     \* <<digest, content>> below registry/<workspace>/blobs/
  req,       \* what each request carries
  work,      \* local variables of each request
  pc,        \* position of each request in fetch()
  status,    \* status of its response, 0 while there is none
  faults     \* evictions and alarm failures so far

vars == <<upload, opened, alarm, reaper, objects, blobs, req, work, pc,
          status, faults>>

Method == {"PATCH", "PUT", "DELETE"}
Key    == {"part", "assembled"} \X Op
Part(o)      == <<"part", o>>
Assembled(o) == <<"assembled", o>>

NoUpload == [stored |-> FALSE, chunks |-> <<>>, size |-> 0, ttl |-> 0,
             operation |-> None, lease |-> 0, completed |-> None,
             cancelled |-> FALSE]

IdleReaper == [at |-> "idle", listed |-> {}]
NoWork == [seen |-> <<>>, built |-> <<>>, committed |-> FALSE,
           renewals |-> 0, listed |-> {}]
NoReq  == [method |-> "PATCH", body |-> None, start |-> -1, digest |-> None]

Init ==
  /\ upload = NoUpload /\ opened = FALSE /\ alarm = None
  /\ reaper = IdleReaper
  /\ objects = {} /\ blobs = {}
  /\ req = [o \in Op |-> NoReq]
  /\ work = [o \in Op |-> NoWork]
  /\ pc = [o \in Op |-> "idle"]
  /\ status = [o \in Op |-> 0]
  /\ faults = 0

-----------------------------------------------------------------------------
(* Building blocks.                                                        *)

\* The bytes an upload holds, in order: those of its committed chunks.
Content(chunks) == [i \in DOMAIN chunks |-> req[chunks[i]].body]

Length(o) == IF req[o].body = None THEN 0 ELSE 1

Goto(o, next) == pc' = [pc EXCEPT ![o] = next]

\* return or throw inside the try block: the finally block still runs.
Leave(o, code) ==
  /\ Goto(o, "discard")
  /\ status' = [status EXCEPT ![o] = code]

\* Every write of the record sets updated to now, which restarts the
\* inactivity period and the alarm.
Write(u) ==
  /\ upload' = [u EXCEPT !.ttl = UPLOAD_TTL_MS]
  /\ alarm' = UPLOAD_TTL_MS

BugOwns(o) ==   \* Bug*: a plausible bug in the definition that follows it
  /\ upload.stored
  /\ ~upload.cancelled /\ upload.completed = None

\* updateOwned() accepts the caller only while the stored operation is its.
Owns(o) ==
  /\ upload.stored /\ upload.operation = o
  /\ ~upload.cancelled /\ upload.completed = None

Renewed(u) == [u EXCEPT !.lease = LEASE_MS]
Freed(u)   == [u EXCEPT !.operation = None, !.lease = 0]

BugQuietUpdate(o, u, next) ==   \* returns instead of failing
  /\ IF Owns(o) THEN Write(u) ELSE UNCHANGED <<upload, alarm>>
  /\ Goto(o, next) /\ UNCHANGED status

BugBlindUpdate(o, u, next) == Write(u) /\ Goto(o, next) /\ UNCHANGED status

\* One updateOwned() call that writes u, or its 409.
UpdateOwned(o, u, next) ==
  \/ Owns(o) /\ Write(u) /\ Goto(o, next) /\ UNCHANGED status
  \/ ~Owns(o) /\ Leave(o, 409) /\ UNCHANGED <<upload, alarm>>

InFlight == {o \in Op : pc[o] \notin {"idle", "done"}}

\* Positions at which fetch() reads a body or an object and may renew the lease.
Streaming == {"store", "read"}
-----------------------------------------------------------------------------
(* The handler of a request.                                               *)

Open ==   \* POST .../uploads/ reaches /init
  /\ ~opened
  /\ opened' = TRUE
  /\ Write([NoUpload EXCEPT !.stored = TRUE])
  /\ UNCHANGED <<reaper, objects, blobs, req, work, pc, status, faults>>

BugArrive(o, r) ==   \* a completed upload confirms any digest
  /\ pc[o] = "idle" /\ upload.stored
  /\ req' = [req EXCEPT ![o] = r]
  /\ IF upload.completed # None
     THEN /\ status' = [status EXCEPT ![o] =
                          IF r.method = "PUT" THEN 201 ELSE 404]
          /\ Goto(o, "done")
     ELSE Goto(o, "claim") /\ UNCHANGED status
  /\ UNCHANGED <<upload, opened, alarm, reaper, objects, blobs, work, faults>>

\* The first read of the record, outside any transaction.
Arrive(o, r) ==
  /\ pc[o] = "idle" /\ opened
  /\ req' = [req EXCEPT ![o] = r]
  /\ \/ /\ ~upload.stored \/ upload.cancelled
        /\ status' = [status EXCEPT ![o] = 404] /\ Goto(o, "done")
     \/ /\ upload.stored /\ ~upload.cancelled /\ upload.completed # None
        /\ status' = [status EXCEPT ![o] =
             IF r.method = "PUT" /\ r.digest = upload.completed
             THEN 201 ELSE 404]
        /\ Goto(o, "done")
     \/ /\ upload.stored /\ ~upload.cancelled /\ upload.completed = None
        /\ Goto(o, "claim") /\ UNCHANGED status
  /\ UNCHANGED <<upload, opened, alarm, reaper, objects, blobs, work, faults>>

Conflicts == \/ ~upload.stored \/ upload.cancelled \/ upload.completed # None
             \/ upload.operation # None /\ upload.lease > 0
BugOutOfRange(o) == req[o].start > upload.size   \* refuses only a gap
OutOfRange(o) == req[o].start # -1 /\ req[o].start # upload.size
TooLarge(len) == \/ upload.size + len > MAX_BLOB
                 \/ Len(upload.chunks) >= MAX_CHUNKS

AfterClaim(o) == IF req[o].method = "DELETE" THEN "cancel"
                 ELSE IF Length(o) > 0 THEN "store"
                 ELSE IF req[o].method = "PATCH" THEN "accept" ELSE "assemble"

Claim(o) ==
  /\ pc[o] = "claim"
  /\ \/ Conflicts /\ Leave(o, 409) /\ UNCHANGED <<upload, alarm, work>>
     \/ /\ ~Conflicts /\ OutOfRange(o)
        /\ Leave(o, 416) /\ UNCHANGED <<upload, alarm, work>>
     \/ /\ ~Conflicts /\ ~OutOfRange(o) /\ TooLarge(Length(o))
        /\ Leave(o, 413) /\ UNCHANGED <<upload, alarm, work>>
     \/ /\ ~Conflicts /\ ~OutOfRange(o) /\ ~TooLarge(Length(o))
        /\ Write([upload EXCEPT !.operation = o, !.lease = LEASE_MS])
        /\ work' = [work EXCEPT ![o].seen = upload.chunks]
        /\ Goto(o, AfterClaim(o)) /\ UNCHANGED status
  /\ UNCHANGED <<opened, reaper, objects, blobs, req, faults>>

\* updateOwned(operation) every 15 seconds of a slow body or a slow read.
Renew(o) ==
  /\ pc[o] \in Streaming /\ work[o].renewals < MaxRenewals
  /\ UpdateOwned(o, Renewed(upload), pc[o])
  /\ work' = [work EXCEPT ![o].renewals = @ + 1]
  /\ UNCHANGED <<opened, reaper, objects, blobs, req, faults>>

StorePart(o) ==   \* the bucket holds the whole body under the request's key
  /\ pc[o] = "store"
  /\ objects' = objects \union {Part(o)}
  /\ Goto(o, "commit")
  /\ UNCHANGED <<upload, opened, alarm, reaper, blobs, req, work, status,
                 faults>>

BugWithChunk(u, o) == [u EXCEPT !.chunks = Append(@, o)]
WithChunk(u, o) == [u EXCEPT !.chunks = Append(@, o), !.size = @ + 1]

CommitPart(o) ==
  /\ pc[o] = "commit"
  /\ UpdateOwned(o, Renewed(WithChunk(upload, o)),
                 IF req[o].method = "PATCH" THEN "accept" ELSE "assemble")
  /\ work' = IF Owns(o)
             THEN [work EXCEPT ![o].committed = TRUE,
                               ![o].seen = Append(upload.chunks, o)]
             ELSE work
  /\ UNCHANGED <<opened, reaper, objects, blobs, req, faults>>

Accept(o) ==   \* the 202 of a PATCH
  /\ pc[o] = "accept"
  /\ Leave(o, 202)
  /\ UNCHANGED <<upload, opened, alarm, reaper, objects, blobs, req, work,
                 faults>>

\* The renewal before each chunk; after the last one the object is complete.
Assemble(o) ==
  /\ pc[o] = "assemble" /\ Len(work[o].built) < Len(work[o].seen)
  /\ UpdateOwned(o, Renewed(upload), "read")
  /\ UNCHANGED <<opened, reaper, objects, blobs, req, work, faults>>

ReadChunk(o) ==
  /\ pc[o] = "read"
  /\ LET chunk == work[o].seen[Len(work[o].built) + 1] IN
     \/ /\ Part(chunk) \in objects
        /\ work' = [work EXCEPT ![o].built = Append(@, req[chunk].body)]
        /\ Goto(o, "assemble") /\ UNCHANGED status
     \/ /\ Part(chunk) \notin objects
        /\ Leave(o, 500) /\ UNCHANGED work
  /\ UNCHANGED <<upload, opened, alarm, reaper, objects, blobs, req, faults>>

BugStoreAssembled(o) ==   \* no comparison
  /\ pc[o] = "assemble" /\ Len(work[o].built) = Len(work[o].seen)
  /\ objects' = objects \union {Assembled(o)}
  /\ Goto(o, "verified")
  /\ UNCHANGED <<upload, opened, alarm, reaper, blobs, req, work, status,
                 faults>>

\* The assembled object lands; then the digest of its bytes is compared.
StoreAssembled(o) ==
  /\ pc[o] = "assemble" /\ Len(work[o].built) = Len(work[o].seen)
  /\ objects' = objects \union {Assembled(o)}
  /\ \/ /\ work[o].built = req[o].digest
        /\ Goto(o, "verified") /\ UNCHANGED status
     \/ work[o].built # req[o].digest /\ Leave(o, 400)
  /\ UNCHANGED <<upload, opened, alarm, reaper, blobs, req, work, faults>>

Verified(o) ==
  /\ pc[o] = "verified"
  /\ UpdateOwned(o, Renewed(upload), "publish")
  /\ UNCHANGED <<opened, reaper, objects, blobs, req, work, faults>>

\* get of the assembled object and put of the blob under its digest.
Publish(o) ==
  /\ pc[o] = "publish"
  /\ \/ /\ Assembled(o) \in objects
        /\ blobs' = {b \in blobs : b[1] # req[o].digest}
                      \union {<<req[o].digest, work[o].built>>}
        /\ Goto(o, "finish") /\ UNCHANGED status
     \/ Assembled(o) \notin objects /\ Leave(o, 500) /\ UNCHANGED blobs
  /\ UNCHANGED <<upload, opened, alarm, reaper, objects, req, work, faults>>

Finish(o) ==
  /\ pc[o] = "finish"
  /\ UpdateOwned(o, Freed([upload EXCEPT !.completed = req[o].digest]),
                 "list")
  /\ UNCHANGED <<opened, reaper, objects, blobs, req, work, faults>>

Cancel(o) ==   \* DELETE
  /\ pc[o] = "cancel"
  /\ UpdateOwned(o, Freed([upload EXCEPT !.cancelled = TRUE]), "list")
  /\ UNCHANGED <<opened, reaper, objects, blobs, req, work, faults>>

ListPrefix(o) ==   \* removePrefix(): one listed page ...
  /\ pc[o] = "list"
  /\ work' = [work EXCEPT ![o].listed = objects]
  /\ Goto(o, "remove")
  /\ UNCHANGED <<upload, opened, alarm, reaper, objects, blobs, req, status,
                 faults>>

RemoveListed(o) ==   \* ... and its deletion
  /\ pc[o] = "remove"
  /\ objects' = objects \ work[o].listed
  /\ Leave(o, IF req[o].method = "DELETE" THEN 204 ELSE 201)
  /\ UNCHANGED <<upload, opened, alarm, reaper, blobs, req, work, faults>>

\* A body that ends early or a bucket call that throws, at any await but a
\* storage transaction.
Fail(o) ==
  /\ pc[o] \in {"store", "commit", "read", "assemble", "publish", "list",
                "remove"}
  /\ Leave(o, 500)
  /\ UNCHANGED <<upload, opened, alarm, reaper, objects, blobs, req, work,
                 faults>>

BugDiscard(o) ==   \* forgets that the part was committed
  /\ pc[o] = "discard"
  /\ objects' = objects \ {Assembled(o), Part(o)}
  /\ Goto(o, "release")
  /\ UNCHANGED <<upload, opened, alarm, reaper, blobs, req, work, status,
                 faults>>

\* The finally block: the request's own objects, each deletion may fail
\* silently, ...
Discard(o) ==
  /\ pc[o] = "discard"
  /\ LET mine == {Assembled(o)} \union
                 (IF work[o].committed THEN {} ELSE {Part(o)}) IN
     \E gone \in SUBSET (mine \intersect objects) : objects' = objects \ gone
  /\ Goto(o, "release")
  /\ UNCHANGED <<upload, opened, alarm, reaper, blobs, req, work, status,
                 faults>>

Release(o) ==   \* ... and its lease, if it still holds it.
  /\ pc[o] = "release"
  /\ \/ upload.stored /\ upload.operation = o /\ Write(Freed(upload))
     \/ ~(upload.stored /\ upload.operation = o) /\ UNCHANGED <<upload, alarm>>
  /\ Goto(o, "done")
  /\ work' = [work EXCEPT ![o] = NoWork]
  /\ UNCHANGED <<opened, reaper, objects, blobs, req, status, faults>>
-----------------------------------------------------------------------------
(* The alarm handler.                                                      *)

Deadline == IF upload.lease > upload.ttl THEN upload.lease ELSE upload.ttl

BugAlarmFires ==   \* an alarm that comes early is not set again
  /\ alarm = 0 /\ reaper.at = "idle"
  /\ alarm' = None
  /\ reaper' = IF upload.stored /\ Deadline = 0
               THEN [reaper EXCEPT !.at = "expire"] ELSE reaper
  /\ UNCHANGED <<upload, opened, objects, blobs, req, work, pc, status, faults>>

AlarmFires ==   \* the first look at the record
  /\ alarm = 0 /\ reaper.at = "idle"
  /\ \/ ~upload.stored /\ alarm' = None /\ UNCHANGED reaper
     \/ upload.stored /\ Deadline > 0 /\ alarm' = Deadline /\ UNCHANGED reaper
     \/ /\ upload.stored /\ Deadline = 0
        /\ alarm' = None /\ reaper' = [reaper EXCEPT !.at = "expire"]
  /\ UNCHANGED <<upload, opened, objects, blobs, req, work, pc, status, faults>>

Expire ==   \* the transaction, which looks again
  /\ reaper.at = "expire"
  /\ \/ /\ upload.stored /\ Deadline = 0
        /\ upload' = Freed([upload EXCEPT !.cancelled = TRUE])
        /\ reaper' = [reaper EXCEPT !.at = "list"]
     \/ /\ ~upload.stored \/ Deadline > 0
        /\ reaper' = IdleReaper /\ UNCHANGED upload
  /\ UNCHANGED <<opened, alarm, objects, blobs, req, work, pc, status, faults>>

BugReaperLists ==   \* removes the committed chunks, not the whole prefix
  /\ reaper.at = "list"
  /\ reaper' = [at |-> "remove",
                listed |-> {Part(upload.chunks[i]) : i \in DOMAIN upload.chunks}]
  /\ UNCHANGED <<upload, opened, alarm, objects, blobs, req, work, pc, status,
                 faults>>

ReaperLists ==
  /\ reaper.at = "list"
  /\ reaper' = [at |-> "remove", listed |-> objects]
  /\ UNCHANGED <<upload, opened, alarm, objects, blobs, req, work, pc, status,
                 faults>>

ReaperRemoves ==
  /\ reaper.at = "remove"
  /\ objects' = objects \ reaper.listed
  /\ reaper' = [at |-> "deleteAll", listed |-> {}]
  /\ UNCHANGED <<upload, opened, alarm, blobs, req, work, pc, status, faults>>

DeleteAll ==
  /\ reaper.at = "deleteAll"
  /\ upload' = NoUpload
  /\ reaper' = IdleReaper
  /\ UNCHANGED <<opened, alarm, objects, blobs, req, work, pc, status, faults>>
-----------------------------------------------------------------------------
(* The environment.                                                        *)

\* An alarm handler that is cut off or throws is run again by the platform.
RetriedAlarm == IF reaper.at = "idle" THEN alarm ELSE 0

Evict ==   \* the object restarts: no finally block of a request runs
  /\ faults < MaxFaults
  /\ InFlight # {} \/ reaper.at # "idle"
  /\ faults' = faults + 1
  /\ pc' = [o \in Op |-> IF o \in InFlight THEN "done" ELSE pc[o]]
  /\ status' = [o \in Op |-> IF o \in InFlight THEN 0 ELSE status[o]]
  /\ work' = [o \in Op |-> NoWork]
  /\ reaper' = IdleReaper
  /\ alarm' = RetriedAlarm
  /\ UNCHANGED <<upload, opened, objects, blobs, req>>

AlarmFails ==
  /\ faults < MaxFaults /\ reaper.at \in {"list", "remove"}
  /\ faults' = faults + 1
  /\ reaper' = IdleReaper
  /\ alarm' = 0
  /\ UNCHANGED <<upload, opened, objects, blobs, req, work, pc, status>>

Before(t) == IF t > 0 THEN t - 1 ELSE 0

Tick ==
  /\ upload.stored /\ (upload.ttl > 0 \/ upload.lease > 0)
  /\ RequestsEnd /\ InFlight # {} => upload.ttl > 1
  /\ upload' = [upload EXCEPT !.ttl = Before(@), !.lease = Before(@)]
  /\ alarm' = IF alarm = None THEN None ELSE Before(alarm)
  /\ UNCHANGED <<opened, reaper, objects, blobs, req, work, pc, status, faults>>

Handle(o) ==
  \/ Claim(o) \/ StorePart(o) \/ CommitPart(o) \/ Accept(o)
  \/ Assemble(o) \/ ReadChunk(o) \/ StoreAssembled(o) \/ Verified(o)
  \/ Publish(o) \/ Finish(o) \/ Cancel(o) \/ ListPrefix(o) \/ RemoveListed(o)
  \/ Discard(o) \/ Release(o)

Reap == AlarmFires \/ Expire \/ ReaperLists \/ ReaperRemoves \/ DeleteAll

Next ==
  \/ Open
  \/ \E o \in Op : (\E r \in Request : Arrive(o, r)) \/ Handle(o)
                    \/ Renew(o) \/ Fail(o)
  \/ Reap \/ Evict \/ AlarmFails \/ Tick

\* A request that has started goes on (its body ends or breaks off), the
\* platform runs a due alarm, and time passes.  Clients owe nothing.
Fairness == /\ \A o \in Op : WF_vars(Handle(o))
            /\ WF_vars(Reap) /\ WF_vars(Tick)

Spec     == Init /\ [][Next]_vars
FairSpec == Spec /\ Fairness
-----------------------------------------------------------------------------
(* Properties.                                                             *)

Sealed == upload.cancelled \/ upload.completed # None

Record == [stored : BOOLEAN, chunks : Seq(Op), size : Nat,
           ttl : 0..UPLOAD_TTL_MS, operation : Op \union {None},
           lease : 0..LEASE_MS, completed : Digest \union {None},
           cancelled : BOOLEAN]
Locals == [seen : Seq(Op), built : Seq(Data \union {None}),
           committed : BOOLEAN, renewals : Nat, listed : SUBSET Key]
Location == {"idle", "claim", "store", "commit", "accept", "assemble", "read",
             "verified", "publish", "finish", "cancel", "list", "remove",
             "discard", "release", "done"}
Status == {0, 201, 202, 204, 400, 404, 409, 413, 416, 500}

RecordOK  == upload \in Record /\ upload.size = Len(upload.chunks)
AlarmOK   == /\ alarm \in 0..UPLOAD_TTL_MS \union {None}
             /\ reaper \in [at : {"idle", "expire", "list", "remove",
                                  "deleteAll"},
                            listed : SUBSET Key]
BucketOK  == /\ objects \in SUBSET Key
             /\ blobs \in SUBSET ((Digest \union {None})
                                   \X Seq(Data \union {None}))
RequestOK == req \in [Op -> [method : Method, body : Data \union {None},
                             start : Int, digest : Digest \union {None}]]
LocalsOK  == work \in [Op -> Locals]
ControlOK == pc \in [Op -> Location] /\ status \in [Op -> Status]

\* Types, and the agreement of the stored size with the chunk list.
TypeOK == /\ RecordOK /\ AlarmOK /\ BucketOK /\ RequestOK /\ LocalsOK
          /\ ControlOK /\ opened \in BOOLEAN /\ faults \in Nat

\* A blob is only ever the bytes its digest names: a PUT that lost its lease
\* and publishes late still publishes verified content.
ContentAddressed == \A b \in blobs : b[1] = b[2]

\* A completed upload published every byte it had acknowledged: no chunk was
\* appended between the assembly and the completion.
CompletedIsWhole ==
  upload.completed # None =>
    /\ upload.completed = Content(upload.chunks)
    /\ <<upload.completed, upload.completed>> \in blobs

\* While an upload can still be finished, no cleanup (a finally block of a
\* superseded request, a late removal of the prefix) has taken a committed
\* part away.
PartsKept ==
  upload.stored /\ ~Sealed =>
    \A i \in DOMAIN upload.chunks : Part(upload.chunks[i]) \in objects

\* A chunk sent with a Content-Range lies at that offset, so a client that
\* asks for the offset and retries never stores a chunk twice.
RangeRespected ==
  \A i \in DOMAIN upload.chunks :
    req[upload.chunks[i]].start \in {-1, i - 1}

\* Answers tell the truth: 202 means that the chunk is in the upload for as long
\* as the upload exists, any other answer to a PATCH means that it is not, and
\* 201 means that the digest the client asked for can be pulled.
AnswersHold ==
  \A o \in Op :
    LET committed == \E i \in DOMAIN upload.chunks : upload.chunks[i] = o IN
    /\ req[o].method = "PATCH" =>
         /\ status[o] = 202 /\ req[o].body # None /\ upload.stored => committed
         /\ status[o] \notin {0, 202} => ~committed
    /\ status[o] = 201 => \E b \in blobs : b[1] = req[o].digest

\* Together: whatever requests overlap, the bytes that were acknowledged are those
\* that are kept, assembled and published (registry.ts:503-696).
BytesKept == CompletedIsWhole /\ PartsKept /\ AnswersHold

\* An upload that exists will be looked at by an alarm.
AlarmPending == upload.stored => alarm # None \/ reaper.at # "idle"

\* Once the record is gone nothing is left below its prefix: no later alarm
\* would remove it.  Holds when no request outlives the inactivity period.
NothingLeftBehind == opened /\ ~upload.stored => objects = {}

\* Every upload is reclaimed, whatever its clients leave undone.
Reclaimed == upload.stored ~> ~upload.stored

\* The upload implements the contract of UploadContract.
Contract == INSTANCE UploadContract WITH
  phase <- IF ~opened THEN "absent" ELSE IF ~upload.stored THEN "gone"
           ELSE IF upload.cancelled THEN "cancelled"
           ELSE IF upload.completed # None THEN "complete" ELSE "open",
  content <- Content(upload.chunks),
  readable <- {b[1] : b \in blobs}
ImplementsContract == Contract!Spec
=============================================================================
