------------------------ MODULE RegistryUploadProofs ------------------------
(***************************************************************************)
(* Theorems about RegistryUpload, for any number of requests, any contents *)
(* and any bounds.                                                         *)
(***************************************************************************)
EXTENDS RegistryUpload, TLAPS

LEMMA LeaveControl ==
  ASSUME ControlOK, NEW o \in Op, NEW code \in Status, Leave(o, code)
  PROVE  ControlOK'
BY DEF ControlOK, Leave, Goto, Location

LEMMA GotoControl ==
  ASSUME ControlOK, NEW o \in Op, NEW next \in Location, Goto(o, next),
         UNCHANGED status
  PROVE  ControlOK'
BY DEF ControlOK, Goto

LEMMA WriteTyped ==
  ASSUME AlarmOK, UNCHANGED reaper, NEW u \in Record, u.size = Len(u.chunks),
         Write(u)
  PROVE  RecordOK' /\ AlarmOK'
<1>1. UPLOAD_TTL_MS \in 0..UPLOAD_TTL_MS
  BY UploadAssumption
<1> QED
  BY <1>1 DEF RecordOK, AlarmOK, Write, Record

LEMMA UpdateOwnedTyped ==
  ASSUME RecordOK, AlarmOK, ControlOK, UNCHANGED reaper, NEW o \in Op,
         NEW u \in Record, u.size = Len(u.chunks), NEW next \in Location,
         UpdateOwned(o, u, next)
  PROVE  RecordOK' /\ AlarmOK' /\ ControlOK'
<1>1. CASE Write(u) /\ Goto(o, next) /\ UNCHANGED status
  BY <1>1, WriteTyped, GotoControl
<1>2. CASE Leave(o, 409) /\ UNCHANGED <<upload, alarm>>
  BY <1>2, LeaveControl DEF Status, RecordOK, AlarmOK
<1> QED
  BY <1>1, <1>2 DEF UpdateOwned

\* The shapes that a claim, updateOwned() and a release give the record.
LEMMA RenewedRecord ==
  ASSUME NEW u \in Record, u.size = Len(u.chunks)
  PROVE  Renewed(u) \in Record /\ Renewed(u).size = Len(Renewed(u).chunks)
<1>1. LEASE_MS \in 0..LEASE_MS
  BY UploadAssumption
<1>2. Renewed(u) \in Record
  BY <1>1 DEF Record, Renewed
<1>3. Renewed(u).size = u.size /\ Renewed(u).chunks = u.chunks
  BY DEF Record, Renewed
<1> QED
  BY <1>2, <1>3

LEMMA FreedRecord ==
  ASSUME NEW u \in Record, u.size = Len(u.chunks)
  PROVE  Freed(u) \in Record /\ Freed(u).size = Len(Freed(u).chunks)
<1>1. 0 \in 0..LEASE_MS
  BY UploadAssumption
<1>2. Freed(u) \in Record
  BY <1>1 DEF Record, Freed
<1>3. Freed(u).size = u.size /\ Freed(u).chunks = u.chunks
  BY DEF Record, Freed
<1> QED
  BY <1>2, <1>3

LEMMA LongerRecord ==
  ASSUME NEW u \in Record, u.size = Len(u.chunks), NEW o \in Op
  PROVE  /\ WithChunk(u, o) \in Record
         /\ WithChunk(u, o).size = Len(WithChunk(u, o).chunks)
<1>1. /\ Append(u.chunks, o) \in Seq(Op)
      /\ Len(Append(u.chunks, o)) = Len(u.chunks) + 1
  BY DEF Record
<1>2. WithChunk(u, o) \in Record
  <2>1. u.size + 1 \in Nat
    BY DEF Record
  <2> QED
    BY <1>1, <2>1 DEF Record, WithChunk
<1>3. WithChunk(u, o).size = u.size + 1
  BY DEF Record, WithChunk
<1>4. WithChunk(u, o).chunks = Append(u.chunks, o)
  BY DEF Record, WithChunk
<1> QED
  BY <1>1, <1>2, <1>3, <1>4

LEMMA LocalsUpdated ==
  ASSUME LocalsOK, NEW o \in Op, NEW w \in Locals,
         work' = [work EXCEPT ![o] = w]
  PROVE  LocalsOK'
BY DEF LocalsOK

LEMMA NoLocals == NoWork \in Locals
BY DEF Locals, NoWork

LEMMA NothingStored == NoUpload \in Record
<1>1. 0 \in 0..LEASE_MS /\ 0 \in 0..UPLOAD_TTL_MS
  BY UploadAssumption
<1> QED
  BY <1>1 DEF NoUpload, Record
-----------------------------------------------------------------------------
LEMMA InitTyped ==
  ASSUME Init PROVE TypeOK
<1>1. RecordOK
  BY NothingStored DEF Init, RecordOK, NoUpload
<1>2. AlarmOK /\ BucketOK
  BY DEF Init, AlarmOK, BucketOK, IdleReaper
<1>3. RequestOK
  BY DEF Init, RequestOK, NoReq, Method
<1>4. LocalsOK
  BY DEF Init, LocalsOK, Locals, NoWork
<1>5. ControlOK
  BY DEF Init, ControlOK, Location, Status
<1> QED
  BY <1>1, <1>2, <1>3, <1>4, <1>5 DEF Init, TypeOK

LEMMA NextTyped ==
  ASSUME TypeOK, [Next]_vars PROVE TypeOK'
<1> SUFFICES /\ RecordOK' /\ AlarmOK' /\ BucketOK' /\ RequestOK'
             /\ LocalsOK' /\ ControlOK' /\ (opened \in BOOLEAN)'
             /\ (faults \in Nat)'
  BY DEF TypeOK
<1> USE  DEF TypeOK
<1>1. CASE Open
  <2>1. RecordOK' /\ AlarmOK'
    <3> DEFINE u == [NoUpload EXCEPT !.stored = TRUE]
    <3>1. u \in Record /\ u.size = Len(u.chunks)
      BY NothingStored DEF NoUpload, Record
    <3> QED
      BY <1>1, <3>1, WriteTyped DEF Open
  <2> QED
    BY <1>1, <2>1 DEF Open, BucketOK, RequestOK, LocalsOK, ControlOK
<1>2. ASSUME NEW o \in Op, NEW r \in Request, Arrive(o, r) PROVE TypeOK'
  <2>1. RequestOK'
    BY <1>2, UploadAssumption DEF Arrive, RequestOK, Method
  <2>2. ControlOK'
    BY <1>2 DEF Arrive, ControlOK, Goto, Location, Status
  <2> QED
    BY <1>2, <2>1, <2>2 DEF Arrive, RecordOK, AlarmOK, BucketOK, LocalsOK
<1>3. ASSUME NEW o \in Op, Handle(o) PROVE TypeOK'
  <2>1. CASE Claim(o)
    <3> DEFINE u == [upload EXCEPT !.operation = o, !.lease = LEASE_MS]
    <3>1. u \in Record /\ u.size = Len(u.chunks)
      <4>1. LEASE_MS \in 0..LEASE_MS
        BY UploadAssumption
      <4> QED
        BY <4>1 DEF RecordOK, Record
    <3>2. RecordOK' /\ AlarmOK'
      <4>1. CASE Write(u)
        BY <2>1, <3>1, <4>1, WriteTyped DEF Claim
      <4> QED
        BY <2>1, <4>1 DEF Claim, RecordOK, AlarmOK
    <3>3. ControlOK'
      BY <2>1, LeaveControl, GotoControl
      DEF Claim, AfterClaim, Location, Status
    <3>4. LocalsOK'
      <4>1. [work[o] EXCEPT !.seen = upload.chunks] \in Locals
        BY DEF LocalsOK, Locals, RecordOK, Record
      <4> QED
        BY <2>1, <4>1, LocalsUpdated DEF Claim, LocalsOK
    <3> QED
      BY <2>1, <3>2, <3>3, <3>4 DEF Claim, BucketOK, RequestOK
  <2>2. CASE StorePart(o)
    <3>1. BucketOK'
      BY <2>2 DEF StorePart, BucketOK, Part, Key
    <3>2. ControlOK'
      BY <2>2, GotoControl DEF StorePart, Location
    <3> QED
      BY <2>2, <3>1, <3>2 DEF StorePart, RecordOK, AlarmOK, RequestOK, LocalsOK
  <2>3. CASE CommitPart(o)
    <3>1. RecordOK' /\ AlarmOK' /\ ControlOK'
      BY <2>3, UpdateOwnedTyped, RenewedRecord, LongerRecord
     DEF CommitPart, RecordOK, Location
    <3>2. LocalsOK'
      <4> DEFINE w == [work[o] EXCEPT !.committed = TRUE,
                                      !.seen = Append(upload.chunks, o)]
      <4>1. w \in Locals
        <5>1. Append(upload.chunks, o) \in Seq(Op)
          BY DEF RecordOK, Record
        <5> QED
          BY <5>1 DEF LocalsOK, Locals
      <4> QED
        BY <2>3, <4>1, LocalsUpdated DEF CommitPart, LocalsOK
    <3> QED
      BY <2>3, <3>1, <3>2 DEF CommitPart, BucketOK, RequestOK
  <2>4. CASE Accept(o)
    <3>1. ControlOK'
      BY <2>4, LeaveControl DEF Accept, Status
    <3> QED
      BY <2>4, <3>1 DEF Accept, RecordOK, AlarmOK, BucketOK, RequestOK, LocalsOK
  <2>5. CASE Assemble(o)
    <3>1. RecordOK' /\ AlarmOK' /\ ControlOK'
      BY <2>5, UpdateOwnedTyped, RenewedRecord
     DEF Assemble, RecordOK, Location
    <3> QED
      BY <2>5, <3>1 DEF Assemble, BucketOK, RequestOK, LocalsOK
  <2>6. CASE ReadChunk(o)
    <3>1. ControlOK'
      BY <2>6, LeaveControl, GotoControl
     DEF ReadChunk, Location, Status
    <3>2. LocalsOK'
      <4> DEFINE chunk == work[o].seen[Len(work[o].built) + 1]
                 w == [work[o] EXCEPT !.built = Append(@, req[chunk].body)]
      <4>1. CASE UNCHANGED work
        BY <4>1 DEF LocalsOK
      <4>2. CASE Part(chunk) \in objects /\ work' = [work EXCEPT ![o] = w]
        <5>1. chunk \in Op
          BY <4>2 DEF BucketOK, Part, Key
        <5>2. req[chunk].body \in Data \union {None}
          BY <5>1 DEF RequestOK
        <5>3. Append(work[o].built, req[chunk].body)
                \in Seq(Data \union {None})
          BY <5>2 DEF LocalsOK, Locals
        <5>4. w \in Locals
          BY <5>3 DEF LocalsOK, Locals
        <5> QED
          BY <4>2, <5>4, LocalsUpdated
      <4> QED
        BY <2>6, <4>1, <4>2 DEF ReadChunk
    <3> QED
      BY <2>6, <3>1, <3>2 DEF ReadChunk, RecordOK, AlarmOK, BucketOK, RequestOK
  <2>7. CASE StoreAssembled(o)
    <3>1. BucketOK'
      BY <2>7 DEF StoreAssembled, BucketOK, Assembled, Key
    <3>2. ControlOK'
      BY <2>7, LeaveControl, GotoControl
     DEF StoreAssembled, Location, Status
    <3> QED
      BY <2>7, <3>1, <3>2 DEF StoreAssembled, RecordOK, AlarmOK, RequestOK, LocalsOK
  <2>8. CASE Verified(o)
    <3>1. RecordOK' /\ AlarmOK' /\ ControlOK'
      BY <2>8, UpdateOwnedTyped, RenewedRecord
     DEF Verified, RecordOK, Location
    <3> QED
      BY <2>8, <3>1 DEF Verified, BucketOK, RequestOK, LocalsOK
  <2>9. CASE Publish(o)
    <3>1. BucketOK'
      BY <2>9 DEF Publish, BucketOK, RequestOK, LocalsOK, Locals
    <3>2. ControlOK'
      BY <2>9, LeaveControl, GotoControl
     DEF Publish, Location, Status
    <3> QED
      BY <2>9, <3>1, <3>2 DEF Publish, RecordOK, AlarmOK, RequestOK, LocalsOK
  <2>10. CASE Finish(o)
    <3> DEFINE u == [upload EXCEPT !.completed = req[o].digest]
    <3>1. u \in Record /\ u.size = Len(u.chunks)
      BY DEF RecordOK, Record, RequestOK
    <3>2. Freed(u) \in Record /\ Freed(u).size = Len(Freed(u).chunks)
      BY <3>1, FreedRecord
    <3> HIDE DEF u
    <3>3. UpdateOwned(o, Freed(u), "list")
      BY <2>10 DEF Finish, u
    <3>4. RecordOK' /\ AlarmOK' /\ ControlOK'
      BY <2>10, <3>2, <3>3, UpdateOwnedTyped DEF Finish, Location
    <3> QED
      BY <2>10, <3>4 DEF Finish, BucketOK, RequestOK, LocalsOK
  <2>11. CASE Cancel(o)
    <3> DEFINE u == [upload EXCEPT !.cancelled = TRUE]
    <3>1. u \in Record /\ u.size = Len(u.chunks)
      BY DEF RecordOK, Record
    <3>2. Freed(u) \in Record /\ Freed(u).size = Len(Freed(u).chunks)
      BY <3>1, FreedRecord
    <3> HIDE DEF u
    <3>3. UpdateOwned(o, Freed(u), "list")
      BY <2>11 DEF Cancel, u
    <3>4. RecordOK' /\ AlarmOK' /\ ControlOK'
      BY <2>11, <3>2, <3>3, UpdateOwnedTyped DEF Cancel, Location
    <3> QED
      BY <2>11, <3>4 DEF Cancel, BucketOK, RequestOK, LocalsOK
  <2>12. CASE ListPrefix(o)
    <3>1. ControlOK'
      BY <2>12, GotoControl DEF ListPrefix, Location
    <3>2. LocalsOK'
      <4>1. [work[o] EXCEPT !.listed = objects] \in Locals
        BY DEF LocalsOK, Locals, BucketOK
      <4> QED
        BY <2>12, <4>1, LocalsUpdated DEF ListPrefix, LocalsOK
    <3> QED
      BY <2>12, <3>1, <3>2 DEF ListPrefix, RecordOK, AlarmOK, BucketOK, RequestOK
  <2>13. CASE RemoveListed(o)
    <3>1. BucketOK'
      BY <2>13 DEF RemoveListed, BucketOK
    <3>2. ControlOK'
      BY <2>13, LeaveControl DEF RemoveListed, Status
    <3> QED
      BY <2>13, <3>1, <3>2 DEF RemoveListed, RecordOK, AlarmOK, RequestOK, LocalsOK
  <2>14. CASE Discard(o)
    <3>1. BucketOK'
      BY <2>14 DEF Discard, BucketOK
    <3>2. ControlOK'
      BY <2>14, GotoControl DEF Discard, Location
    <3> QED
      BY <2>14, <3>1, <3>2 DEF Discard, RecordOK, AlarmOK, RequestOK, LocalsOK
  <2>15. CASE Release(o)
    <3>1. RecordOK' /\ AlarmOK'
      BY <2>15, WriteTyped, FreedRecord
     DEF Release, RecordOK, AlarmOK
    <3>2. ControlOK'
      BY <2>15, GotoControl DEF Release, Location
    <3>3. LocalsOK'
      BY <2>15, NoLocals, LocalsUpdated DEF Release
    <3> QED
      BY <2>15, <3>1, <3>2, <3>3 DEF Release, BucketOK, RequestOK
  <2> QED
    BY <1>3, <2>1, <2>2, <2>3, <2>4, <2>5, <2>6, <2>7, <2>8, <2>9, <2>10,
       <2>11, <2>12, <2>13, <2>14, <2>15 DEF Handle
<1>4. ASSUME NEW o \in Op, Renew(o) PROVE TypeOK'
  <2>1. RecordOK' /\ AlarmOK' /\ ControlOK'
    BY <1>4, UpdateOwnedTyped, RenewedRecord DEF Renew, RecordOK, ControlOK
  <2>2. LocalsOK'
    <3>1. [work[o] EXCEPT !.renewals = @ + 1] \in Locals
      <4>1. work[o].renewals + 1 \in Nat
        BY DEF LocalsOK, Locals
      <4> QED
        BY <4>1 DEF LocalsOK, Locals
    <3> QED
      BY <1>4, <3>1, LocalsUpdated DEF Renew, LocalsOK
  <2> QED
    BY <1>4, <2>1, <2>2 DEF Renew, BucketOK, RequestOK
<1>5. ASSUME NEW o \in Op, Fail(o) PROVE TypeOK'
  <2>1. ControlOK'
    BY <1>5, LeaveControl DEF Fail, Status
  <2> QED
    BY <1>5, <2>1 DEF Fail, RecordOK, AlarmOK, BucketOK, RequestOK, LocalsOK
<1>6. CASE Reap
  <2>1. RecordOK'
    <3>1. CASE Expire
      <4> DEFINE u == [upload EXCEPT !.cancelled = TRUE]
      <4>1. u \in Record /\ u.size = Len(u.chunks)
        BY DEF RecordOK, Record
      <4>2. Freed(u) \in Record /\ Freed(u).size = Len(Freed(u).chunks)
        BY <4>1, FreedRecord
      <4> QED
        BY <3>1, <4>2 DEF Expire, RecordOK
    <3>2. CASE DeleteAll
      BY <3>2, NothingStored DEF DeleteAll, NoUpload, RecordOK
    <3> QED
      BY <1>6, <3>1, <3>2
      DEF Reap, AlarmFires, ReaperLists, ReaperRemoves, RecordOK
  <2>2. AlarmOK'
    <3>1. CASE AlarmFires
      <4>1. Deadline \in 0..UPLOAD_TTL_MS
        BY UploadAssumption DEF Deadline, RecordOK, Record
      <4>2. (alarm \in 0..UPLOAD_TTL_MS \union {None})'
        BY <3>1, <4>1 DEF AlarmFires, AlarmOK
      <4> QED
        BY <3>1, <4>2 DEF AlarmFires, AlarmOK
    <3>2. CASE Expire
      BY <3>2 DEF Expire, AlarmOK, IdleReaper
    <3>3. CASE ReaperLists
      BY <3>3 DEF ReaperLists, AlarmOK, BucketOK
    <3>4. CASE ReaperRemoves
      BY <3>4 DEF ReaperRemoves, AlarmOK
    <3>5. CASE DeleteAll
      BY <3>5 DEF DeleteAll, AlarmOK, IdleReaper
    <3> QED
      BY <1>6, <3>1, <3>2, <3>3, <3>4, <3>5 DEF Reap
  <2>3. BucketOK'
    BY <1>6 DEF Reap, AlarmFires, Expire, ReaperLists, ReaperRemoves,
       DeleteAll, BucketOK
  <2> QED
    BY <1>6, <2>1, <2>2, <2>3 DEF Reap, AlarmFires, Expire, ReaperLists,
       ReaperRemoves, DeleteAll, RequestOK, LocalsOK, ControlOK
<1>7. CASE Evict
  <2>1. AlarmOK'
    BY <1>7, UploadAssumption DEF Evict, AlarmOK, IdleReaper, RetriedAlarm
  <2>2. LocalsOK'
    BY <1>7, NoLocals DEF Evict, LocalsOK
  <2>3. ControlOK'
    BY <1>7 DEF Evict, ControlOK, Location, Status
  <2> QED
    BY <1>7, <2>1, <2>2, <2>3 DEF Evict, RecordOK, BucketOK, RequestOK
<1>8. CASE AlarmFails
  <2>1. AlarmOK'
    BY <1>8, UploadAssumption DEF AlarmFails, AlarmOK, IdleReaper
  <2> QED
    BY <1>8, <2>1 DEF AlarmFails, RecordOK, BucketOK, RequestOK, LocalsOK,
       ControlOK
<1>9. CASE Tick
  <2>1. RecordOK'
    <3>1. /\ Before(upload.ttl) \in 0..UPLOAD_TTL_MS
          /\ Before(upload.lease) \in 0..LEASE_MS
      BY UploadAssumption DEF Before, RecordOK, Record
    <3> QED
      BY <1>9, <3>1 DEF Tick, RecordOK, Record
  <2>2. AlarmOK'
    BY <1>9, UploadAssumption DEF Tick, Before, AlarmOK
  <2> QED
    BY <1>9, <2>1, <2>2 DEF Tick, BucketOK, RequestOK, LocalsOK, ControlOK
<1>10. CASE UNCHANGED vars
  BY <1>10 DEF vars, RecordOK, AlarmOK, BucketOK, RequestOK, LocalsOK,
     ControlOK
<1> QED
  BY <1>1, <1>2, <1>3, <1>4, <1>5, <1>6, <1>7, <1>8, <1>9, <1>10 DEF Next

\* The record, the bucket keys and every request keep their types, and the
\* stored size is the number of chunks, at every step of fetch() and alarm().
THEOREM TypeCorrect == Spec => []TypeOK
BY InitTyped, NextTyped, PTL DEF Spec

-----------------------------------------------------------------------------
(***************************************************************************)
(* An upload is never without an alarm.  The alarm handler clears the      *)
(* alarm before its transaction; if the transaction then finds the upload  *)
(* renewed, the write that renewed it must have set the alarm again.       *)
(***************************************************************************)
RenewedIsArmed ==
  reaper.at = "expire" /\ upload.stored /\ alarm = None => Deadline = 0

AlarmInv == TypeOK /\ AlarmPending /\ RenewedIsArmed

LEMMA WriteArms ==
  ASSUME NEW u, Write(u) PROVE alarm' # None
BY UploadAssumption DEF Write

LEMMA UpdateOwnedArms ==
  ASSUME AlarmInv, NEW o \in Op, NEW u, NEW next, UNCHANGED reaper,
         UpdateOwned(o, u, next)
  PROVE  AlarmPending' /\ RenewedIsArmed'
<1>1. CASE Write(u)
  BY <1>1, WriteArms DEF AlarmPending, RenewedIsArmed
<1>2. CASE UNCHANGED <<upload, alarm>>
  BY <1>2 DEF AlarmInv, AlarmPending, RenewedIsArmed, Deadline
<1> QED
  BY <1>1, <1>2 DEF UpdateOwned

\* Every upload that exists has an alarm set or an alarm handler at work, so
\* none is forgotten in the bucket.
THEOREM AlarmAlwaysPending == Spec => []AlarmPending
<1>1. Init => AlarmInv
  <2> SUFFICES ASSUME Init PROVE AlarmPending /\ RenewedIsArmed /\ TypeOK
    BY DEF AlarmInv
  <2>1. AlarmPending /\ RenewedIsArmed
    BY DEF Init, NoUpload, AlarmPending, RenewedIsArmed
  <2> QED
    BY <2>1, InitTyped
<1>2. ASSUME AlarmInv, [Next]_vars PROVE AlarmInv'
  <2>1. TypeOK'
    BY <1>2, NextTyped DEF AlarmInv
  <2> SUFFICES AlarmPending' /\ RenewedIsArmed'
    BY <2>1 DEF AlarmInv
  <2> USE <1>2
  <2>2. CASE Open
    BY <2>2, WriteArms DEF Open, AlarmPending, RenewedIsArmed
  <2>3. ASSUME NEW o \in Op, NEW r \in Request, Arrive(o, r)
        PROVE  AlarmPending' /\ RenewedIsArmed'
    BY <2>3 DEF Arrive, AlarmInv, AlarmPending, RenewedIsArmed, Deadline
  <2>4. ASSUME NEW o \in Op, Handle(o) \/ Renew(o) \/ Fail(o)
        PROVE  AlarmPending' /\ RenewedIsArmed'
    <3>1. CASE Claim(o) \/ Release(o)
      <4>1. UNCHANGED reaper /\ (UNCHANGED <<upload, alarm>> \/ alarm' # None)
        BY <3>1, WriteArms DEF Claim, Release
      <4> QED
        BY <4>1 DEF AlarmInv, AlarmPending, RenewedIsArmed, Deadline
    <3>2. CASE CommitPart(o) \/ Assemble(o) \/ Verified(o) \/ Finish(o)
               \/ Cancel(o) \/ Renew(o)
      BY <3>2, UpdateOwnedArms
      DEF CommitPart, Assemble, Verified, Finish, Cancel, Renew
    <3>3. CASE UNCHANGED <<upload, alarm, reaper>>
      BY <3>3 DEF AlarmInv, AlarmPending, RenewedIsArmed, Deadline
    <3> QED
      BY <2>4, <3>1, <3>2, <3>3
      DEF Handle, StorePart, Accept, ReadChunk, StoreAssembled, Publish,
          ListPrefix, RemoveListed, Discard, Fail
  <2>5. CASE Reap
    <3>1. CASE AlarmFires
      <4>1. Deadline > 0 => Deadline # None
        BY UploadAssumption DEF AlarmInv, TypeOK, RecordOK, Record, Deadline
      <4>2. UNCHANGED upload /\ UNCHANGED Deadline
        BY <3>1 DEF AlarmFires, Deadline
      <4>3. [reaper EXCEPT !.at = "expire"].at = "expire"
        BY DEF AlarmInv, TypeOK, AlarmOK
      <4> QED
        BY <3>1, <4>1, <4>2, <4>3
        DEF AlarmFires, AlarmInv, AlarmPending, RenewedIsArmed
    <3>2. CASE Expire
      <4>1. CASE upload.stored /\ Deadline = 0
        <5>1. [reaper EXCEPT !.at = "list"].at = "list"
          BY DEF AlarmInv, TypeOK, AlarmOK
        <5>2. reaper' = [reaper EXCEPT !.at = "list"]
          BY <3>2, <4>1 DEF Expire
        <5> QED
          BY <5>1, <5>2 DEF AlarmPending, RenewedIsArmed
      <4>2. CASE ~upload.stored
        BY <3>2, <4>2 DEF Expire, AlarmPending, RenewedIsArmed
      <4>3. CASE upload.stored /\ Deadline > 0
        <5>1. alarm # None
          BY <3>2, <4>3 DEF Expire, AlarmInv, RenewedIsArmed
        <5> QED
          BY <3>2, <4>3, <5>1
          DEF Expire, AlarmPending, RenewedIsArmed, IdleReaper
      <4> QED
        BY <3>2, <4>1, <4>2, <4>3 DEF Expire
    <3>3. CASE ReaperLists \/ ReaperRemoves
      BY <3>3 DEF ReaperLists, ReaperRemoves, AlarmPending, RenewedIsArmed
    <3>4. CASE DeleteAll
      BY <3>4 DEF DeleteAll, NoUpload, AlarmPending, RenewedIsArmed
    <3> QED
      BY <2>5, <3>1, <3>2, <3>3, <3>4 DEF Reap
  <2>6. CASE Evict
    <3>1. alarm # None \/ reaper.at # "idle" => alarm' # None
      BY <2>6, UploadAssumption DEF Evict, RetriedAlarm
    <3> QED
      BY <2>6, <3>1
      DEF Evict, IdleReaper, AlarmInv, AlarmPending, RenewedIsArmed
  <2>7. CASE AlarmFails
    BY <2>7, UploadAssumption
    DEF AlarmFails, IdleReaper, AlarmPending, RenewedIsArmed
  <2>8. CASE Tick
    <3>1. alarm # None => alarm' # None
      BY <2>8, UploadAssumption DEF Tick, Before, AlarmInv, TypeOK, AlarmOK
    <3>2. upload'.stored = upload.stored
      BY <2>8 DEF Tick, AlarmInv, TypeOK, RecordOK, Record
    <3>3. reaper.at = "expire" /\ upload.stored => alarm # None
      BY <2>8 DEF Tick, AlarmInv, TypeOK, RecordOK, Record, RenewedIsArmed,
         Deadline
    <3> QED
      BY <2>8, <3>1, <3>2, <3>3
      DEF Tick, AlarmInv, AlarmPending, RenewedIsArmed
  <2>9. CASE UNCHANGED vars
    BY <2>9 DEF vars, AlarmInv, AlarmPending, RenewedIsArmed, Deadline
  <2> QED
    BY <2>2, <2>3, <2>4, <2>5, <2>6, <2>7, <2>8, <2>9 DEF Next
<1>3. AlarmInv => AlarmPending
  BY DEF AlarmInv
<1> QED
  BY <1>1, <1>2, <1>3, PTL DEF Spec

-----------------------------------------------------------------------------
(***************************************************************************)
(* Published blobs.  Between the comparison of the digest and the put, the *)
(* assembled bytes and the requested digest of the request do not change,  *)
(* whoever owns the upload meanwhile.                                      *)
(***************************************************************************)
VerifiedMatches ==
  \A o \in Op : pc[o] \in {"verified", "publish"} =>
                  work[o].built = req[o].digest

BlobInv == TypeOK /\ ContentAddressed /\ VerifiedMatches

\* Every blob of the registry holds the bytes that its digest names.
THEOREM BlobsContentAddressed == Spec => []ContentAddressed
<1>1. Init => BlobInv
  BY InitTyped DEF Init, BlobInv, ContentAddressed, VerifiedMatches
<1>2. ASSUME BlobInv, [Next]_vars PROVE BlobInv'
  <2>1. TypeOK'
    BY <1>2, NextTyped DEF BlobInv
  <2> SUFFICES ContentAddressed' /\ VerifiedMatches'
    BY <2>1 DEF BlobInv
  <2> USE <1>2 DEF BlobInv
  <2>2. ASSUME NEW o \in Op, NEW r \in Request, Arrive(o, r)
        PROVE  ContentAddressed' /\ VerifiedMatches'
    BY <2>2 DEF Arrive, Goto, TypeOK, ControlOK, RequestOK, ContentAddressed,
       VerifiedMatches
  <2>3. ASSUME NEW o \in Op, StoreAssembled(o)
        PROVE  ContentAddressed' /\ VerifiedMatches'
    BY <2>3 DEF StoreAssembled, Goto, Leave, TypeOK, ControlOK,
       ContentAddressed, VerifiedMatches
  <2>4. ASSUME NEW o \in Op, Publish(o)
        PROVE  ContentAddressed' /\ VerifiedMatches'
    <3>1. ContentAddressed'
      BY <2>4 DEF Publish, ContentAddressed, VerifiedMatches
    <3>2. VerifiedMatches'
      BY <2>4 DEF Publish, Goto, Leave, TypeOK, ControlOK, VerifiedMatches
    <3> QED
      BY <3>1, <3>2
  <2>5. ASSUME NEW o \in Op, Verified(o)
        PROVE  ContentAddressed' /\ VerifiedMatches'
    BY <2>5 DEF Verified, UpdateOwned, Goto, Leave, TypeOK, ControlOK,
       ContentAddressed, VerifiedMatches
  \* A request elsewhere stays elsewhere, and only its own locals change.
  <2>6. ASSUME NEW o \in Op, UNCHANGED <<blobs, req>>,
               pc[o] \notin {"verified", "publish"},
               \E next \in Location \ {"verified", "publish"} : Goto(o, next),
               UNCHANGED work \/ \E w : work' = [work EXCEPT ![o] = w]
        PROVE  ContentAddressed' /\ VerifiedMatches'
    BY <2>6 DEF Goto, TypeOK, ControlOK, LocalsOK, ContentAddressed,
       VerifiedMatches
  <2>7. ASSUME NEW o \in Op,
               \/ Claim(o) \/ StorePart(o) \/ CommitPart(o) \/ Accept(o)
               \/ Assemble(o) \/ ReadChunk(o) \/ Finish(o) \/ Cancel(o)
               \/ ListPrefix(o) \/ RemoveListed(o) \/ Discard(o)
               \/ Release(o) \/ Renew(o)
        PROVE  ContentAddressed' /\ VerifiedMatches'
    <3>1. UNCHANGED <<blobs, req>> /\ pc[o] \notin {"verified", "publish"}
      BY <2>7 DEF Claim, StorePart, CommitPart, Accept, Assemble, ReadChunk,
         Finish, Cancel, ListPrefix, RemoveListed, Discard, Release, Renew,
         Streaming
    <3>2. \E next \in Location \ {"verified", "publish"} : Goto(o, next)
      BY <2>7 DEF Claim, AfterClaim, StorePart, CommitPart, Accept, Assemble,
         ReadChunk, Finish, Cancel, ListPrefix, RemoveListed, Discard,
         Release, Renew, Streaming, UpdateOwned, Leave, Location
    <3>3. UNCHANGED work \/ \E w : work' = [work EXCEPT ![o] = w]
      BY <2>7 DEF Claim, StorePart, CommitPart, Accept, Assemble, ReadChunk,
         Finish, Cancel, ListPrefix, RemoveListed, Discard, Release, Renew
    <3> QED
      BY <2>6, <3>1, <3>2, <3>3
  <2>8. ASSUME NEW o \in Op, Fail(o)
        PROVE  ContentAddressed' /\ VerifiedMatches'
    BY <2>8 DEF Fail, Leave, Goto, TypeOK, ControlOK, ContentAddressed,
       VerifiedMatches
  <2>9. CASE Evict
    BY <2>9 DEF Evict, InFlight, TypeOK, ControlOK, ContentAddressed,
       VerifiedMatches
  <2>10. CASE Open \/ Reap \/ AlarmFails \/ Tick \/ UNCHANGED vars
    BY <2>10 DEF Open, Reap, AlarmFires, Expire, ReaperLists, ReaperRemoves,
       DeleteAll, AlarmFails, Tick, vars, ContentAddressed, VerifiedMatches
  <2> QED
    BY <2>2, <2>3, <2>4, <2>5, <2>7, <2>8, <2>9, <2>10 DEF Next, Handle
<1>3. BlobInv => ContentAddressed
  BY DEF BlobInv
<1> QED
  BY <1>1, <1>2, <1>3, PTL DEF Spec

-----------------------------------------------------------------------------
(***************************************************************************)
(* Content-Range.  The claim compares the declared start with the size,    *)
(* the commit happens later: in between only the owner of the operation    *)
(* changes the size, and the commit is refused to everybody else.          *)
(***************************************************************************)
CommittedHasStarted ==
  \A i \in DOMAIN upload.chunks : pc[upload.chunks[i]] # "idle"

OwnerIsInRange ==
  \A o \in Op : pc[o] \in {"store", "commit"} /\ Owns(o) =>
                  req[o].start \in {-1, upload.size}

RangeParts == RangeRespected /\ CommittedHasStarted /\ OwnerIsInRange
RangeInv   == TypeOK /\ RangeParts

\* Steps that leave the chunks alone and give the upload to nobody new.
LEMMA SameChunksKeepRange ==
  ASSUME RangeInv, UNCHANGED req,
         upload'.chunks = upload.chunks /\ upload'.size = upload.size,
         \A o \in Op : Owns(o)' => Owns(o),
         \A o \in Op : pc[o] # "idle" => pc'[o] # "idle",
         \A o \in Op : pc'[o] \in {"store", "commit"} =>
                         pc[o] \in {"store", "commit"}
  PROVE  RangeParts'
<1>1. RangeRespected'
  BY DEF RangeInv, RangeParts, RangeRespected
<1>2. CommittedHasStarted'
  <2>1. \A i \in DOMAIN upload.chunks : upload.chunks[i] \in Op
    BY DEF RangeInv, TypeOK, RecordOK, Record
  <2> QED
    BY <2>1 DEF RangeInv, RangeParts, CommittedHasStarted
<1>3. OwnerIsInRange'
  BY DEF RangeInv, RangeParts, OwnerIsInRange
<1> QED
  BY <1>1, <1>2, <1>3 DEF RangeParts

\* An empty upload has nothing to respect.
LEMMA NoChunksKeepRange ==
  ASSUME upload'.chunks = <<>>, \A o \in Op : ~Owns(o)'
  PROVE  RangeParts'
BY DEF RangeParts, RangeRespected, CommittedHasStarted, OwnerIsInRange

\* Each chunk committed with a Content-Range lies at its declared offset.
THEOREM ChunksInRange == Spec => []RangeRespected
<1>1. Init => RangeInv
  <2> SUFFICES ASSUME Init PROVE RangeParts
    BY InitTyped DEF RangeInv
  <2> QED
    BY DEF Init, NoUpload, RangeParts, RangeRespected, CommittedHasStarted,
       OwnerIsInRange
<1>2. ASSUME RangeInv, [Next]_vars PROVE RangeInv'
  <2>1. TypeOK'
    BY <1>2, NextTyped DEF RangeInv
  <2> SUFFICES RangeParts'
    BY <2>1 DEF RangeInv
  <2> USE <1>2
  <2>2. CASE Open
    <3>1. upload'.chunks = <<>> /\ upload'.operation = None
      BY <2>2 DEF Open, Write, NoUpload
    <3> QED
      BY <3>1, NoChunksKeepRange, UploadAssumption DEF Owns
  <2>3. ASSUME NEW o \in Op, NEW r \in Request, Arrive(o, r)
        PROVE  RangeParts'
    <3>1. \A i \in DOMAIN upload.chunks : upload.chunks[i] \in Op \ {o}
      BY <2>3 DEF Arrive, RangeInv, RangeParts, CommittedHasStarted, TypeOK,
         RecordOK, Record
    <3>2. UNCHANGED upload /\ pc'[o] \in {"claim", "done"}
          /\ \A p \in Op \ {o} : pc'[p] = pc[p] /\ req'[p] = req[p]
      BY <2>3 DEF Arrive, Goto, RangeInv, TypeOK, ControlOK, RequestOK
    <3> QED
      BY <3>1, <3>2 DEF RangeInv, RangeParts, RangeRespected,
         CommittedHasStarted, OwnerIsInRange, Owns
  \* pc moves for one request only, and never back to "idle" or "store".
  <2>4. ASSUME NEW o \in Op, NEW next \in Location \ {"idle", "store"},
               Goto(o, next), pc[o] # "idle",
               next = "commit" => pc[o] = "store"
        PROVE  /\ \A q \in Op : pc[q] # "idle" => pc'[q] # "idle"
               /\ \A q \in Op : pc'[q] \in {"store", "commit"} =>
                                  pc[q] \in {"store", "commit"}
    BY <2>4 DEF Goto, RangeInv, TypeOK, ControlOK
  <2>5. ASSUME NEW o \in Op, Claim(o) PROVE RangeParts'
    <3>1. CASE UNCHANGED upload /\ Goto(o, "discard")
      <4>1. pc[o] # "idle" /\ UNCHANGED req
        BY <2>5 DEF Claim
      <4> QED
        BY <3>1, <4>1, <2>4, SameChunksKeepRange DEF Owns, Location
    <3>2. CASE /\ ~OutOfRange(o) /\ Goto(o, AfterClaim(o))
               /\ Write([upload EXCEPT !.operation = o, !.lease = LEASE_MS])
      <4>1. /\ upload'.chunks = upload.chunks /\ upload'.size = upload.size
            /\ upload'.operation = o
        BY <3>2 DEF Write, RangeInv, TypeOK, RecordOK, Record
      <4>2. /\ pc'[o] # "idle" /\ UNCHANGED req
            /\ \A q \in Op \ {o} : pc'[q] = pc[q]
        BY <2>5, <3>2 DEF Claim, Goto, AfterClaim, RangeInv, TypeOK, ControlOK
      <4>3. RangeRespected'
        BY <4>1, <4>2 DEF RangeInv, RangeParts, RangeRespected
      <4>4. CommittedHasStarted'
        BY <4>1, <4>2 DEF RangeInv, RangeParts, CommittedHasStarted, TypeOK,
           RecordOK, Record
      <4>5. OwnerIsInRange'
        BY <3>2, <4>1, <4>2 DEF OwnerIsInRange, Owns, OutOfRange
      <4> QED
        BY <4>3, <4>4, <4>5 DEF RangeParts
    <3> QED
      BY <2>5, <3>1, <3>2 DEF Claim, Leave
  <2>6. ASSUME NEW o \in Op, CommitPart(o) PROVE RangeParts'
    <3>1. CASE UNCHANGED upload /\ Goto(o, "discard")
      <4>1. pc[o] # "idle" /\ UNCHANGED req
        BY <2>6 DEF CommitPart
      <4> QED
        BY <3>1, <4>1, <2>4, SameChunksKeepRange DEF Owns, Location
    <3>2. CASE /\ Owns(o) /\ Write(Renewed(WithChunk(upload, o)))
               /\ \E next \in {"accept", "assemble"} : Goto(o, next)
      <4>1. /\ upload'.chunks = Append(upload.chunks, o)
            /\ upload'.operation = o
        BY <3>2 DEF Write, Renewed, WithChunk, Owns, RangeInv, TypeOK,
           RecordOK, Record
      <4>2. /\ pc'[o] \in {"accept", "assemble"} /\ UNCHANGED req
            /\ \A q \in Op \ {o} : pc'[q] = pc[q]
        BY <2>6, <3>2 DEF CommitPart, Goto, RangeInv, TypeOK, ControlOK
      <4>3. req[o].start \in {-1, Len(upload.chunks)}
        BY <2>6, <3>2 DEF CommitPart, RangeInv, RangeParts, OwnerIsInRange,
           TypeOK, RecordOK
      <4>4. /\ upload.chunks \in Seq(Op)
            /\ Len(upload'.chunks) = Len(upload.chunks) + 1
            /\ upload'.chunks[Len(upload.chunks) + 1] = o
            /\ \A i \in 1..Len(upload.chunks) :
                 upload'.chunks[i] = upload.chunks[i]
            /\ DOMAIN upload'.chunks = 1..(Len(upload.chunks) + 1)
            /\ DOMAIN upload.chunks = 1..Len(upload.chunks)
        BY <4>1 DEF RangeInv, TypeOK, RecordOK, Record
      <4>5. RangeRespected'
        <5> SUFFICES ASSUME NEW i \in 1..(Len(upload.chunks) + 1)
                     PROVE  req[upload'.chunks[i]].start \in {-1, i - 1}
          BY <4>2, <4>4 DEF RangeRespected
        <5>1. CASE i = Len(upload.chunks) + 1
          BY <4>3, <4>4, <5>1
        <5>2. CASE i \in 1..Len(upload.chunks)
          BY <4>4, <5>2 DEF RangeInv, RangeParts, RangeRespected
        <5> QED
          BY <4>4, <5>1, <5>2
      <4>6. CommittedHasStarted'
        <5> SUFFICES ASSUME NEW i \in 1..(Len(upload.chunks) + 1)
                     PROVE  pc'[upload'.chunks[i]] # "idle"
          BY <4>4 DEF CommittedHasStarted
        <5>1. CASE i = Len(upload.chunks) + 1
          BY <4>2, <4>4, <5>1
        <5>2. CASE i \in 1..Len(upload.chunks)
          BY <4>2, <4>4, <5>2 DEF RangeInv, RangeParts, CommittedHasStarted
        <5> QED
          BY <4>4, <5>1, <5>2
      <4>7. OwnerIsInRange'
        BY <4>1, <4>2 DEF OwnerIsInRange, Owns
      <4> QED
        BY <4>5, <4>6, <4>7 DEF RangeParts
    <3> QED
      BY <2>6, <3>1, <3>2 DEF CommitPart, UpdateOwned, Leave
  <2>7. ASSUME NEW o \in Op,
               \/ StorePart(o) \/ Accept(o) \/ ReadChunk(o)
               \/ StoreAssembled(o) \/ Publish(o) \/ ListPrefix(o)
               \/ RemoveListed(o) \/ Discard(o) \/ Fail(o)
        PROVE  RangeParts'
    <3>1. UNCHANGED <<upload, req>> /\ pc[o] # "idle"
      BY <2>7 DEF StorePart, Accept, ReadChunk, StoreAssembled, Publish,
         ListPrefix, RemoveListed, Discard, Fail
    <3>2. \E next \in Location \ {"idle", "store"} :
            Goto(o, next) /\ (next = "commit" => pc[o] = "store")
      BY <2>7 DEF StorePart, Accept, ReadChunk, StoreAssembled, Publish,
         ListPrefix, RemoveListed, Discard, Fail, Leave, Location
    <3> QED
      BY <3>1, <3>2, <2>4, SameChunksKeepRange DEF Owns
  \* A write by the owner that neither appends nor hands the upload over.
  <2>8. ASSUME NEW u \in Record, Write(u), UNCHANGED req,
               u.chunks = upload.chunks, u.size = upload.size,
               u.operation \in {upload.operation, None},
               upload.stored, upload.cancelled => u.cancelled,
               upload.completed # None => u.completed # None,
               \A q \in Op : pc[q] # "idle" => pc'[q] # "idle",
               \A q \in Op : pc'[q] \in {"store", "commit"} =>
                               pc[q] \in {"store", "commit"}
        PROVE  RangeParts'
    <3>1. /\ upload'.chunks = upload.chunks /\ upload'.size = upload.size
          /\ upload'.operation = u.operation /\ upload'.cancelled = u.cancelled
          /\ upload'.completed = u.completed
      BY <2>8 DEF Write, Record
    <3>2. \A q \in Op : Owns(q)' => Owns(q)
      BY <2>8, <3>1, UploadAssumption DEF Owns, RangeInv, TypeOK, RecordOK,
         Record
    <3> QED
      BY <2>8, <3>1, <3>2, SameChunksKeepRange
  <2>9. ASSUME NEW o \in Op,
               \/ Assemble(o) \/ Verified(o) \/ Finish(o) \/ Cancel(o)
               \/ Renew(o)
        PROVE  RangeParts'
    <3> DEFINE Done == [upload EXCEPT !.completed = req[o].digest]
               Dead == [upload EXCEPT !.cancelled = TRUE]
    <3>0. UNCHANGED req /\ pc[o] # "idle"
      BY <2>9 DEF Assemble, Verified, Finish, Cancel, Renew, Streaming
    <3>1. CASE UNCHANGED upload /\ Goto(o, "discard")
      BY <3>0, <3>1, <2>4, SameChunksKeepRange DEF Owns, Location
    <3>2. ASSUME Owns(o), NEW next \in Location \ {"idle"}, Goto(o, next),
                 next \in {"store", "commit"} => pc[o] = next,
                 NEW u \in {Renewed(upload), Freed(Done), Freed(Dead)},
                 Write(u)
          PROVE  RangeParts'
      <4>1. /\ \A q \in Op : pc[q] # "idle" => pc'[q] # "idle"
            /\ \A q \in Op : pc'[q] \in {"store", "commit"} =>
                               pc[q] \in {"store", "commit"}
        BY <3>0, <3>2 DEF Goto, RangeInv, TypeOK, ControlOK
      <4>2. Done \in Record /\ Dead \in Record
        BY DEF RangeInv, TypeOK, RecordOK, Record, RequestOK
      <4>3. Done.size = Len(Done.chunks) /\ Dead.size = Len(Dead.chunks)
        BY DEF RangeInv, TypeOK, RecordOK, Record
      <4>4. u \in Record
        BY <3>2, <4>2, <4>3, RenewedRecord, FreedRecord
        DEF RangeInv, TypeOK, RecordOK
      <4>5. /\ u.chunks = upload.chunks /\ u.size = upload.size
            /\ u.operation \in {upload.operation, None}
        BY <3>2 DEF Renewed, Freed, RangeInv, TypeOK, RecordOK, Record
      <4>6. upload.stored /\ ~upload.cancelled /\ upload.completed = None
        BY <3>2 DEF Owns
      <4> QED
        BY <3>0, <3>2, <4>1, <4>4, <4>5, <4>6, <2>8
    <3>3. ASSUME NEW u \in {Renewed(upload), Freed(Done), Freed(Dead)},
                 NEW next \in Location \ {"idle"},
                 next \in {"store", "commit"} => pc[o] = next,
                 UpdateOwned(o, u, next)
          PROVE  RangeParts'
      BY <3>1, <3>2, <3>3 DEF UpdateOwned, Leave
    <3>4. CASE Assemble(o) \/ Verified(o)
      BY <3>3, <3>4 DEF Assemble, Verified, Location
    <3>5. CASE Finish(o) \/ Cancel(o)
      BY <3>3, <3>5 DEF Finish, Cancel, Location
    <3>6. CASE Renew(o)
      BY <3>3, <3>6 DEF Renew, Streaming, Location
    <3> QED
      BY <2>9, <3>4, <3>5, <3>6
  <2>10. ASSUME NEW o \in Op, Release(o) PROVE RangeParts'
    <3>1. /\ \A q \in Op : pc[q] # "idle" => pc'[q] # "idle"
          /\ \A q \in Op : pc'[q] \in {"store", "commit"} =>
                             pc[q] \in {"store", "commit"}
          /\ UNCHANGED req
      BY <2>10, <2>4 DEF Release, Location
    <3>2. CASE UNCHANGED upload
      BY <3>1, <3>2, SameChunksKeepRange DEF Owns
    <3>3. CASE upload.stored /\ Write(Freed(upload))
      <4>1. Freed(upload) \in Record
        BY FreedRecord DEF RangeInv, TypeOK, RecordOK
      <4>2. /\ Freed(upload).chunks = upload.chunks
            /\ Freed(upload).size = upload.size
            /\ Freed(upload).operation = None
            /\ Freed(upload).cancelled = upload.cancelled
            /\ Freed(upload).completed = upload.completed
        BY DEF Freed, RangeInv, TypeOK, RecordOK, Record
      <4> QED
        BY <3>1, <3>3, <4>1, <4>2, <2>8
    <3> QED
      BY <2>10, <3>2, <3>3 DEF Release
  <2>11. CASE Reap
    <3>1. CASE DeleteAll
      <4>1. upload'.chunks = <<>> /\ upload'.operation = None
        BY <3>1 DEF DeleteAll, NoUpload
      <4> QED
        BY <4>1, NoChunksKeepRange, UploadAssumption DEF Owns
    <3>2. CASE Expire
      <4>1. UNCHANGED <<req, pc>> /\ upload'.chunks = upload.chunks
            /\ upload'.size = upload.size
            /\ (UNCHANGED upload \/ upload'.cancelled)
        BY <3>2 DEF Expire, Freed, RangeInv, TypeOK, RecordOK, Record
      <4> QED
        BY <4>1, SameChunksKeepRange DEF Owns
    <3>3. CASE AlarmFires \/ ReaperLists \/ ReaperRemoves
      BY <3>3, SameChunksKeepRange
      DEF AlarmFires, ReaperLists, ReaperRemoves, Owns
    <3> QED
      BY <2>11, <3>1, <3>2, <3>3 DEF Reap
  <2>12. CASE Evict
    <3>1. /\ UNCHANGED <<upload, req>>
          /\ \A q \in Op : pc[q] # "idle" => pc'[q] # "idle"
          /\ \A q \in Op : pc'[q] \in {"store", "commit"} =>
                             pc[q] \in {"store", "commit"}
      BY <2>12 DEF Evict, InFlight
    <3> QED
      BY <3>1, SameChunksKeepRange DEF Owns
  <2>13. CASE Tick
    <3>1. /\ UNCHANGED <<req, pc>> /\ upload'.chunks = upload.chunks
          /\ upload'.size = upload.size /\ upload'.stored = upload.stored
          /\ upload'.operation = upload.operation
          /\ upload'.cancelled = upload.cancelled
          /\ upload'.completed = upload.completed
      BY <2>13 DEF Tick, RangeInv, TypeOK, RecordOK, Record
    <3> QED
      BY <3>1, SameChunksKeepRange DEF Owns
  <2>14. CASE AlarmFails \/ UNCHANGED vars
    BY <2>14, SameChunksKeepRange DEF AlarmFails, vars, Owns
  <2> QED
    BY <2>2, <2>3, <2>5, <2>6, <2>7, <2>9, <2>10, <2>11, <2>12, <2>13, <2>14
    DEF Next, Handle
<1>3. RangeInv => RangeRespected
  BY DEF RangeInv, RangeParts
<1> QED
  BY <1>1, <1>2, <1>3, PTL DEF Spec

-----------------------------------------------------------------------------
(***************************************************************************)
(* The bytes: what was acknowledged is what is kept, assembled and         *)
(* published; nothing is left in the bucket behind an upload that is gone; *)
(* and the upload implements UploadContract.                               *)
(***************************************************************************)

Chunks == {upload.chunks[i] : i \in DOMAIN upload.chunks}

\* Nobody may add to the upload any more.
Ended == Sealed \/ (opened /\ ~upload.stored)

\* Positions between the claim of an operation and its end.
Working == {"store", "commit", "accept", "assemble", "read", "verified", "publish", "finish",
            "cancel"}
Assembling == {"assemble", "read", "verified", "publish", "finish"}

\* An object that is not there holds nothing, and requests reach only one that
\* was opened.
Opened ==
  /\ ~upload.stored => upload = NoUpload
  /\ upload.stored => opened
  /\ \A o \in Op : pc[o] # "idle" => opened /\ req[o] \in Request

\* Which kind of request is where in fetch().
Roles ==
  \A o \in Op :
    /\ pc[o] \in {"store", "commit"} => req[o].body # None
    /\ pc[o] = "accept" => req[o].method = "PATCH"
    /\ pc[o] \in Assembling => req[o].method = "PUT"
    /\ pc[o] = "cancel" => req[o].method = "DELETE"
    /\ pc[o] \in {"list", "remove"} => req[o].method # "PATCH"

\* A chunk is in the upload when its request has committed it, and as long as
\* that request runs it knows.
Commits ==
  \A o \in Op :
    /\ pc[o] \in {"idle", "claim", "store", "commit"} => o \notin Chunks
    /\ o \in Chunks /\ pc[o] # "done" => work[o].committed
    /\ pc[o] = "accept" /\ req[o].body # None /\ upload.stored => o \in Chunks

\* A prefix is only removed when the upload is at its end, by the reaper only
\* while the cancelled record is there.
Removals ==
  /\ \A o \in Op : pc[o] \in {"list", "remove"} => Ended
  /\ reaper.at \in {"list", "remove", "deleteAll"} =>
       upload.stored /\ upload.cancelled /\ upload.operation = None

\* Until then the parts are there, those that are about to be committed too.
Parts ==
  ~Ended => \A o \in Op : (o \in Chunks \/ pc[o] = "commit") => Part(o) \in objects

\* Who owns the operation has seen all the chunks, because nobody else adds any.
OwnerSees ==
  \A o \in Op : Owns(o) /\ pc[o] \in Working => work[o].seen = upload.chunks

\* What a request has assembled are the bodies of the chunks it has seen.
Assembly ==
  \A o \in Op :
    /\ \A i \in DOMAIN work[o].seen : pc[work[o].seen[i]] # "idle"
    /\ pc[o] \in {"idle", "claim", "store", "commit", "accept"} => work[o].built = <<>>
    /\ pc[o] \in Assembling =>
         /\ Len(work[o].built) <= Len(work[o].seen)
         /\ \A i \in 1..Len(work[o].built) : work[o].built[i] = req[work[o].seen[i]].body
    /\ pc[o] = "read" => Len(work[o].built) < Len(work[o].seen)
    /\ pc[o] \in {"verified", "publish", "finish"} =>
         Len(work[o].built) = Len(work[o].seen) /\ work[o].built = req[o].digest

\* A request that goes on to the end has published its digest.
Published ==
  \A o \in Op :
    (pc[o] = "finish" \/ (pc[o] \in {"list", "remove"} /\ req[o].method = "PUT")) =>
      <<req[o].digest, req[o].digest>> \in blobs

\* A request at work has no answer yet.
Unanswered ==
  \A o \in Op : pc[o] \notin {"discard", "release", "done"} => status[o] = 0

BytesInv ==
  /\ TypeOK /\ Opened /\ Roles /\ Commits /\ Removals /\ Parts /\ OwnerSees /\ Assembly
  /\ Published /\ Unanswered /\ CompletedIsWhole /\ AnswersHold

\* No request that may still write is at work once the inactivity period is over.
Quiet ==
  opened /\ (upload.stored => upload.ttl = 0) =>
    \A o \in Op : pc[o] \in {"idle", "claim", "discard", "release", "done"}

Swept ==
  /\ reaper.at \in {"list", "remove", "deleteAll"} => upload.ttl = 0
  /\ reaper.at = "remove" => objects \subseteq reaper.listed
  /\ reaper.at = "deleteAll" => objects = {}
-----------------------------------------------------------------------------
(* What the steps do to the record.                                        *)

SameBytes ==
  /\ upload'.stored = upload.stored /\ upload'.chunks = upload.chunks
  /\ upload'.completed = upload.completed /\ upload'.cancelled = upload.cancelled

LEMMA WrittenFields ==
  ASSUME NEW u \in Record, Write(u)
  PROVE  /\ upload'.stored = u.stored /\ upload'.chunks = u.chunks
         /\ upload'.completed = u.completed /\ upload'.cancelled = u.cancelled
         /\ upload'.operation = u.operation /\ upload'.ttl = UPLOAD_TTL_MS
BY DEF Record, Write

LEMMA RecordFields ==
  ASSUME NEW u \in Record
  PROVE  /\ Renewed(u) \in Record /\ Freed(u) \in Record
         /\ Renewed(u).stored = u.stored /\ Freed(u).stored = u.stored
         /\ Renewed(u).chunks = u.chunks /\ Freed(u).chunks = u.chunks
         /\ Renewed(u).completed = u.completed /\ Freed(u).completed = u.completed
         /\ Renewed(u).cancelled = u.cancelled /\ Freed(u).cancelled = u.cancelled
         /\ Renewed(u).operation = u.operation /\ Freed(u).operation = None
         /\ Renewed(u).ttl = u.ttl /\ Freed(u).ttl = u.ttl
<1>1. LEASE_MS \in 0..LEASE_MS /\ 0 \in 0..LEASE_MS
  BY UploadAssumption
<1>2. Renewed(u) \in Record /\ Freed(u) \in Record
  BY <1>1 DEF Record, Renewed, Freed
<1> QED
  BY <1>2 DEF Record, Renewed, Freed

\* updateOwned() with the record renewed: a lease, and nothing else.
LEMMA RenewStep ==
  ASSUME TypeOK, NEW o \in Op, NEW next, UpdateOwned(o, Renewed(upload), next)
  PROVE  /\ SameBytes /\ upload'.operation = upload.operation
         /\ \/ Owns(o) /\ Goto(o, next) /\ UNCHANGED status /\ upload'.ttl = UPLOAD_TTL_MS
            \/ ~Owns(o) /\ Leave(o, 409) /\ UNCHANGED upload
<1>1. upload \in Record
  BY DEF TypeOK, RecordOK
<1>2. CASE Write(Renewed(upload))
  BY <1>1, <1>2, RecordFields, WrittenFields DEF UpdateOwned, SameBytes
<1> QED
  BY <1>2 DEF UpdateOwned, SameBytes

LEMMA ClaimStep ==
  ASSUME TypeOK, NEW o \in Op, Claim(o)
  PROVE  /\ SameBytes
         /\ \/ /\ ~Conflicts /\ Goto(o, AfterClaim(o)) /\ upload'.operation = o
               /\ upload'.ttl = UPLOAD_TTL_MS /\ UNCHANGED status
               /\ work' = [work EXCEPT ![o].seen = upload.chunks]
            \/ UNCHANGED <<upload, work>> /\ \E code \in {409, 413, 416} : Leave(o, code)
<1> DEFINE u == [upload EXCEPT !.operation = o, !.lease = LEASE_MS]
<1>1. u \in Record /\ u.operation = o
      /\ u.stored = upload.stored /\ u.chunks = upload.chunks
      /\ u.completed = upload.completed /\ u.cancelled = upload.cancelled
  <2>1. LEASE_MS \in 0..LEASE_MS
    BY UploadAssumption
  <2> QED
    BY <2>1 DEF TypeOK, RecordOK, Record
<1>2. CASE UNCHANGED <<upload, work>> /\ \E code \in {409, 413, 416} : Leave(o, code)
  BY <1>2 DEF SameBytes
<1>3. CASE Write(u) /\ ~Conflicts /\ Goto(o, AfterClaim(o)) /\ UNCHANGED status
           /\ work' = [work EXCEPT ![o].seen = upload.chunks]
  <2> HIDE DEF u
  <2> QED
    BY <1>1, <1>3, WrittenFields DEF SameBytes
<1> QED
  BY <1>2, <1>3 DEF Claim

\* A commit, or its refusal.
LEMMA CommitStep ==
  ASSUME TypeOK, NEW o \in Op, CommitPart(o)
  PROVE  \/ /\ Owns(o)
            /\ upload'.stored = upload.stored /\ upload'.chunks = Append(upload.chunks, o)
            /\ upload'.completed = upload.completed /\ upload'.cancelled = upload.cancelled
            /\ upload'.operation = upload.operation /\ upload'.ttl = UPLOAD_TTL_MS
            /\ Goto(o, IF req[o].method = "PATCH" THEN "accept" ELSE "assemble")
            /\ UNCHANGED status
            /\ work' = [work EXCEPT ![o].committed = TRUE,
                                    ![o].seen = Append(upload.chunks, o)]
         \/ UNCHANGED <<upload, work>> /\ Leave(o, 409)
<1> DEFINE w == WithChunk(upload, o)
<1>1. upload \in Record /\ upload.size = Len(upload.chunks)
  BY DEF TypeOK, RecordOK
<1>2. /\ w \in Record /\ w.stored = upload.stored
      /\ w.chunks = Append(upload.chunks, o)
      /\ w.completed = upload.completed /\ w.cancelled = upload.cancelled
      /\ w.operation = upload.operation
  BY <1>1, LongerRecord DEF WithChunk, Record
<1>3. CASE Owns(o) /\ Write(Renewed(w))
  <2> HIDE DEF w
  <2>1. Renewed(w) \in Record
    BY <1>2, RecordFields
  <2> QED
    BY <1>2, <1>3, <2>1, RecordFields, WrittenFields DEF CommitPart, UpdateOwned
<1> QED
  BY <1>3 DEF CommitPart, UpdateOwned

\* The two ends of an upload.
LEMMA FinishStep ==
  ASSUME TypeOK, NEW o \in Op, Finish(o)
  PROVE  \/ /\ Owns(o) /\ Goto(o, "list") /\ UNCHANGED status
            /\ upload'.stored = upload.stored /\ upload'.chunks = upload.chunks
            /\ upload'.completed = req[o].digest /\ upload'.cancelled = upload.cancelled
            /\ upload'.operation = None /\ upload'.ttl = UPLOAD_TTL_MS
         \/ ~Owns(o) /\ UNCHANGED upload /\ Leave(o, 409)
<1> DEFINE u == [upload EXCEPT !.completed = req[o].digest]
<1>1. u \in Record /\ u.completed = req[o].digest
      /\ u.stored = upload.stored /\ u.chunks = upload.chunks /\ u.cancelled = upload.cancelled
  BY DEF TypeOK, RecordOK, Record, RequestOK
<1>2. CASE Owns(o) /\ Write(Freed(u))
  <2> HIDE DEF u
  <2>1. Freed(u) \in Record
    BY <1>1, RecordFields
  <2> QED
    BY <1>1, <1>2, <2>1, RecordFields, WrittenFields DEF Finish, UpdateOwned
<1> QED
  BY <1>2 DEF Finish, UpdateOwned

LEMMA CancelStep ==
  ASSUME TypeOK, NEW o \in Op, Cancel(o)
  PROVE  \/ /\ Owns(o) /\ Goto(o, "list") /\ UNCHANGED status
            /\ upload'.stored = upload.stored /\ upload'.chunks = upload.chunks
            /\ upload'.completed = upload.completed /\ upload'.cancelled = TRUE
            /\ upload'.operation = None /\ upload'.ttl = UPLOAD_TTL_MS
         \/ ~Owns(o) /\ UNCHANGED upload /\ Leave(o, 409)
<1> DEFINE u == [upload EXCEPT !.cancelled = TRUE]
<1>1. u \in Record /\ u.completed = upload.completed
      /\ u.stored = upload.stored /\ u.chunks = upload.chunks /\ u.cancelled = TRUE
  BY DEF TypeOK, RecordOK, Record
<1>2. CASE Owns(o) /\ Write(Freed(u))
  <2> HIDE DEF u
  <2>1. Freed(u) \in Record
    BY <1>1, RecordFields
  <2> QED
    BY <1>1, <1>2, <2>1, RecordFields, WrittenFields DEF Cancel, UpdateOwned
<1> QED
  BY <1>2 DEF Cancel, UpdateOwned

LEMMA ReleaseStep ==
  ASSUME TypeOK, NEW o \in Op, Release(o)
  PROVE  /\ SameBytes
         /\ \/ /\ upload.stored /\ upload.operation = o
               /\ upload'.operation = None /\ upload'.ttl = UPLOAD_TTL_MS
            \/ ~(upload.stored /\ upload.operation = o) /\ UNCHANGED upload
<1>1. upload \in Record
  BY DEF TypeOK, RecordOK
<1>2. CASE upload.stored /\ upload.operation = o /\ Write(Freed(upload))
  BY <1>1, <1>2, RecordFields, WrittenFields DEF SameBytes
<1> QED
  BY <1>2 DEF Release, SameBytes

LEMMA ExpireStep ==
  ASSUME TypeOK, Expire
  PROVE  \/ /\ upload.stored /\ Deadline = 0
            /\ upload'.stored = upload.stored /\ upload'.chunks = upload.chunks
            /\ upload'.completed = upload.completed /\ upload'.cancelled = TRUE
            /\ upload'.operation = None /\ upload'.ttl = upload.ttl
            /\ reaper'.at = "list"
         \/ UNCHANGED upload /\ reaper' = IdleReaper
<1> DEFINE u == [upload EXCEPT !.cancelled = TRUE]
<1>1. u \in Record /\ u.completed = upload.completed /\ u.ttl = upload.ttl
      /\ u.stored = upload.stored /\ u.chunks = upload.chunks /\ u.cancelled = TRUE
  BY DEF TypeOK, RecordOK, Record
<1>2. CASE upload.stored /\ Deadline = 0 /\ upload' = Freed(u)
           /\ reaper' = [reaper EXCEPT !.at = "list"]
  <2>1. reaper'.at = "list"
    BY <1>2 DEF TypeOK, AlarmOK
  <2> HIDE DEF u
  <2> QED
    BY <1>1, <1>2, <2>1, RecordFields
<1> QED
  BY <1>2 DEF Expire

LEMMA TickStep ==
  ASSUME TypeOK, Tick
  PROVE  /\ SameBytes /\ upload'.operation = upload.operation
         /\ upload.stored /\ upload'.ttl = Before(upload.ttl)
         /\ RequestsEnd /\ InFlight # {} => upload'.ttl > 0
<1>1. SameBytes /\ upload'.operation = upload.operation /\ upload'.ttl = Before(upload.ttl)
  BY DEF Tick, TypeOK, RecordOK, Record, SameBytes
<1> QED
  BY <1>1 DEF Tick, Before, TypeOK, RecordOK, Record

LEMMA OpenStep ==
  ASSUME Open
  PROVE  /\ ~opened /\ opened' /\ upload'.stored /\ upload'.chunks = <<>>
         /\ upload'.completed = None /\ ~upload'.cancelled /\ upload'.operation = None
         /\ upload'.ttl = UPLOAD_TTL_MS
BY DEF Open, Write, NoUpload
-----------------------------------------------------------------------------
(* What is stored and which requests are where.                            *)

\* A step of one request leaves the others where they are.
LEMMA OthersStay ==
  ASSUME TypeOK, NEW o \in Op, NEW next, Goto(o, next)
  PROVE  /\ pc'[o] = next
         /\ \A q \in Op : q # o => pc'[q] = pc[q]
BY DEF Goto, TypeOK, ControlOK

Handler(o) == Handle(o) \/ Renew(o) \/ Fail(o)

LEMMA HandlerFrame ==
  ASSUME NEW o \in Op, Handler(o)
  PROVE  /\ UNCHANGED <<req, opened>> /\ pc[o] # "idle"
         /\ \E next \in Location \ {"idle"} : Goto(o, next)
<1>1. ASSUME NEW code, Leave(o, code)
      PROVE  \E next \in Location \ {"idle"} : Goto(o, next)
  BY <1>1 DEF Leave, Location
<1>2. ASSUME NEW u, NEW next \in Location \ {"idle"}, UpdateOwned(o, u, next)
      PROVE  \E n \in Location \ {"idle"} : Goto(o, n)
  BY <1>1, <1>2 DEF UpdateOwned
<1>3. CASE Claim(o)
  BY <1>1, <1>3 DEF Claim, AfterClaim, Location
<1>4. CASE CommitPart(o) \/ Assemble(o) \/ Verified(o) \/ Finish(o) \/ Cancel(o) \/ Renew(o)
  BY <1>2, <1>4 DEF CommitPart, Assemble, Verified, Finish, Cancel, Renew, Streaming, Location
<1>5. CASE \/ StorePart(o) \/ Accept(o) \/ ReadChunk(o) \/ StoreAssembled(o) \/ Publish(o)
           \/ ListPrefix(o) \/ RemoveListed(o) \/ Discard(o) \/ Release(o) \/ Fail(o)
  BY <1>1, <1>5 DEF StorePart, Accept, ReadChunk, StoreAssembled, Publish, ListPrefix,
     RemoveListed, Discard, Release, Fail, Location
<1> QED
  BY <1>3, <1>4, <1>5 DEF Handler, Handle

\* A handler never creates the record and never removes it.
LEMMA HandlerRecord ==
  ASSUME TypeOK, NEW o \in Op, Handler(o)
  PROVE  /\ upload'.stored = upload.stored
         /\ ~upload.stored /\ upload = NoUpload => UNCHANGED upload
<1> DEFINE Fact == /\ upload'.stored = upload.stored
                   /\ ~upload.stored /\ upload = NoUpload => UNCHANGED upload
<1>1. CASE Claim(o)
  BY <1>1, ClaimStep DEF SameBytes, Conflicts
<1>2. CASE CommitPart(o)
  BY <1>2, CommitStep DEF Owns
<1>3. CASE Assemble(o) \/ Verified(o) \/ Renew(o)
  <2>1. PICK next : UpdateOwned(o, Renewed(upload), next)
    BY <1>3 DEF Assemble, Verified, Renew
  <2> QED
    BY <2>1, RenewStep DEF SameBytes, Owns
<1>4. CASE Finish(o) \/ Cancel(o)
  BY <1>4, FinishStep, CancelStep DEF Owns
<1>5. CASE Release(o)
  BY <1>5, ReleaseStep DEF SameBytes
<1>6. CASE UNCHANGED upload
  BY <1>6
<1> QED
  BY <1>1, <1>2, <1>3, <1>4, <1>5, <1>6 DEF Handler, Handle, StorePart, Accept, ReadChunk,
     StoreAssembled, Publish, ListPrefix, RemoveListed, Discard, Fail

LEMMA OpenedKept ==
  ASSUME TypeOK, Opened, [Next]_vars PROVE Opened'
<1>1. CASE Open
  BY <1>1, OpenStep DEF Open, Opened
<1>2. ASSUME NEW o \in Op, NEW r \in Request, Arrive(o, r) PROVE Opened'
  <2>1. UNCHANGED <<upload, opened>> /\ opened /\ req' = [req EXCEPT ![o] = r]
        /\ \A q \in Op : q # o => pc'[q] = pc[q]
    BY <1>2, OthersStay DEF Arrive
  <2> QED
    BY <2>1 DEF Opened, TypeOK, RequestOK
<1>3. ASSUME NEW o \in Op, Handler(o) PROVE Opened'
  <2>1. /\ UNCHANGED <<req, opened>> /\ pc[o] # "idle"
        /\ \A q \in Op : q # o => pc'[q] = pc[q]
    BY <1>3, HandlerFrame, OthersStay
  <2>2. upload'.stored = upload.stored
        /\ (~upload.stored /\ upload = NoUpload => UNCHANGED upload)
    BY <1>3, HandlerRecord
  <2> QED
    BY <2>1, <2>2 DEF Opened
<1>4. CASE Reap
  <2>1. CASE Expire
    <3>1. UNCHANGED <<opened, req, pc>>
      BY <2>1 DEF Expire
    <3> QED
      BY <2>1, <3>1, ExpireStep DEF Opened
  <2>2. CASE DeleteAll
    BY <2>2 DEF DeleteAll, Opened, NoUpload
  <2> QED
    BY <1>4, <2>1, <2>2 DEF Reap, AlarmFires, ReaperLists, ReaperRemoves, Opened
<1>5. CASE Evict
  BY <1>5 DEF Evict, InFlight, Opened, TypeOK, ControlOK
<1>6. CASE Tick
  <2>1. UNCHANGED <<opened, req, pc>>
    BY <1>6 DEF Tick
  <2> QED
    BY <1>6, <2>1, TickStep DEF Opened, SameBytes
<1>7. CASE AlarmFails \/ UNCHANGED vars
  BY <1>7 DEF AlarmFails, vars, Opened
<1> QED
  BY <1>1, <1>2, <1>3, <1>4, <1>5, <1>6, <1>7 DEF Next, Handler

\* Steps that move no request, but may drop it.
LEMMA NothingMoves ==
  ASSUME TypeOK, Open \/ Reap \/ Evict \/ AlarmFails \/ Tick \/ UNCHANGED vars
  PROVE  /\ UNCHANGED req
         /\ \A o \in Op : pc'[o] = pc[o] \/ (pc[o] # "idle" /\ pc'[o] = "done")
<1>1. CASE Evict
  BY <1>1 DEF Evict, InFlight, TypeOK, ControlOK
<1>2. CASE UNCHANGED req /\ (UNCHANGED pc)
  BY <1>2
<1> QED
  BY <1>1, <1>2 DEF Open, Reap, AlarmFires, Expire, ReaperLists, ReaperRemoves, DeleteAll,
     AlarmFails, Tick, vars

LEMMA RolesKept ==
  ASSUME TypeOK, Opened, Roles, [Next]_vars PROVE Roles'
<1>1. ASSUME NEW o \in Op, NEW r \in Request, Arrive(o, r) PROVE Roles'
  <2>1. pc'[o] \in {"claim", "done"} /\ \A q \in Op : q # o => pc'[q] = pc[q] /\ req'[q] = req[q]
    BY <1>1, OthersStay DEF Arrive, TypeOK, RequestOK
  <2> QED
    BY <2>1 DEF Roles, Assembling
<1>2. ASSUME NEW o \in Op, Handler(o) PROVE Roles'
  <2>1. /\ UNCHANGED req /\ pc[o] # "idle" /\ req[o] \in Request
        /\ \A q \in Op : q # o => pc'[q] = pc[q]
    BY <1>2, HandlerFrame, OthersStay DEF Opened
  <2>2. /\ req[o].method \in Method /\ (req[o].method = "DELETE" => req[o].body = None)
    BY <2>1, UploadAssumption DEF Method
  <2> SUFFICES /\ pc'[o] \in {"store", "commit"} => req[o].body # None
               /\ pc'[o] = "accept" => req[o].method = "PATCH"
               /\ pc'[o] \in Assembling => req[o].method = "PUT"
               /\ pc'[o] = "cancel" => req[o].method = "DELETE"
               /\ pc'[o] \in {"list", "remove"} => req[o].method # "PATCH"
    BY <2>1 DEF Roles
  <2>3. CASE pc'[o] \in {"discard", "done"} \/ pc'[o] = pc[o]
    BY <2>3 DEF Roles, Assembling
  <2>4. ASSUME NEW code, Leave(o, code) PROVE pc'[o] = "discard"
    BY <2>4, OthersStay DEF Leave
  <2>5. CASE Claim(o)
    <3>1. CASE Goto(o, AfterClaim(o))
      <4>1. pc'[o] = AfterClaim(o)
        BY <3>1, OthersStay
      <4> QED
        BY <2>2, <4>1 DEF AfterClaim, Length, Method, Assembling
    <3> QED
      BY <2>3, <2>4, <2>5, <3>1, ClaimStep
  <2>6. CASE CommitPart(o)
    <3>1. CASE Goto(o, IF req[o].method = "PATCH" THEN "accept" ELSE "assemble")
      <4>1. pc'[o] = IF req[o].method = "PATCH" THEN "accept" ELSE "assemble"
        BY <3>1, OthersStay
      <4>2. req[o].method # "DELETE"
        BY <2>2, <2>6 DEF CommitPart, Roles
      <4> QED
        BY <2>2, <4>1, <4>2 DEF Method, Assembling
    <3> QED
      BY <2>3, <2>4, <2>6, <3>1, CommitStep
  <2>7. ASSUME NEW u, NEW next, UpdateOwned(o, u, next)
        PROVE  pc'[o] \in {next, "discard"}
    BY <2>4, <2>7, OthersStay DEF UpdateOwned
  <2>8. CASE Assemble(o) \/ Verified(o) \/ Finish(o) \/ Cancel(o) \/ Renew(o)
    BY <2>2, <2>7, <2>8 DEF Assemble, Verified, Finish, Cancel, Renew, Roles, Assembling
  <2>9. CASE \/ StorePart(o) \/ ReadChunk(o) \/ StoreAssembled(o) \/ Publish(o) \/ ListPrefix(o)
    BY <2>4, <2>9, OthersStay
    DEF StorePart, ReadChunk, StoreAssembled, Publish, ListPrefix, Roles, Assembling
  <2>10. CASE Accept(o) \/ RemoveListed(o) \/ Fail(o)
    BY <2>3, <2>4, <2>10 DEF Accept, RemoveListed, Fail
  <2>11. CASE Discard(o) \/ Release(o)
    BY <2>11, OthersStay DEF Discard, Release, Assembling
  <2> QED
    BY <1>2, <2>5, <2>6, <2>8, <2>9, <2>10, <2>11 DEF Handler, Handle
<1>3. CASE Open \/ Reap \/ Evict \/ AlarmFails \/ Tick \/ UNCHANGED vars
  BY <1>3, NothingMoves DEF Roles, Assembling
<1> QED
  BY <1>1, <1>2, <1>3 DEF Next, Handler
-----------------------------------------------------------------------------
(* Chunks and parts.                                                       *)

LEMMA NoneOwns == ASSUME NEW o \in Op PROVE o # None
BY UploadAssumption

LEMMA AddedChunk ==
  ASSUME TypeOK, NEW o \in Op, upload'.chunks = Append(upload.chunks, o)
  PROVE  Chunks' = Chunks \cup {o}
<1>1. upload.chunks \in Seq(Op)
  BY DEF TypeOK, RecordOK, Record
<1> DEFINE s == upload.chunks
           t == Append(s, o)
<1>2. /\ DOMAIN t = 1..(Len(s) + 1) /\ DOMAIN s = 1..Len(s) /\ Len(s) \in Nat
      /\ t[Len(s) + 1] = o /\ \A i \in 1..Len(s) : t[i] = s[i]
  BY <1>1
<1>3. \A i \in DOMAIN t : i \in DOMAIN s \/ i = Len(s) + 1
  BY <1>2
<1> HIDE DEF t
<1>4. {t[i] : i \in DOMAIN t} = {s[i] : i \in DOMAIN s} \cup {o}
  BY <1>2, <1>3
<1> QED
  BY <1>4 DEF Chunks, t

\* Of the handlers only a commit changes the chunks.
LEMMA ChunksOfHandler ==
  ASSUME TypeOK, NEW o \in Op, Handler(o)
  PROVE  \/ upload'.chunks = upload.chunks /\ Chunks' = Chunks
         \/ CommitPart(o) /\ Owns(o) /\ Chunks' = Chunks \cup {o}
<1>1. CASE UNCHANGED upload.chunks
  BY <1>1 DEF Chunks
<1>2. CASE CommitPart(o)
  BY <1>1, <1>2, CommitStep, AddedChunk
<1>3. CASE Claim(o) \/ Release(o)
  BY <1>1, <1>3, ClaimStep, ReleaseStep DEF SameBytes
<1>4. CASE Assemble(o) \/ Verified(o) \/ Renew(o)
  <2>1. PICK next : UpdateOwned(o, Renewed(upload), next)
    BY <1>4 DEF Assemble, Verified, Renew
  <2> QED
    BY <1>1, <2>1, RenewStep DEF SameBytes
<1>5. CASE Finish(o) \/ Cancel(o)
  BY <1>1, <1>5, FinishStep, CancelStep
<1> QED
  BY <1>1, <1>2, <1>3, <1>4, <1>5 DEF Handler, Handle, StorePart, Accept, ReadChunk,
     StoreAssembled, Publish, ListPrefix, RemoveListed, Discard, Fail

\* The other steps keep them too, but for the creation and the removal.
LEMMA ChunksElsewhere ==
  ASSUME TypeOK, Opened, Open \/ Reap \/ Evict \/ AlarmFails \/ Tick \/ UNCHANGED vars
  PROVE  \/ upload'.chunks = upload.chunks /\ Chunks' = Chunks
            /\ upload'.stored = upload.stored /\ upload'.completed = upload.completed
         \/ Chunks' = {} /\ upload'.completed = None /\ ~Open /\ opened' /\ ~upload'.stored
         \/ /\ Chunks' = {} /\ upload'.completed = None /\ Open
            /\ \A o \in Op : pc[o] = "idle" /\ pc'[o] = "idle"
<1>1. CASE Open
  <2>1. \A o \in Op : pc[o] = "idle" /\ pc'[o] = "idle"
    BY <1>1 DEF Open, Opened
  <2> QED
    BY <1>1, <2>1, OpenStep DEF Chunks
<1>2. CASE DeleteAll
  <2>1. CASE opened
    BY <1>2, <2>1 DEF DeleteAll, Open, NoUpload, Chunks
  <2>2. CASE ~opened
    BY <1>2, <2>2 DEF DeleteAll, Opened, NoUpload, Chunks
  <2> QED
    BY <2>1, <2>2
<1>3. CASE Expire
  BY <1>3, ExpireStep DEF Chunks
<1>4. CASE Tick
  BY <1>4, TickStep DEF SameBytes, Chunks
<1>5. CASE UNCHANGED upload
  BY <1>5 DEF Chunks
<1> QED
  BY <1>1, <1>2, <1>3, <1>4, <1>5 DEF Reap, AlarmFires, ReaperLists, ReaperRemoves, Evict,
     AlarmFails, vars

\* A request's step leaves what other requests know alone.
LEMMA OthersKnow ==
  ASSUME TypeOK, NEW o \in Op, Handler(o)
  PROVE  \A q \in Op : q # o => work'[q] = work[q] /\ status'[q] = status[q]
<1>1. work' = work \/ \E w : work' = [work EXCEPT ![o] = w]
  BY DEF Handler, Handle, Claim, StorePart, CommitPart, Accept, Assemble, ReadChunk,
     StoreAssembled, Verified, Publish, Finish, Cancel, ListPrefix, RemoveListed, Discard,
     Release, Renew, Fail
<1>2. status' = status \/ \E code : status' = [status EXCEPT ![o] = code]
  BY DEF Handler, Handle, Claim, StorePart, CommitPart, Accept, Assemble, ReadChunk,
     StoreAssembled, Verified, Publish, Finish, Cancel, ListPrefix, RemoveListed, Discard,
     Release, Renew, Fail, UpdateOwned, Leave
<1> QED
  BY <1>1, <1>2 DEF TypeOK, LocalsOK, ControlOK

\* After the commit a request never goes back to it, and remembers it to its end.
LEMMA LaterSteps ==
  ASSUME TypeOK, NEW o \in Op, Handler(o),
         ~Claim(o), ~StorePart(o), ~CommitPart(o), ~Release(o)
  PROVE  /\ pc'[o] = pc[o] \/ pc'[o] \notin {"idle", "claim", "store", "commit", "accept"}
         /\ work'[o].committed = work[o].committed /\ work'[o].seen = work[o].seen
<1>1. ASSUME NEW code, Leave(o, code) PROVE pc'[o] = "discard"
  BY <1>1, OthersStay DEF Leave
<1>2. ASSUME NEW u, NEW next, UpdateOwned(o, u, next) PROVE pc'[o] \in {next, "discard"}
  BY <1>1, <1>2, OthersStay DEF UpdateOwned
<1>3. CASE Assemble(o) \/ Verified(o) \/ Finish(o) \/ Cancel(o)
  BY <1>2, <1>3 DEF Assemble, Verified, Finish, Cancel
<1>4. CASE Renew(o)
  <2>1. pc'[o] \in {pc[o], "discard"}
    BY <1>2, <1>4 DEF Renew
  <2> QED
    BY <1>4, <2>1 DEF Renew, TypeOK, LocalsOK, Locals
<1>5. CASE Accept(o) \/ StoreAssembled(o) \/ Publish(o) \/ RemoveListed(o) \/ Discard(o) \/ Fail(o)
  BY <1>1, <1>5, OthersStay DEF Accept, StoreAssembled, Publish, RemoveListed, Discard, Fail
<1>6. CASE ListPrefix(o) \/ ReadChunk(o)
  <2>1. pc'[o] \in {"remove", "assemble", "discard"}
    BY <1>1, <1>6, OthersStay DEF ListPrefix, ReadChunk
  <2>2. work'[o].committed = work[o].committed /\ work'[o].seen = work[o].seen
    BY <1>6 DEF ListPrefix, ReadChunk, TypeOK, LocalsOK, Locals
  <2> QED
    BY <2>1, <2>2
<1> QED
  BY <1>3, <1>4, <1>5, <1>6 DEF Handler, Handle

LEMMA CommitsKept ==
  ASSUME TypeOK, Opened, Roles, Commits, [Next]_vars PROVE Commits'
<1>1. ASSUME NEW o \in Op, NEW r \in Request, Arrive(o, r) PROVE Commits'
  <2>1. /\ UNCHANGED <<upload, work>> /\ pc[o] = "idle" /\ pc'[o] \in {"claim", "done"}
        /\ \A q \in Op : q # o => pc'[q] = pc[q] /\ req'[q] = req[q]
    BY <1>1, OthersStay DEF Arrive, TypeOK, RequestOK
  <2> QED
    BY <2>1 DEF Commits, Chunks
<1>2. ASSUME NEW o \in Op, Handler(o) PROVE Commits'
  <2>1. /\ UNCHANGED req /\ pc[o] # "idle" /\ upload'.stored = upload.stored
        /\ \A q \in Op : q # o => pc'[q] = pc[q] /\ work'[q] = work[q]
    BY <1>2, HandlerFrame, OthersStay, OthersKnow, HandlerRecord
  <2>2. \A q \in Op : q # o => (q \in Chunks' <=> q \in Chunks)
    BY <1>2, ChunksOfHandler
  <2> SUFFICES /\ pc'[o] \in {"idle", "claim", "store", "commit"} => o \notin Chunks'
               /\ o \in Chunks' /\ pc'[o] # "done" => work'[o].committed
               /\ pc'[o] = "accept" /\ req[o].body # None /\ upload.stored => o \in Chunks'
    BY <2>1, <2>2 DEF Commits
  <2>3. ASSUME NEW code, Leave(o, code) PROVE pc'[o] = "discard"
    BY <2>3, OthersStay DEF Leave
  <2>4. CASE Claim(o)
    <3>1. pc[o] = "claim" /\ o \notin Chunks /\ Chunks' = Chunks
      <4>1. pc[o] = "claim" /\ ~CommitPart(o)
        BY <2>4 DEF Claim, CommitPart
      <4> QED
        BY <1>2, <4>1, ChunksOfHandler DEF Commits
    <3>2. pc'[o] \in {AfterClaim(o), "discard"}
      BY <2>3, <2>4, ClaimStep, OthersStay
    <3>3. AfterClaim(o) = "accept" => req[o].body = None
      BY DEF AfterClaim, Length
    <3> QED
      BY <3>1, <3>2, <3>3
  <2>5. CASE StorePart(o)
    <3>1. pc[o] = "store" /\ pc'[o] = "commit" /\ Chunks' = Chunks
      BY <2>5, OthersStay DEF StorePart, Chunks
    <3> QED
      BY <3>1 DEF Commits
  <2>6. CASE CommitPart(o)
    <3>1. pc[o] = "commit" /\ o \notin Chunks
      BY <2>6 DEF CommitPart, Commits
    <3>2. CASE UNCHANGED upload /\ Leave(o, 409)
      <4>1. pc'[o] = "discard" /\ Chunks' = Chunks
        BY <2>3, <3>2 DEF Chunks
      <4> QED
        BY <3>1, <4>1
    <3>3. CASE /\ upload'.chunks = Append(upload.chunks, o)
               /\ work' = [work EXCEPT ![o].committed = TRUE,
                                       ![o].seen = Append(upload.chunks, o)]
               /\ Goto(o, IF req[o].method = "PATCH" THEN "accept" ELSE "assemble")
      <4>1. o \in Chunks'
        BY <3>3, AddedChunk
      <4>2. work'[o].committed
        BY <3>3 DEF TypeOK, LocalsOK, Locals
      <4>3. pc'[o] \in {"accept", "assemble"}
        BY <3>3, OthersStay
      <4> QED
        BY <4>1, <4>2, <4>3
    <3> QED
      BY <2>6, <3>2, <3>3, CommitStep
  <2>7. CASE Release(o)
    <3>1. pc'[o] = "done"
      BY <2>7, OthersStay DEF Release
    <3> QED
      BY <3>1
  <2>8. CASE ~Claim(o) /\ ~StorePart(o) /\ ~CommitPart(o) /\ ~Release(o)
    <3>1. Chunks' = Chunks
      BY <1>2, <2>8, ChunksOfHandler
    <3>2. o \in Chunks => pc[o] # "done"
      BY <1>2 DEF Handler, Handle, Claim, StorePart, CommitPart, Accept, Assemble, ReadChunk,
         StoreAssembled, Verified, Publish, Finish, Cancel, ListPrefix, RemoveListed, Discard,
         Release, Renew, Fail, Streaming
    <3> QED
      BY <1>2, <2>8, <3>1, <3>2, LaterSteps DEF Commits
  <2> QED
    BY <2>4, <2>5, <2>6, <2>7, <2>8
<1>3. CASE Open \/ Reap \/ Evict \/ AlarmFails \/ Tick \/ UNCHANGED vars
  <2>1. /\ UNCHANGED req
        /\ \A o \in Op : pc'[o] = pc[o] \/ (pc[o] # "idle" /\ pc'[o] = "done")
    BY <1>3, NothingMoves
  <2>2. \A o \in Op : pc'[o] # "done" => work'[o].committed = work[o].committed \/ pc'[o] = "idle"
    <3>1. CASE Evict
      BY <3>1 DEF Evict, InFlight, TypeOK, ControlOK
    <3>2. CASE UNCHANGED work
      BY <3>2
    <3> QED
      BY <1>3, <3>1, <3>2 DEF Open, Reap, AlarmFires, Expire, ReaperLists, ReaperRemoves,
         DeleteAll, AlarmFails, Tick, vars
  <2> QED
    BY <1>3, <2>1, <2>2, ChunksElsewhere DEF Commits
<1> QED
  BY <1>1, <1>2, <1>3 DEF Next, Handler
-----------------------------------------------------------------------------
(* The end of an upload, and the removal of its objects.                   *)

LEMMA SealedStays ==
  ASSUME TypeOK, NEW o \in Op, Handler(o)
  PROVE  /\ Sealed => Sealed'
         /\ ~Owns(o) => upload'.completed = upload.completed
                        /\ upload'.cancelled = upload.cancelled
         /\ \/ upload'.operation \in {upload.operation, None}
            \/ Claim(o) /\ ~Conflicts /\ upload'.operation = o
<1>1. CASE Claim(o)
  BY <1>1, ClaimStep DEF SameBytes, Sealed
<1>2. CASE CommitPart(o)
  BY <1>2, CommitStep DEF Sealed
<1>3. CASE Assemble(o) \/ Verified(o) \/ Renew(o)
  <2>1. PICK next : UpdateOwned(o, Renewed(upload), next)
    BY <1>3 DEF Assemble, Verified, Renew
  <2> QED
    BY <2>1, RenewStep DEF SameBytes, Sealed
<1>4. CASE Finish(o) \/ Cancel(o)
  BY <1>4, FinishStep, CancelStep DEF Owns, Sealed
<1>5. CASE Release(o)
  BY <1>5, ReleaseStep DEF SameBytes, Sealed
<1>6. CASE UNCHANGED upload
  BY <1>6 DEF Sealed
<1> QED
  BY <1>1, <1>2, <1>3, <1>4, <1>5, <1>6 DEF Handler, Handle, StorePart, Accept, ReadChunk,
     StoreAssembled, Publish, ListPrefix, RemoveListed, Discard, Fail

LEMMA EndedStays ==
  ASSUME TypeOK, Opened, Ended, [Next]_vars PROVE Ended'
<1>1. CASE Open
  <2>1. ~opened /\ ~upload.stored
    BY <1>1 DEF Open, Opened
  <2> QED
    BY <2>1 DEF Opened, Ended, Sealed, NoUpload
<1>2. ASSUME NEW o \in Op, NEW r \in Request, Arrive(o, r) PROVE Ended'
  BY <1>2 DEF Arrive, Ended, Sealed
<1>3. ASSUME NEW o \in Op, Handler(o) PROVE Ended'
  BY <1>3, SealedStays, HandlerRecord, HandlerFrame DEF Ended
<1>4. CASE Reap
  <2>1. CASE Expire
    <3>1. UNCHANGED opened
      BY <2>1 DEF Expire
    <3> QED
      BY <2>1, <3>1, ExpireStep DEF Ended, Sealed
  <2>2. CASE DeleteAll
    <3>1. upload.stored => opened
      BY DEF Opened
    <3> QED
      BY <2>2, <3>1 DEF DeleteAll, Opened, Ended, Sealed, NoUpload
  <2> QED
    BY <1>4, <2>1, <2>2 DEF Reap, AlarmFires, ReaperLists, ReaperRemoves, Ended, Sealed
<1>5. CASE Tick
  <2>1. UNCHANGED opened
    BY <1>5 DEF Tick
  <2> QED
    BY <1>5, <2>1, TickStep DEF SameBytes, Ended, Sealed
<1>6. CASE Evict \/ AlarmFails \/ UNCHANGED vars
  BY <1>6 DEF Evict, AlarmFails, vars, Ended, Sealed
<1> QED
  BY <1>1, <1>2, <1>3, <1>4, <1>5, <1>6 DEF Next, Handler

\* The prefix is listed only after the end.
LEMMA ListsAfterEnd ==
  ASSUME TypeOK, Opened, Roles, Removals, NEW o \in Op, Handler(o),
         pc'[o] \in {"list", "remove"}
  PROVE  Ended'
<1>1. CASE pc[o] \in {"list", "remove"}
  BY <1>1, EndedStays DEF Removals, Next, Handler
<1>2. ASSUME NEW code, Leave(o, code) PROVE pc'[o] = "discard"
  BY <1>2, OthersStay DEF Leave
<1>3. CASE Finish(o) \/ Cancel(o)
  <2>1. CASE Finish(o)
    <3>1. req[o].digest # None
      BY <2>1, UploadAssumption DEF Finish, Roles, Assembling, Opened
    <3> QED
      BY <1>2, <2>1, <3>1, FinishStep DEF Ended, Sealed
  <2>2. CASE Cancel(o)
    BY <1>2, <2>2, CancelStep DEF Ended, Sealed
  <2> QED
    BY <1>3, <2>1, <2>2
<1>4. ASSUME NEW u, NEW next, UpdateOwned(o, u, next) PROVE pc'[o] \in {next, "discard"}
  BY <1>2, <1>4, OthersStay DEF UpdateOwned
<1>5. CASE Claim(o)
  <2>1. pc'[o] \in {AfterClaim(o), "discard"}
    BY <1>2, <1>5, ClaimStep, OthersStay
  <2> QED
    BY <2>1 DEF AfterClaim
<1>6. CASE CommitPart(o) \/ Assemble(o) \/ Verified(o) \/ Renew(o)
  BY <1>1, <1>4, <1>6 DEF CommitPart, Assemble, Verified, Renew
<1>7. CASE \/ StorePart(o) \/ Accept(o) \/ ReadChunk(o) \/ StoreAssembled(o) \/ Publish(o)
           \/ RemoveListed(o) \/ Discard(o) \/ Release(o) \/ Fail(o)
  BY <1>2, <1>7, OthersStay DEF StorePart, Accept, ReadChunk, StoreAssembled, Publish,
     RemoveListed, Discard, Release, Fail
<1>8. CASE ListPrefix(o)
  BY <1>1, <1>8 DEF ListPrefix
<1> QED
  BY <1>3, <1>5, <1>6, <1>7, <1>8 DEF Handler, Handle

LEMMA RemovalsKept ==
  ASSUME TypeOK, Opened, Roles, Removals, [Next]_vars PROVE Removals'
<1> DEFINE Reaping == reaper.at \in {"list", "remove", "deleteAll"}
<1>1. CASE Open
  <2>1. ~Reaping
    BY <1>1 DEF Open, Removals, Opened
  <2> QED
    BY <1>1, <2>1 DEF Open, Opened, Removals
<1>2. ASSUME NEW o \in Op, NEW r \in Request, Arrive(o, r) PROVE Removals'
  <2>1. /\ UNCHANGED <<upload, reaper, opened>> /\ pc'[o] \in {"claim", "done"}
        /\ \A q \in Op : q # o => pc'[q] = pc[q]
    BY <1>2, OthersStay DEF Arrive
  <2> QED
    BY <2>1 DEF Removals, Ended, Sealed
<1>3. ASSUME NEW o \in Op, Handler(o) PROVE Removals'
  <2>1. \A q \in Op : q # o => pc'[q] = pc[q]
    BY <1>3, HandlerFrame, OthersStay
  <2>2. Ended => Ended'
    BY <1>3, EndedStays DEF Next, Handler
  <2>3. pc'[o] \in {"list", "remove"} => Ended'
    BY <1>3, ListsAfterEnd
  <2>4. UNCHANGED reaper
    BY <1>3 DEF Handler, Handle, Claim, StorePart, CommitPart, Accept, Assemble, ReadChunk,
       StoreAssembled, Verified, Publish, Finish, Cancel, ListPrefix, RemoveListed, Discard,
       Release, Renew, Fail
  <2>5. ASSUME upload.stored, upload.cancelled, upload.operation = None
        PROVE  upload'.stored /\ upload'.cancelled /\ upload'.operation = None
    <3>1. ~Owns(o) /\ Conflicts
      BY <2>5 DEF Owns, Conflicts
    <3> QED
      BY <1>3, <2>5, <3>1, SealedStays, HandlerRecord
  <2> QED
    BY <2>1, <2>2, <2>3, <2>4, <2>5 DEF Removals
<1>4. CASE Reap \/ Evict \/ AlarmFails \/ Tick \/ UNCHANGED vars
  <2>1. \A q \in Op : pc'[q] \in {"list", "remove"} => Ended'
    <3>1. \A q \in Op : pc'[q] = pc[q] \/ (pc[q] # "idle" /\ pc'[q] = "done")
      BY <1>4, NothingMoves
    <3>2. Ended => Ended'
      BY <1>4, EndedStays DEF Next
    <3> QED
      BY <3>1, <3>2 DEF Removals
  <2>2. reaper'.at \in {"list", "remove", "deleteAll"} =>
          upload'.stored /\ upload'.cancelled /\ upload'.operation = None
    <3>1. CASE Expire
      <4>1. CASE reaper' = IdleReaper
        BY <4>1 DEF IdleReaper
      <4>2. CASE upload'.stored /\ upload'.cancelled /\ upload'.operation = None
        BY <4>2
      <4> QED
        BY <3>1, <4>1, <4>2, ExpireStep
    <3>2. CASE Tick
      <4>1. UNCHANGED reaper
        BY <3>2 DEF Tick
      <4> QED
        BY <3>2, <4>1, TickStep DEF Removals, SameBytes
    <3>3. CASE AlarmFires
      <4>1. reaper'.at \in {"idle", "expire"}
        BY <3>3 DEF AlarmFires, TypeOK, AlarmOK
      <4> QED
        BY <4>1
    <3>4. CASE ReaperLists \/ ReaperRemoves \/ DeleteAll
      BY <3>4 DEF ReaperLists, ReaperRemoves, DeleteAll, Removals, IdleReaper
    <3>5. CASE Evict \/ AlarmFails \/ UNCHANGED vars
      BY <3>5 DEF Evict, AlarmFails, vars, Removals, IdleReaper
    <3> QED
      BY <1>4, <3>1, <3>2, <3>3, <3>4, <3>5 DEF Reap
  <2> QED
    BY <2>1, <2>2 DEF Removals
<1> QED
  BY <1>1, <1>2, <1>3, <1>4 DEF Next, Handler

\* A handler takes away its own part, unless it committed it, or what is left at
\* the end.
LEMMA ObjectsOfHandler ==
  ASSUME TypeOK, NEW o \in Op, Handler(o), pc[o] # "remove",
         NEW q \in Op, Part(q) \in objects, q = o => work[o].committed \/ pc[o] # "discard"
  PROVE  Part(q) \in objects'
<1>1. Part(q) # Assembled(o) /\ (q # o => Part(q) # Part(o))
  BY DEF Part, Assembled
<1>2. CASE Discard(o)
  BY <1>1, <1>2 DEF Discard
<1> QED
  BY <1>2 DEF Handler, Handle, Claim, StorePart, CommitPart, Accept, Assemble, ReadChunk,
     StoreAssembled, Verified, Publish, Finish, Cancel, ListPrefix, RemoveListed,
     Release, Renew, Fail

LEMMA PartsStay ==
  ASSUME TypeOK, Opened, Roles, Commits, Removals, Parts, [Next]_vars PROVE Parts'
<1> SUFFICES ASSUME ~Ended', NEW q \in Op, q \in Chunks' \/ pc'[q] = "commit"
             PROVE  Part(q) \in objects'
  BY DEF Parts
<1>1. ~Ended
  BY EndedStays
<1>2. ASSUME NEW o \in Op, NEW r \in Request, Arrive(o, r) PROVE Part(q) \in objects'
  <2>1. /\ UNCHANGED <<upload, objects>> /\ pc'[o] \in {"claim", "done"}
        /\ \A p \in Op : p # o => pc'[p] = pc[p]
    BY <1>2, OthersStay DEF Arrive
  <2> QED
    BY <1>1, <2>1 DEF Parts, Chunks
<1>3. ASSUME NEW o \in Op, Handler(o) PROVE Part(q) \in objects'
  <2>1. \A p \in Op : p # o => pc'[p] = pc[p]
    BY <1>3, HandlerFrame, OthersStay
  <2>2. pc[o] # "remove"
    BY <1>1 DEF Removals
  <2>3. CASE StorePart(o) /\ q = o
    BY <2>3 DEF StorePart
  <2>4. CASE ~(StorePart(o) /\ q = o)
    <3>1. q \in Chunks \/ pc[q] = "commit"
      <4>1. pc'[o] = "commit" => pc[o] = "commit" \/ StorePart(o)
        <5>1. CASE Claim(o)
          <6>1. pc'[o] \in {AfterClaim(o), "discard"}
            BY <5>1, ClaimStep, OthersStay DEF Leave
          <6> QED
            BY <6>1 DEF AfterClaim
        <5>2. CASE CommitPart(o)
          BY <5>2 DEF CommitPart
        <5>3. CASE Release(o)
          BY <5>3, OthersStay DEF Release
        <5> QED
          BY <1>3, <5>1, <5>2, <5>3, LaterSteps
      <4>2. Chunks' = Chunks \/ (CommitPart(o) /\ Chunks' = Chunks \cup {o})
        BY <1>3, ChunksOfHandler
      <4> QED
        BY <2>1, <2>4, <4>1, <4>2 DEF CommitPart
    <3>2. Part(q) \in objects
      BY <1>1, <3>1 DEF Parts
    <3>3. q = o => work[o].committed \/ pc[o] # "discard"
      BY <3>1 DEF Commits
    <3> QED
      BY <1>3, <2>2, <3>2, <3>3, ObjectsOfHandler
  <2> QED
    BY <2>3, <2>4
<1>4. CASE Open \/ Reap \/ Evict \/ AlarmFails \/ Tick \/ UNCHANGED vars
  <2>1. pc'[q] = pc[q] \/ (pc[q] # "idle" /\ pc'[q] = "done")
    BY <1>4, NothingMoves
  <2>2. q \in Chunks \/ pc[q] = "commit"
    BY <1>4, <2>1, ChunksElsewhere
  <2>3. ~ReaperRemoves
    BY <1>1 DEF ReaperRemoves, Removals, Ended, Sealed
  <2>4. UNCHANGED objects
    BY <1>4, <2>3 DEF Open, Reap, AlarmFires, Expire, ReaperLists, DeleteAll, Evict, AlarmFails,
       Tick, vars
  <2> QED
    BY <1>1, <2>2, <2>4 DEF Parts
<1> QED
  BY <1>2, <1>3, <1>4 DEF Next, Handler
-----------------------------------------------------------------------------
(* Assembly and publication.                                               *)

\* Where a request may come from.
LEMMA WorkingSteps ==
  ASSUME TypeOK, NEW o \in Op, Handler(o), ~Claim(o), pc'[o] \in Working
  PROVE  pc[o] \in Working
<1>1. ASSUME NEW code, Leave(o, code) PROVE pc'[o] = "discard"
  BY <1>1, OthersStay DEF Leave
<1>2. CASE Fail(o)
  BY <1>1, <1>2 DEF Fail, Working
<1>3. CASE ListPrefix(o) \/ Discard(o) \/ Release(o)
  BY <1>3, OthersStay DEF ListPrefix, Discard, Release, Working
<1>4. CASE RemoveListed(o)
  BY <1>1, <1>4 DEF RemoveListed, Working
<1>5. CASE pc[o] \in Working
  BY <1>5
<1> QED
  BY <1>2, <1>3, <1>4, <1>5 DEF Handler, Handle, StorePart, CommitPart, Accept, Assemble,
     ReadChunk, StoreAssembled, Verified, Publish, Finish, Cancel, Renew, Streaming, Working

LEMMA OwnerSeesKept ==
  ASSUME TypeOK, Opened, OwnerSees, [Next]_vars PROVE OwnerSees'
<1> SUFFICES ASSUME NEW q \in Op, Owns(q)', pc'[q] \in Working
             PROVE  work'[q].seen = upload'.chunks
  BY DEF OwnerSees
<1>1. q # None /\ upload'.operation = q /\ upload'.stored
      /\ ~upload'.cancelled /\ upload'.completed = None
  BY UploadAssumption DEF Owns
<1>2. ASSUME NEW o \in Op, NEW r \in Request, Arrive(o, r) PROVE work'[q].seen = upload'.chunks
  <2>1. /\ UNCHANGED <<upload, work>> /\ pc'[o] \in {"claim", "done"}
        /\ \A p \in Op : p # o => pc'[p] = pc[p]
    BY <1>2, OthersStay DEF Arrive
  <2> QED
    BY <2>1 DEF OwnerSees, Owns, Working
<1>3. ASSUME NEW o \in Op, Handler(o) PROVE work'[q].seen = upload'.chunks
  <2>1. \A p \in Op : p # o => pc'[p] = pc[p] /\ work'[p] = work[p]
    BY <1>3, HandlerFrame, OthersStay, OthersKnow
  <2>2. ASSUME NEW code, Leave(o, code) PROVE q # o
    BY <2>2, OthersStay DEF Leave, Working
  <2>3. CASE Claim(o)
    <3>1. CASE upload'.operation = o /\ work' = [work EXCEPT ![o].seen = upload.chunks]
      <4>1. q = o /\ upload'.chunks = upload.chunks
        BY <1>1, <2>3, <3>1, ClaimStep DEF SameBytes
      <4> QED
        BY <3>1, <4>1 DEF TypeOK, LocalsOK, Locals
    <3>2. CASE UNCHANGED <<upload, work>> /\ q # o
      BY <2>1, <3>2 DEF OwnerSees, Owns
    <3> QED
      BY <2>2, <2>3, <3>1, <3>2, ClaimStep
  <2>4. CASE CommitPart(o)
    <3>1. CASE /\ Owns(o) /\ upload'.operation = upload.operation
               /\ upload'.chunks = Append(upload.chunks, o)
               /\ work' = [work EXCEPT ![o].committed = TRUE,
                                       ![o].seen = Append(upload.chunks, o)]
      <4>1. q = o
        BY <1>1, <3>1 DEF Owns
      <4> QED
        BY <3>1, <4>1 DEF TypeOK, LocalsOK, Locals
    <3>2. CASE UNCHANGED <<upload, work>> /\ q # o
      BY <2>1, <3>2 DEF OwnerSees, Owns
    <3> QED
      BY <2>2, <2>4, <3>1, <3>2, CommitStep
  <2>5. CASE ~Claim(o) /\ ~CommitPart(o)
    <3>1. /\ upload'.chunks = upload.chunks /\ upload'.stored = upload.stored
          /\ upload'.operation \in {upload.operation, None}
          /\ (Sealed => Sealed')
      BY <1>3, <2>5, ChunksOfHandler, SealedStays, HandlerRecord
    <3>2. Owns(q)
      BY <1>1, <3>1 DEF Owns, Sealed
    <3>3. pc[q] \in Working
      BY <1>3, <2>1, <2>5, WorkingSteps
    <3>4. work'[q].seen = work[q].seen
      <4>1. CASE q = o
        <5>1. ~Release(o)
          BY <4>1, <3>3 DEF Release, Working
        <5>2. StorePart(o) => work'[o] = work[o]
          BY DEF StorePart
        <5> QED
          BY <1>3, <2>5, <4>1, <5>1, <5>2, LaterSteps
      <4> QED
        BY <2>1, <4>1
    <3> QED
      BY <3>1, <3>2, <3>3, <3>4 DEF OwnerSees
  <2> QED
    BY <2>3, <2>4, <2>5
<1>4. CASE Open \/ Reap \/ Evict \/ AlarmFails \/ Tick \/ UNCHANGED vars
  <2>1. ~Open /\ ~DeleteAll
    BY <1>1, OpenStep DEF DeleteAll, NoUpload
  <2>2. pc'[q] = pc[q] /\ pc[q] \in Working
    BY <1>4, NothingMoves DEF Working
  <2>3. CASE Expire
    <3>1. UNCHANGED upload
      BY <1>1, <2>3, ExpireStep
    <3> QED
      BY <2>2, <2>3, <3>1 DEF Expire, OwnerSees, Owns
  <2>4. CASE Tick
    <3>1. UNCHANGED work
      BY <2>4 DEF Tick
    <3> QED
      BY <2>2, <2>4, <3>1, TickStep DEF SameBytes, OwnerSees, Owns
  <2>5. CASE UNCHANGED <<upload, work>>
    BY <2>2, <2>5 DEF OwnerSees, Owns
  <2>6. CASE Evict
    <3>1. pc'[q] \notin Working
      BY <2>6 DEF Evict, InFlight, Working
    <3> QED
      BY <3>1
  <2> QED
    BY <1>4, <2>1, <2>3, <2>4, <2>5, <2>6 DEF Reap, AlarmFires, ReaperLists, ReaperRemoves,
       AlarmFails, vars
<1> QED
  BY <1>2, <1>3, <1>4 DEF Next, Handler

\* What Assembly says of one request, with its place and its locals.
Assembled1(w, at, r) ==
  /\ \A i \in DOMAIN w.seen : pc[w.seen[i]] # "idle"
  /\ at \in {"idle", "claim", "store", "commit", "accept"} => w.built = <<>>
  /\ at \in Assembling =>
       /\ Len(w.built) <= Len(w.seen)
       /\ \A i \in 1..Len(w.built) : w.built[i] = req[w.seen[i]].body
  /\ at = "read" => Len(w.built) < Len(w.seen)
  /\ at \in {"verified", "publish", "finish"} =>
       Len(w.built) = Len(w.seen) /\ w.built = r.digest

LEMMA AssemblyOf == Assembly <=> \A o \in Op : Assembled1(work[o], pc[o], req[o])
BY DEF Assembly, Assembled1

LEMMA AssemblyKept ==
  ASSUME TypeOK, Opened, Roles, Commits, Assembly, [Next]_vars PROVE Assembly'
<1>1. ASSUME NEW o \in Op, NEW r \in Request, Arrive(o, r) PROVE Assembly'
  <2>1. /\ UNCHANGED work /\ pc[o] = "idle" /\ pc'[o] \in {"claim", "done"}
        /\ \A q \in Op : q # o => pc'[q] = pc[q] /\ req'[q] = req[q]
    BY <1>1, OthersStay DEF Arrive, TypeOK, RequestOK
  <2>2. \A q \in Op : \A i \in DOMAIN work[q].seen :
          work[q].seen[i] \in Op /\ pc[work[q].seen[i]] # "idle"
    BY DEF Assembly, TypeOK, LocalsOK, Locals
  <2>3. \A q \in Op : pc[q] \in Assembling =>
          \A i \in 1..Len(work[q].built) : i \in DOMAIN work[q].seen
    BY DEF Assembly, TypeOK, LocalsOK, Locals
  <2>4. ASSUME NEW q \in Op PROVE Assembled1(work[q], pc[q], req[q])'
    <3>1. Assembled1(work[q], pc[q], req[q]) /\ (pc'[q] = pc[q] \/ q = o)
      BY <2>1, AssemblyOf
    <3>2. \A i \in DOMAIN work[q].seen : pc'[work[q].seen[i]] # "idle"
      BY <2>1, <2>2
    <3>3. q # o /\ pc[q] \in Assembling =>
            \A i \in 1..Len(work[q].built) : work[q].built[i] = req'[work[q].seen[i]].body
      BY <2>1, <2>2, <2>3, <3>1 DEF Assembled1
    <3> QED
      BY <2>1, <3>1, <3>2, <3>3 DEF Assembled1, Assembling
  <2> QED
    BY <2>4 DEF Assembly, Assembled1
<1>2. ASSUME NEW o \in Op, Handler(o) PROVE Assembly'
  <2>1. /\ UNCHANGED req /\ pc[o] # "idle" /\ pc'[o] # "idle"
        /\ \A q \in Op : q # o => pc'[q] = pc[q] /\ work'[q] = work[q]
    BY <1>2, HandlerFrame, OthersStay, OthersKnow
  <2>2. ASSUME NEW q \in Op, q # o PROVE Assembled1(work[q], pc[q], req[q])'
    <3>1. Assembled1(work[q], pc[q], req[q]) /\ UNCHANGED req
          /\ work'[q] = work[q] /\ pc'[q] = pc[q]
      BY <2>1, <2>2, AssemblyOf
    <3>2. \A i \in DOMAIN work[q].seen : pc'[work[q].seen[i]] # "idle"
      <4>1. \A i \in DOMAIN work[q].seen : work[q].seen[i] \in Op /\ pc[work[q].seen[i]] # "idle"
        BY <3>1 DEF Assembled1, TypeOK, LocalsOK, Locals
      <4> QED
        BY <2>1, <4>1
    <3> QED
      BY <3>1, <3>2 DEF Assembled1
  <2> SUFFICES Assembled1(work[o], pc[o], req[o])'
    BY <2>2 DEF Assembly, Assembled1
  <2>3. Assembled1(work[o], pc[o], req[o])
    BY AssemblyOf
  <2>4. work[o] \in Locals /\ upload.chunks \in Seq(Op)
    BY DEF TypeOK, LocalsOK, RecordOK, Record
  <2>5. \A p \in Op : pc[p] # "idle" => pc'[p] # "idle"
    BY <2>1
  <2>6. ASSUME NEW code, Leave(o, code) PROVE pc'[o] = "discard"
    BY <2>6, OthersStay DEF Leave
  <2>7. ASSUME NEW u, NEW next, UpdateOwned(o, u, next) PROVE pc'[o] \in {next, "discard"}
    BY <2>6, <2>7, OthersStay DEF UpdateOwned
  \* The locals stay: only the place may ask for more.
  <2>8. ASSUME work'[o] = work[o], UNCHANGED req,
               \/ pc'[o] = pc[o]
               \/ pc[o] \in {"claim", "store", "commit", "accept"} /\ pc'[o] \in {"store", "commit", "accept"}
               \/ pc[o] = "assemble" /\ pc'[o] = "read" /\ Len(work[o].built) < Len(work[o].seen)
               \/ pc[o] = "verified" /\ pc'[o] = "publish"
               \/ pc[o] = "publish" /\ pc'[o] = "finish"
               \/ /\ pc[o] = "assemble" /\ pc'[o] = "verified"
                  /\ Len(work[o].built) = Len(work[o].seen) /\ work[o].built = req[o].digest
               \/ pc'[o] \in {"discard", "release", "cancel", "list", "remove"}
        PROVE  Assembled1(work[o], pc[o], req[o])'
    <3>1. \A i \in DOMAIN work[o].seen : pc'[work[o].seen[i]] # "idle"
      BY <2>3, <2>4, <2>5 DEF Assembled1, Locals
    <3> QED
      BY <2>3, <2>8, <3>1 DEF Assembled1, Assembling
  <2>9. CASE Claim(o)
    <3>1. CASE UNCHANGED work /\ pc'[o] = "discard"
      BY <2>1, <2>8, <3>1
    <3>2. CASE pc'[o] = AfterClaim(o) /\ work' = [work EXCEPT ![o].seen = upload.chunks]
      <4>1. work'[o].seen = upload.chunks /\ work'[o].built = work[o].built
        BY <2>4, <3>2 DEF TypeOK, LocalsOK, Locals
      <4>2. work[o].built = <<>>
        BY <2>3, <2>9 DEF Claim, Assembled1
      <4>3. \A i \in DOMAIN upload.chunks : pc[upload.chunks[i]] # "idle"
        BY <2>4 DEF Commits, Chunks
      <4>4. \A i \in DOMAIN upload.chunks : pc'[upload.chunks[i]] # "idle"
        BY <2>4, <2>5, <4>3
      <4>5. Len(work'[o].built) = 0 /\ 0 <= Len(upload.chunks)
        BY <2>4, <4>1, <4>2
      <4>6. AfterClaim(o) \in {"cancel", "store", "accept", "assemble"}
        BY DEF AfterClaim
      <4> QED
        BY <3>2, <4>1, <4>2, <4>4, <4>5, <4>6 DEF Assembled1, Assembling
    <3> QED
      BY <2>6, <2>9, <3>1, <3>2, ClaimStep, OthersStay
  <2>10. CASE CommitPart(o)
    <3>1. CASE UNCHANGED work /\ pc'[o] = "discard"
      BY <2>1, <2>8, <3>1
    <3>2. CASE /\ pc'[o] \in {"accept", "assemble"}
               /\ work' = [work EXCEPT ![o].committed = TRUE,
                                       ![o].seen = Append(upload.chunks, o)]
      <4>1. work'[o].seen = Append(upload.chunks, o) /\ work'[o].built = work[o].built
        BY <2>4, <3>2 DEF TypeOK, LocalsOK, Locals
      <4>2. work[o].built = <<>>
        BY <2>3, <2>10 DEF CommitPart, Assembled1
      <4>3. \A i \in DOMAIN upload.chunks : pc[upload.chunks[i]] # "idle"
        BY <2>4 DEF Commits, Chunks
      <4>4. \A i \in DOMAIN Append(upload.chunks, o) :
              pc'[Append(upload.chunks, o)[i]] # "idle"
        BY <2>1, <2>4, <2>5, <4>3
      <4>5. Len(work'[o].built) = 0 /\ 0 <= Len(Append(upload.chunks, o))
        BY <2>4, <4>1, <4>2
      <4> DEFINE t == Append(upload.chunks, o)
      <4>6. /\ work'[o].seen = t /\ work'[o].built = <<>> /\ Len(work'[o].built) = 0
            /\ 0 <= Len(t) /\ \A i \in DOMAIN t : pc'[t[i]] # "idle"
            /\ pc'[o] \in {"accept", "assemble"}
        BY <3>2, <4>1, <4>2, <4>4, <4>5
      <4> HIDE DEF t
      <4> QED
        BY <4>6 DEF Assembled1, Assembling
    <3> QED
      BY <2>6, <2>10, <3>1, <3>2, CommitStep, OthersStay
  <2>11. CASE ReadChunk(o)
    <3>1. CASE UNCHANGED work /\ pc'[o] = "discard"
      BY <2>1, <2>8, <3>1
    <3>2. CASE /\ pc[o] = "read" /\ pc'[o] = "assemble"
               /\ work' = [work EXCEPT ![o].built =
                             Append(@, req[work[o].seen[Len(work[o].built) + 1]].body)]
      <4> DEFINE b == work[o].built
                 s == work[o].seen
                 x == req[s[Len(b) + 1]].body
      <4>1. work'[o].seen = s /\ work'[o].built = Append(b, x)
        BY <2>4, <3>2 DEF TypeOK, LocalsOK, Locals
      <4>2. /\ Len(b) < Len(s) /\ \A i \in 1..Len(b) : b[i] = req[s[i]].body
            /\ \A i \in DOMAIN s : pc[s[i]] # "idle"
        BY <2>3, <3>2 DEF Assembled1, Assembling
      <4>3. b \in Seq(Data \cup {None}) /\ s \in Seq(Op)
        BY <2>4 DEF Locals
      <4>4. /\ Len(Append(b, x)) = Len(b) + 1 /\ Len(b) \in Nat /\ Len(s) \in Nat
            /\ \A i \in 1..Len(b) : Append(b, x)[i] = b[i]
            /\ Append(b, x)[Len(b) + 1] = x
        BY <4>3
      <4>5. \A i \in 1..(Len(b) + 1) : i \in 1..Len(b) \/ i = Len(b) + 1
        BY <4>4
      <4>6. \A i \in DOMAIN s : pc'[s[i]] # "idle"
        BY <2>5, <4>2, <4>3
      <4> HIDE DEF b, s
      <4>7. \A i \in 1..(Len(b) + 1) : Append(b, x)[i] = req[s[i]].body
        BY <4>2, <4>4, <4>5
      <4>8. Len(b) + 1 <= Len(s)
        BY <4>2, <4>4
      <4> HIDE DEF x
      <4> QED
        BY <2>1, <3>2, <4>1, <4>4, <4>6, <4>7, <4>8 DEF Assembled1, Assembling
    <3> QED
      BY <2>6, <2>11, <3>1, <3>2, OthersStay DEF ReadChunk
  <2>12. CASE Release(o)
    <3>1. pc'[o] = "done" /\ work'[o] = NoWork
      BY <2>12, OthersStay DEF Release, TypeOK, LocalsOK
    <3> QED
      BY <3>1 DEF Assembled1, Assembling, NoWork
  <2>13. CASE ListPrefix(o)
    <3>1. pc'[o] = "remove" /\ work'[o].seen = work[o].seen
      BY <2>4, <2>13, OthersStay DEF ListPrefix, TypeOK, LocalsOK, Locals
    <3>2. \A i \in DOMAIN work[o].seen : pc'[work[o].seen[i]] # "idle"
      BY <2>3, <2>4, <2>5 DEF Assembled1, Locals
    <3> QED
      BY <3>1, <3>2 DEF Assembled1, Assembling
  <2>14. CASE Renew(o)
    <3>1. /\ pc'[o] \in {pc[o], "discard"}
          /\ work'[o].seen = work[o].seen /\ work'[o].built = work[o].built
      BY <2>4, <2>7, <2>14 DEF Renew, TypeOK, LocalsOK, Locals
    <3>2. \A i \in DOMAIN work[o].seen : pc'[work[o].seen[i]] # "idle"
      BY <2>3, <2>4, <2>5 DEF Assembled1, Locals
    <3> QED
      BY <2>1, <2>3, <3>1, <3>2 DEF Assembled1, Assembling
  <2>15. CASE Assemble(o) \/ Verified(o) \/ Finish(o) \/ Cancel(o)
    <3>1. /\ UNCHANGED work
          /\ \/ Assemble(o) /\ pc'[o] \in {"read", "discard"}
             \/ Verified(o) /\ pc'[o] \in {"publish", "discard"}
             \/ pc'[o] \in {"list", "discard"}
      BY <2>7, <2>15 DEF Assemble, Verified, Finish, Cancel
    <3> QED
      BY <2>1, <2>8, <3>1 DEF Assemble, Verified
  <2>16. CASE StorePart(o) \/ Accept(o) \/ StoreAssembled(o) \/ Publish(o)
    BY <2>1, <2>6, <2>8, <2>16, OthersStay DEF StorePart, Accept, StoreAssembled, Publish
  <2>17. CASE RemoveListed(o) \/ Discard(o) \/ Fail(o)
    BY <2>1, <2>6, <2>8, <2>17, OthersStay DEF RemoveListed, Discard, Fail
  <2> QED
    BY <1>2, <2>9, <2>10, <2>11, <2>12, <2>13, <2>14, <2>15, <2>16, <2>17 DEF Handler, Handle
<1>3. CASE Open \/ Reap \/ Evict \/ AlarmFails \/ Tick \/ UNCHANGED vars
  <2>1. /\ UNCHANGED req
        /\ \A p \in Op : pc'[p] = pc[p] \/ (pc[p] # "idle" /\ pc'[p] = "done")
    BY <1>3, NothingMoves
  <2>2. CASE Evict
    <3>1. \A q \in Op : work'[q] = NoWork /\ pc'[q] \in {"idle", "done"}
      BY <2>2 DEF Evict, InFlight, TypeOK, ControlOK
    <3>2. ASSUME NEW q \in Op PROVE Assembled1(work[q], pc[q], req[q])'
      BY <3>1 DEF Assembled1, Assembling, NoWork
    <3> QED
      BY <3>2 DEF Assembly, Assembled1
  <2>3. CASE UNCHANGED work
    <3>1. ASSUME NEW q \in Op PROVE Assembled1(work[q], pc[q], req[q])'
      <4>1. Assembled1(work[q], pc[q], req[q]) /\ work'[q] = work[q] /\ UNCHANGED req
        BY <2>1, <2>3, AssemblyOf
      <4>2. \A i \in DOMAIN work[q].seen : pc'[work[q].seen[i]] # "idle"
        <5>1. \A i \in DOMAIN work[q].seen :
                work[q].seen[i] \in Op /\ pc[work[q].seen[i]] # "idle"
          BY <4>1 DEF Assembled1, TypeOK, LocalsOK, Locals
        <5> QED
          BY <2>1, <5>1
      <4> QED
        BY <2>1, <4>1, <4>2 DEF Assembled1, Assembling
    <3> QED
      BY <3>1 DEF Assembly, Assembled1
  <2> QED
    BY <1>3, <2>2, <2>3 DEF Open, Reap, AlarmFires, Expire, ReaperLists, ReaperRemoves,
       DeleteAll, AlarmFails, Tick, vars
<1> QED
  BY <1>1, <1>2, <1>3 DEF Next, Handler
LEMMA PublishedKept ==
  ASSUME TypeOK, Opened, Roles, Assembly, Published, [Next]_vars PROVE Published'
<1>1. ASSUME NEW o \in Op, NEW r \in Request, Arrive(o, r) PROVE Published'
  <2>1. /\ UNCHANGED blobs /\ pc'[o] \in {"claim", "done"}
        /\ \A q \in Op : q # o => pc'[q] = pc[q] /\ req'[q] = req[q]
    BY <1>1, OthersStay DEF Arrive, TypeOK, RequestOK
  <2> QED
    BY <2>1 DEF Published
<1>2. ASSUME NEW o \in Op, Handler(o) PROVE Published'
  <2>1. UNCHANGED req /\ \A q \in Op : q # o => pc'[q] = pc[q]
    BY <1>2, HandlerFrame, OthersStay
  <2>2. ASSUME NEW code, Leave(o, code) PROVE pc'[o] = "discard"
    BY <2>2, OthersStay DEF Leave
  <2>3. ASSUME NEW u, NEW next, UpdateOwned(o, u, next) PROVE pc'[o] \in {next, "discard"}
    BY <2>2, <2>3, OthersStay DEF UpdateOwned
  <2>4. CASE Publish(o)
    <3>1. CASE UNCHANGED blobs /\ pc'[o] = "discard"
      BY <2>1, <3>1 DEF Published
    <3>2. CASE /\ pc'[o] = "finish"
               /\ blobs' = {b \in blobs : b[1] # req[o].digest}
                             \union {<<req[o].digest, work[o].built>>}
      <4>1. work[o].built = req[o].digest
        BY <2>4 DEF Publish, Assembly
      <4>2. \A d : <<d, d>> \in blobs => <<d, d>> \in blobs'
        BY <3>2, <4>1
      <4>3. <<req[o].digest, req[o].digest>> \in blobs'
        BY <3>2, <4>1
      <4> QED
        BY <2>1, <4>2, <4>3 DEF Published
    <3> QED
      BY <2>2, <2>4, <3>1, <3>2, OthersStay DEF Publish
  <2>5. ASSUME UNCHANGED blobs,
               pc'[o] = "finish" \/ (pc'[o] \in {"list", "remove"} /\ req[o].method = "PUT") =>
                 pc[o] = "finish" \/ (pc[o] \in {"list", "remove"} /\ req[o].method = "PUT")
        PROVE  Published'
    BY <2>1, <2>5 DEF Published
  <2>6. CASE Claim(o)
    <3>1. pc'[o] \in {AfterClaim(o), "discard"}
      BY <2>2, <2>6, ClaimStep, OthersStay
    <3> QED
      BY <2>5, <2>6, <3>1 DEF AfterClaim, Claim
  <2>7. CASE CommitPart(o) \/ Assemble(o) \/ Verified(o) \/ Renew(o)
    BY <2>3, <2>5, <2>7 DEF CommitPart, Assemble, Verified, Renew
  <2>8. CASE Finish(o)
    BY <2>3, <2>5, <2>8 DEF Finish
  <2>9. CASE Cancel(o)
    BY <2>3, <2>5, <2>9 DEF Cancel, Roles
  <2>10. CASE ListPrefix(o)
    BY <2>5, <2>10, OthersStay DEF ListPrefix
  <2>11. CASE \/ StorePart(o) \/ Accept(o) \/ ReadChunk(o) \/ StoreAssembled(o)
              \/ RemoveListed(o) \/ Discard(o) \/ Release(o) \/ Fail(o)
    BY <2>2, <2>5, <2>11, OthersStay DEF StorePart, Accept, ReadChunk, StoreAssembled,
       RemoveListed, Discard, Release, Fail
  <2> QED
    BY <1>2, <2>4, <2>6, <2>7, <2>8, <2>9, <2>10, <2>11 DEF Handler, Handle
<1>3. CASE Open \/ Reap \/ Evict \/ AlarmFails \/ Tick \/ UNCHANGED vars
  <2>1. UNCHANGED blobs
    BY <1>3 DEF Open, Reap, AlarmFires, Expire, ReaperLists, ReaperRemoves, DeleteAll, Evict,
       AlarmFails, Tick, vars
  <2> QED
    BY <1>3, <2>1, NothingMoves DEF Published
<1> QED
  BY <1>1, <1>2, <1>3 DEF Next, Handler

\* A blob that holds what it is named for is never taken back.
LEMMA BlobsStay ==
  ASSUME TypeOK, Assembly, [Next]_vars, NEW d
  PROVE  /\ <<d, d>> \in blobs => <<d, d>> \in blobs'
         /\ (\E b \in blobs : b[1] = d) => \E b \in blobs' : b[1] = d
<1>1. ASSUME NEW o \in Op, Publish(o)
      PROVE  /\ <<d, d>> \in blobs => <<d, d>> \in blobs'
             /\ (\E b \in blobs : b[1] = d) => \E b \in blobs' : b[1] = d
  <2>1. work[o].built = req[o].digest
    BY <1>1 DEF Publish, Assembly
  <2>2. CASE UNCHANGED blobs
    BY <2>2
  <2>3. CASE blobs' = {b \in blobs : b[1] # req[o].digest}
                        \union {<<req[o].digest, work[o].built>>}
    <3>1. <<d, d>> \in blobs => <<d, d>> \in blobs'
      BY <2>1, <2>3
    <3>2. CASE d = req[o].digest
      <4>1. <<d, d>> \in blobs' /\ <<d, d>>[1] = d
        BY <2>1, <2>3, <3>2
      <4> QED
        BY <3>1, <4>1
    <3>3. CASE d # req[o].digest
      BY <2>3, <3>1, <3>3
    <3> QED
      BY <3>2, <3>3
  <2> QED
    BY <1>1, <2>2, <2>3 DEF Publish
<1>2. CASE UNCHANGED blobs
  BY <1>2
<1> QED
  BY <1>1, <1>2 DEF Next, Open, Arrive, Handle, Claim, StorePart, CommitPart, Accept, Assemble,
     ReadChunk, StoreAssembled, Verified, Finish, Cancel, ListPrefix, RemoveListed, Discard,
     Release, Renew, Fail, Reap, AlarmFires, Expire, ReaperLists, ReaperRemoves, DeleteAll,
     Evict, AlarmFails, Tick, vars

\* What a finishing owner has built is the content of the upload.
LEMMA BuiltIsContent ==
  ASSUME TypeOK, OwnerSees, Assembly, NEW o \in Op, Owns(o), pc[o] = "finish"
  PROVE  req[o].digest = Content(upload.chunks)
<1> DEFINE b == work[o].built
           s == upload.chunks
<1>1. /\ b \in Seq(Data \cup {None}) /\ s \in Seq(Op)
      /\ b = req[o].digest /\ Len(b) = Len(s)
      /\ \A i \in 1..Len(b) : b[i] = req[s[i]].body
  BY DEF TypeOK, LocalsOK, Locals, RecordOK, Record, OwnerSees, Working, Assembly, Assembling
<1>2. b = [i \in 1..Len(b) |-> b[i]] /\ DOMAIN s = 1..Len(s)
  BY <1>1
<1> HIDE DEF b, s
<1>3. [i \in 1..Len(b) |-> b[i]] = [i \in DOMAIN s |-> req[s[i]].body]
  BY <1>1, <1>2
<1> QED
  BY <1>1, <1>2, <1>3 DEF Content, s

\* The content is that of the chunks: it changes only with them.
LEMMA ContentStays ==
  ASSUME TypeOK, Commits, upload'.chunks = upload.chunks,
         \A o \in Op : pc[o] # "idle" => req'[o] = req[o]
  PROVE  Content(upload.chunks)' = Content(upload.chunks)
<1>1. upload.chunks \in Seq(Op) /\ \A i \in DOMAIN upload.chunks : pc[upload.chunks[i]] # "idle"
  BY DEF TypeOK, RecordOK, Record, Commits, Chunks
<1>2. \A i \in DOMAIN upload.chunks : req'[upload.chunks[i]] = req[upload.chunks[i]]
  BY <1>1
<1> QED
  BY <1>2 DEF Content

\* The requests at work keep what they carry.
LEMMA RequestsStay ==
  ASSUME TypeOK, [Next]_vars PROVE \A o \in Op : pc[o] # "idle" => req'[o] = req[o]
<1>1. ASSUME NEW o \in Op, NEW r \in Request, Arrive(o, r)
      PROVE  \A q \in Op : pc[q] # "idle" => req'[q] = req[q]
  BY <1>1 DEF Arrive, TypeOK, RequestOK
<1>2. ASSUME NEW o \in Op, Handler(o) PROVE UNCHANGED req
  BY <1>2, HandlerFrame
<1>3. CASE Open \/ Reap \/ Evict \/ AlarmFails \/ Tick \/ UNCHANGED vars
  BY <1>3, NothingMoves
<1> QED
  BY <1>1, <1>2, <1>3 DEF Next, Handler

LEMMA WholeKept ==
  ASSUME TypeOK, Opened, Roles, Commits, OwnerSees, Assembly, Published, CompletedIsWhole,
         [Next]_vars
  PROVE  CompletedIsWhole'
<1> SUFFICES ASSUME upload'.completed # None
             PROVE  /\ upload'.completed = Content(upload.chunks)'
                    /\ <<upload'.completed, upload'.completed>> \in blobs'
  BY DEF CompletedIsWhole
<1>1. \A o \in Op : pc[o] # "idle" => req'[o] = req[o]
  BY RequestsStay
<1>2. ASSUME upload'.completed = upload.completed, upload'.chunks = upload.chunks
      PROVE  /\ upload'.completed = Content(upload.chunks)'
             /\ <<upload'.completed, upload'.completed>> \in blobs'
  BY <1>1, <1>2, ContentStays, BlobsStay DEF CompletedIsWhole
<1>3. ASSUME NEW o \in Op, Handler(o)
      PROVE  /\ upload'.completed = Content(upload.chunks)'
             /\ <<upload'.completed, upload'.completed>> \in blobs'
  <2>1. CASE Finish(o) /\ Owns(o)
    <3>1. upload'.completed = req[o].digest /\ upload'.chunks = upload.chunks
          /\ pc[o] = "finish" /\ blobs' = blobs
      BY <2>1, FinishStep DEF Finish
    <3>2. req[o].digest = Content(upload.chunks)
      BY <2>1, <3>1, BuiltIsContent
    <3>3. <<req[o].digest, req[o].digest>> \in blobs
      BY <3>1 DEF Published
    <3> QED
      BY <1>1, <3>1, <3>2, <3>3, ContentStays
  <2>2. CASE ~(Finish(o) /\ Owns(o))
    <3>1. upload'.completed = upload.completed
      <4>1. CASE ~Owns(o)
        BY <1>3, <4>1, SealedStays
      <4>2. CASE Cancel(o) \/ CommitPart(o) \/ Claim(o) \/ Release(o)
        BY <4>2, CancelStep, CommitStep, ClaimStep, ReleaseStep DEF SameBytes
      <4>3. CASE Assemble(o) \/ Verified(o) \/ Renew(o)
        <5>1. PICK next : UpdateOwned(o, Renewed(upload), next)
          BY <4>3 DEF Assemble, Verified, Renew
        <5> QED
          BY <5>1, RenewStep DEF SameBytes
      <4> QED
        BY <1>3, <2>2, <4>1, <4>2, <4>3 DEF Handler, Handle, StorePart, Accept, ReadChunk,
           StoreAssembled, Publish, ListPrefix, RemoveListed, Discard, Fail
    <3>2. ~(CommitPart(o) /\ Owns(o))
      BY <3>1, CommitStep DEF Owns
    <3>3. upload'.chunks = upload.chunks
      BY <1>3, <3>2, ChunksOfHandler
    <3> QED
      BY <1>2, <3>1, <3>3
  <2> QED
    BY <2>1, <2>2
<1>4. CASE Open \/ Reap \/ Evict \/ AlarmFails \/ Tick \/ UNCHANGED vars
  BY <1>2, <1>4, ChunksElsewhere
<1>5. ASSUME NEW o \in Op, NEW r \in Request, Arrive(o, r) PROVE UNCHANGED upload
  BY <1>5 DEF Arrive
<1> QED
  BY <1>2, <1>3, <1>4, <1>5 DEF Next, Handler
-----------------------------------------------------------------------------
(* Answers.                                                                *)

LEMMA UnansweredKept ==
  ASSUME TypeOK, Unanswered, [Next]_vars PROVE Unanswered'
<1>1. ASSUME NEW o \in Op, NEW r \in Request, Arrive(o, r) PROVE Unanswered'
  BY <1>1 DEF Arrive, Goto, Unanswered, TypeOK, ControlOK
<1>2. ASSUME NEW o \in Op, Handler(o) PROVE Unanswered'
  <2>1. \A q \in Op : q # o => pc'[q] = pc[q] /\ status'[q] = status[q]
    BY <1>2, HandlerFrame, OthersStay, OthersKnow
  <2>2. ASSUME NEW code, Leave(o, code) PROVE pc'[o] = "discard"
    BY <2>2, OthersStay DEF Leave
  <2>3. CASE pc'[o] \in {"discard", "release", "done"}
    BY <2>1, <2>3 DEF Unanswered
  <2>4. CASE UNCHANGED status /\ pc[o] \notin {"discard", "release", "done"}
    BY <2>1, <2>4 DEF Unanswered
  <2>5. CASE Claim(o)
    <3>1. CASE UNCHANGED status
      BY <2>4, <2>5, <3>1 DEF Claim
    <3>2. CASE \E code : Leave(o, code)
      BY <2>2, <2>3, <3>2
    <3> QED
      BY <2>5, <3>1, <3>2, ClaimStep
  <2>6. CASE CommitPart(o) \/ Assemble(o) \/ Verified(o) \/ Finish(o) \/ Cancel(o) \/ Renew(o)
    BY <2>2, <2>3, <2>4, <2>6 DEF CommitPart, Assemble, Verified, Finish, Cancel, Renew,
       Streaming, UpdateOwned
  <2>7. CASE \/ StorePart(o) \/ Accept(o) \/ ReadChunk(o) \/ StoreAssembled(o) \/ Publish(o)
             \/ ListPrefix(o) \/ RemoveListed(o) \/ Fail(o)
    BY <2>2, <2>3, <2>4, <2>7 DEF StorePart, Accept, ReadChunk, StoreAssembled, Publish,
       ListPrefix, RemoveListed, Fail
  <2>8. CASE Discard(o) \/ Release(o)
    BY <2>3, <2>8, OthersStay DEF Discard, Release
  <2> QED
    BY <1>2, <2>5, <2>6, <2>7, <2>8 DEF Handler, Handle
<1>3. CASE Evict
  BY <1>3 DEF Evict, InFlight, Unanswered, TypeOK, ControlOK
<1>4. CASE Open \/ Reap \/ AlarmFails \/ Tick \/ UNCHANGED vars
  BY <1>4 DEF Open, Reap, AlarmFires, Expire, ReaperLists, ReaperRemoves, DeleteAll,
     AlarmFails, Tick, vars, Unanswered
<1> QED
  BY <1>1, <1>2, <1>3, <1>4 DEF Next, Handler

\* AnswersHold, of one request and in terms of Chunks.
Truthful(o) ==
  /\ req[o].method = "PATCH" =>
       /\ status[o] = 202 /\ req[o].body # None /\ upload.stored => o \in Chunks
       /\ status[o] \notin {0, 202} => o \notin Chunks
  /\ status[o] = 201 => \E b \in blobs : b[1] = req[o].digest

LEMMA AnswersOf ==
  (AnswersHold <=> \A o \in Op : Truthful(o)) /\ (AnswersHold <=> \A o \in Op : Truthful(o))'
BY DEF AnswersHold, Truthful, Chunks

LEMMA TruthfulKept ==
  ASSUME TypeOK, Opened, Roles, Commits, Assembly, Published, Unanswered, CompletedIsWhole,
         \A o \in Op : Truthful(o), [Next]_vars, NEW q \in Op
  PROVE  Truthful(q)'
<1>1. ASSUME req'[q] = req[q], status'[q] \in {status[q], 0}, upload'.stored => upload.stored,
             q \in Chunks /\ upload'.stored => q \in Chunks',
             status[q] # 0 /\ q \notin Chunks => q \notin Chunks'
      PROVE  Truthful(q)'
  <2>1. (\E b \in blobs : b[1] = req[q].digest) => \E b \in blobs' : b[1] = req[q].digest
    BY BlobsStay
  <2> QED
    BY <1>1, <2>1 DEF Truthful
<1>2. ASSUME NEW o \in Op, NEW r \in Request, Arrive(o, r) PROVE Truthful(q)'
  <2>1. /\ UNCHANGED <<upload, blobs>> /\ Chunks' = Chunks /\ req'[o] = r
        /\ \A p \in Op : p # o => req'[p] = req[p] /\ status'[p] = status[p]
    BY <1>2 DEF Arrive, TypeOK, ControlOK, RequestOK, Chunks
  <2>2. CASE q # o
    BY <1>1, <2>1, <2>2
  <2>3. CASE q = o
    <3>1. pc[o] = "idle" /\ o \notin Chunks /\ status[o] = 0
      BY <1>2 DEF Arrive, Commits, Unanswered
    <3>2. CASE status'[o] \in {0, 404}
      BY <2>1, <2>3, <3>1, <3>2 DEF Truthful
    <3>3. CASE status'[o] = 201 /\ r.method = "PUT" /\ r.digest = upload.completed
               /\ upload.completed # None
      <4>1. <<r.digest, r.digest>> \in blobs /\ <<r.digest, r.digest>>[1] = r.digest
        BY <3>3 DEF CompletedIsWhole
      <4> QED
        BY <2>1, <2>3, <3>3, <4>1 DEF Truthful
    <3> QED
      BY <1>2, <3>1, <3>2, <3>3 DEF Arrive, TypeOK, ControlOK
  <2> QED
    BY <2>2, <2>3
<1>3. ASSUME NEW o \in Op, Handler(o) PROVE Truthful(q)'
  <2>1. /\ UNCHANGED req /\ upload'.stored = upload.stored
        /\ \A p \in Op : p # o => status'[p] = status[p]
    BY <1>3, HandlerFrame, OthersKnow, HandlerRecord
  <2>2. Chunks' = Chunks \/ (CommitPart(o) /\ Owns(o) /\ Chunks' = Chunks \cup {o})
    BY <1>3, ChunksOfHandler
  <2>3. CASE q # o
    BY <1>1, <2>1, <2>2, <2>3
  <2>4. CASE status'[o] = status[o]
    <3>1. CommitPart(o) => status[o] = 0
      BY DEF CommitPart, Unanswered
    <3> QED
      BY <1>1, <2>1, <2>2, <2>3, <2>4, <3>1
  <2>5. ASSUME NEW code, Leave(o, code), q = o PROVE status'[o] = code
    BY <2>5 DEF Leave, TypeOK, ControlOK
  \* A refusal, where the chunk was not committed yet or was never the point.
  <2>6. ASSUME q = o, status'[o] \in {400, 409, 413, 416, 500}, Chunks' = Chunks,
               req[o].method # "PATCH" \/ o \notin Chunks
        PROVE  Truthful(q)'
    BY <2>1, <2>6 DEF Truthful
  <2>7. ASSUME NEW u, NEW next, UpdateOwned(o, u, next), q = o
        PROVE  status'[o] = status[o] \/ (status'[o] = 409 /\ ~Owns(o))
    BY <2>5, <2>7 DEF UpdateOwned
  <2>8. pc[o] \in {"claim", "store", "commit"} => o \notin Chunks
    BY DEF Commits
  <2>9. pc[o] \in {"list", "remove", "cancel"} \cup Assembling => req[o].method # "PATCH"
    BY DEF Roles
  <2>10. CASE Claim(o) /\ q = o
    <3>1. pc[o] = "claim" /\ Chunks' = Chunks
      BY <2>2, <2>10 DEF Claim, CommitPart
    <3>2. status'[o] \in {status[o], 409, 413, 416}
      BY <2>5, <2>10, ClaimStep
    <3> QED
      BY <2>4, <2>6, <2>8, <2>10, <3>1, <3>2
  <2>11. CASE CommitPart(o) /\ q = o
    <3>1. pc[o] = "commit"
      BY <2>11 DEF CommitPart
    <3>2. status'[o] = status[o] \/ (status'[o] = 409 /\ ~Owns(o))
      BY <2>7, <2>11 DEF CommitPart
    <3> QED
      BY <2>2, <2>4, <2>6, <2>8, <2>11, <3>1, <3>2
  <2>12. CASE (Assemble(o) \/ Verified(o) \/ Finish(o) \/ Cancel(o) \/ Renew(o)) /\ q = o
    <3>1. pc[o] \in {"store", "cancel"} \cup Assembling
      BY <2>12 DEF Assemble, Verified, Finish, Cancel, Renew, Streaming, Assembling
    <3>2. status'[o] \in {status[o], 409}
      BY <2>7, <2>12 DEF Assemble, Verified, Finish, Cancel, Renew
    <3>3. Chunks' = Chunks
      BY <2>2, <3>1 DEF CommitPart, Assembling
    <3> QED
      BY <2>4, <2>6, <2>8, <2>9, <2>12, <3>1, <3>2, <3>3
  <2>13. CASE (ReadChunk(o) \/ StoreAssembled(o) \/ Publish(o) \/ Fail(o)) /\ q = o
    <3>1. /\ pc[o] \in {"store", "commit", "list", "remove"} \cup Assembling
          /\ status'[o] \in {status[o], 400, 500} /\ UNCHANGED upload
      BY <2>5, <2>13 DEF ReadChunk, StoreAssembled, Publish, Fail, Assembling
    <3>2. Chunks' = Chunks
      BY <3>1 DEF Chunks
    <3> QED
      BY <2>4, <2>6, <2>8, <2>9, <2>13, <3>1, <3>2
  <2>14. CASE Accept(o) /\ q = o
    <3>1. pc[o] = "accept" /\ status'[o] = 202 /\ UNCHANGED upload
      BY <2>5, <2>14 DEF Accept
    <3>2. req[o].body # None /\ upload.stored => o \in Chunks
      BY <3>1 DEF Commits
    <3> QED
      BY <2>1, <2>14, <3>1, <3>2 DEF Truthful, Chunks
  <2>15. CASE RemoveListed(o) /\ q = o
    <3>1. /\ pc[o] = "remove" /\ UNCHANGED blobs
          /\ status'[o] = IF req[o].method = "DELETE" THEN 204 ELSE 201
      BY <2>5, <2>15 DEF RemoveListed
    <3>2. req[o].method \in {"PUT", "DELETE"}
      BY <3>1 DEF Roles, TypeOK, RequestOK, Method
    <3>3. req[o].method = "PUT" => <<req[o].digest, req[o].digest>> \in blobs
      BY <3>1 DEF Published
    <3>4. \A d : <<d, d>>[1] = d
      OBVIOUS
    <3> QED
      BY <2>1, <2>15, <3>1, <3>2, <3>3, <3>4 DEF Truthful
  <2>16. CASE StorePart(o) \/ ListPrefix(o) \/ Discard(o) \/ Release(o)
    BY <2>4, <2>16 DEF StorePart, ListPrefix, Discard, Release
  <2> QED
    BY <1>3, <2>3, <2>10, <2>11, <2>12, <2>13, <2>14, <2>15, <2>16 DEF Handler, Handle
<1>4. CASE Open \/ Reap \/ Evict \/ AlarmFails \/ Tick \/ UNCHANGED vars
  <2>1. UNCHANGED req
    BY <1>4, NothingMoves
  <2>2. CASE ~Open
    <3>1. status'[q] \in {status[q], 0}
      BY <1>4, <2>2 DEF Reap, AlarmFires, Expire, ReaperLists, ReaperRemoves, DeleteAll, Evict,
         AlarmFails, Tick, vars, TypeOK, ControlOK
    <3> QED
      BY <1>1, <1>4, <2>1, <2>2, <3>1, ChunksElsewhere
  <2>3. CASE Open
    <3>1. status[q] = 0 /\ UNCHANGED status
      BY <2>3 DEF Open, Opened, Unanswered
    <3> QED
      BY <3>1 DEF Truthful
  <2> QED
    BY <2>2, <2>3
<1> QED
  BY <1>2, <1>3, <1>4 DEF Next, Handler
-----------------------------------------------------------------------------
LEMMA InitBytes == Init => BytesInv
<1> SUFFICES ASSUME Init PROVE BytesInv
  OBVIOUS
<1>1. TypeOK
  BY InitTyped
<1>2. Chunks = {}
  BY DEF Init, NoUpload, Chunks
<1>3. Opened /\ Roles /\ Commits /\ Removals /\ Published /\ Unanswered
  BY <1>2 DEF Init, NoUpload, IdleReaper, Opened, Roles, Assembling, Commits, Removals,
     Published, Unanswered
<1>4. Parts /\ OwnerSees /\ Assembly
  BY <1>2 DEF Init, NoUpload, NoWork, Parts, OwnerSees, Owns, Working, Assembly, Assembling
<1>5. CompletedIsWhole /\ AnswersHold
  BY DEF Init, NoUpload, CompletedIsWhole, AnswersHold
<1> QED
  BY <1>1, <1>3, <1>4, <1>5 DEF BytesInv

LEMMA NextBytes == BytesInv /\ [Next]_vars => BytesInv'
<1> SUFFICES ASSUME BytesInv, [Next]_vars PROVE BytesInv'
  OBVIOUS
<1> USE DEF BytesInv
<1>1. TypeOK'
  BY NextTyped
<1>2. Opened' /\ Roles' /\ Commits' /\ Removals' /\ Parts'
  BY OpenedKept, RolesKept, CommitsKept, RemovalsKept, PartsStay
<1>3. OwnerSees' /\ Assembly' /\ Published' /\ Unanswered' /\ CompletedIsWhole'
  BY OwnerSeesKept, AssemblyKept, PublishedKept, UnansweredKept, WholeKept
<1>4. AnswersHold'
  <2>1. \A q \in Op : Truthful(q)
    BY AnswersOf
  <2>2. \A q \in Op : Truthful(q)'
    BY <2>1, TruthfulKept
  <2> QED
    BY <2>2, AnswersOf
<1> QED
  BY <1>1, <1>2, <1>3, <1>4

LEMMA BytesInvariant == Spec => []BytesInv
BY InitBytes, NextBytes, PTL DEF Spec

\* Whatever requests overlap and wherever they stop: the acknowledged bytes are
\* those that are kept, assembled and published (registry.ts:503-696).
THEOREM BytesAreKept == Spec => []BytesKept
<1>1. BytesInv => BytesKept
  BY DEF BytesInv, BytesKept, PartsKept, Parts, Ended, Chunks, TypeOK, RecordOK, Record
<1> QED
  BY <1>1, BytesInvariant, PTL
-----------------------------------------------------------------------------
(* Nothing is left behind.                                                 *)

\* Positions from which a request adds no object before it has written the record.
Still == {"idle", "claim", "discard", "release", "done"}

\* Whoever writes the record restarts the inactivity period, and finds an upload
\* that is not cancelled or still its own.
LEMMA HandlerWrites ==
  ASSUME TypeOK, NEW o \in Op, Handler(o)
  PROVE  \/ UNCHANGED upload
         \/ /\ upload.stored /\ upload'.ttl = UPLOAD_TTL_MS
            /\ upload.cancelled => upload.operation = o
<1>1. CASE Claim(o)
  BY <1>1, ClaimStep DEF Conflicts
<1>2. CASE CommitPart(o)
  BY <1>2, CommitStep DEF Owns
<1>3. CASE Assemble(o) \/ Verified(o) \/ Renew(o)
  <2>1. PICK next : UpdateOwned(o, Renewed(upload), next)
    BY <1>3 DEF Assemble, Verified, Renew
  <2> QED
    BY <2>1, RenewStep DEF Owns
<1>4. CASE Finish(o) \/ Cancel(o)
  BY <1>4, FinishStep, CancelStep DEF Owns
<1>5. CASE Release(o)
  BY <1>5, ReleaseStep
<1>6. CASE UNCHANGED upload
  BY <1>6
<1> QED
  BY <1>1, <1>2, <1>3, <1>4, <1>5, <1>6 DEF Handler, Handle, StorePart, Accept, ReadChunk,
     StoreAssembled, Publish, ListPrefix, RemoveListed, Discard, Fail

LEMMA StillStep ==
  ASSUME TypeOK, NEW o \in Op, Handler(o), pc[o] \in Still,
         ~(upload.stored /\ upload'.ttl = UPLOAD_TTL_MS)
  PROVE  pc'[o] \in Still /\ objects' \subseteq objects
<1>1. CASE Claim(o)
  <2>1. PICK code : Leave(o, code)
    BY <1>1, ClaimStep DEF Conflicts
  <2>2. pc'[o] = "discard" /\ UNCHANGED objects
    BY <1>1, <2>1, OthersStay DEF Claim, Leave
  <2> QED
    BY <2>2 DEF Still
<1>2. CASE Discard(o)
  <2>1. pc'[o] = "release" /\ objects' \subseteq objects
    BY <1>2, OthersStay DEF Discard
  <2> QED
    BY <2>1 DEF Still
<1>3. CASE Release(o)
  <2>1. pc'[o] = "done" /\ objects' \subseteq objects
    BY <1>3, OthersStay DEF Release
  <2> QED
    BY <2>1 DEF Still
<1> QED
  BY <1>1, <1>2, <1>3 DEF Still, Handler, Handle, StorePart, CommitPart, Accept, Assemble,
     ReadChunk, StoreAssembled, Verified, Publish, Finish, Cancel, ListPrefix, RemoveListed,
     Renew, Fail, Streaming

\* Steps that are not of a request add no object.
LEMMA ObjectsElsewhere ==
  ASSUME Open \/ Reap \/ Evict \/ AlarmFails \/ Tick \/ UNCHANGED vars
  PROVE  objects' \subseteq objects
BY DEF Open, Reap, AlarmFires, Expire, ReaperLists, ReaperRemoves, DeleteAll, Evict, AlarmFails,
   Tick, vars

LEMMA QuietKept ==
  ASSUME BytesInv, RequestsEnd, Quiet, Swept, [Next]_vars PROVE Quiet'
<1> USE DEF BytesInv
<1> SUFFICES ASSUME opened', upload'.stored => upload'.ttl = 0, NEW q \in Op
             PROVE  pc'[q] \in Still
  BY DEF Quiet, Still
<1>1. 0 # UPLOAD_TTL_MS
  BY UploadAssumption
<1>2. ASSUME NEW o \in Op, NEW r \in Request, Arrive(o, r) PROVE pc'[q] \in Still
  <2>1. UNCHANGED <<upload, opened>> /\ pc'[o] \in {"claim", "done"}
        /\ \A p \in Op : p # o => pc'[p] = pc[p]
    BY <1>2, OthersStay DEF Arrive
  <2> QED
    BY <2>1 DEF Quiet, Still
<1>3. ASSUME NEW o \in Op, Handler(o) PROVE pc'[q] \in Still
  <2>1. /\ UNCHANGED opened /\ upload'.stored = upload.stored
        /\ \A p \in Op : p # o => pc'[p] = pc[p]
    BY <1>3, HandlerFrame, OthersStay, HandlerRecord
  <2>2. UNCHANGED upload
    BY <1>1, <1>3, <2>1, HandlerWrites
  <2>3. \A p \in Op : pc[p] \in Still
    BY <2>1, <2>2 DEF Quiet, Still
  <2>4. pc'[o] \in Still
    BY <1>1, <1>3, <2>1, <2>3, StillStep
  <2> QED
    BY <2>1, <2>3, <2>4
<1>4. CASE Open
  BY <1>1, <1>4, OpenStep
<1>5. CASE Tick
  <2>1. UNCHANGED pc
    BY <1>5 DEF Tick
  <2>2. upload'.stored /\ ~(upload'.ttl > 0)
    BY <1>5, TickStep DEF SameBytes
  <2>3. InFlight = {}
    BY <1>5, <2>2, TickStep
  <2> QED
    BY <2>1, <2>3 DEF InFlight, Still
<1>6. CASE Reap \/ Evict \/ AlarmFails \/ UNCHANGED vars
  <2>1. upload.stored => upload.ttl = 0
    <3>1. CASE DeleteAll
      BY <3>1 DEF DeleteAll, Swept
    <3>2. CASE Expire
      BY <3>2, ExpireStep
    <3> QED
      BY <1>6, <3>1, <3>2 DEF Reap, AlarmFires, ReaperLists, ReaperRemoves, Evict, AlarmFails,
         vars
  <2>2. UNCHANGED opened
    BY <1>6 DEF Reap, AlarmFires, Expire, ReaperLists, ReaperRemoves, DeleteAll, Evict,
       AlarmFails, vars
  <2>3. pc[q] \in Still /\ (pc'[q] = pc[q] \/ pc'[q] = "done")
    BY <1>6, <2>1, <2>2, NothingMoves DEF Quiet, Still
  <2> QED
    BY <2>3 DEF Still
<1> QED
  BY <1>2, <1>3, <1>4, <1>5, <1>6 DEF Next, Handler

\* At an end that the reaper works on, or after it, no step adds an object.
LEMMA NoMoreObjects ==
  ASSUME BytesInv, Quiet, opened, upload.stored => upload.ttl = 0, [Next]_vars,
         upload.stored => upload.cancelled /\ upload.operation = None
  PROVE  /\ objects' \subseteq objects
         /\ \A o \in Op : Handler(o) => UNCHANGED upload
<1> USE DEF BytesInv
<1>1. ASSUME NEW o \in Op, Handler(o) PROVE objects' \subseteq objects /\ UNCHANGED upload
  <2>1. UNCHANGED upload
    BY <1>1, NoneOwns, HandlerWrites
  <2>2. 0 # UPLOAD_TTL_MS
    BY UploadAssumption
  <2>3. pc[o] \in Still
    BY DEF Quiet, Still
  <2> QED
    BY <1>1, <2>1, <2>2, <2>3, StillStep
<1>2. ASSUME NEW o \in Op, NEW r \in Request, Arrive(o, r) PROVE objects' \subseteq objects
  BY <1>2 DEF Arrive
<1> QED
  BY <1>1, <1>2, ObjectsElsewhere DEF Next, Handler

LEMMA SweptKept ==
  ASSUME BytesInv, RequestsEnd, Quiet, Swept, [Next]_vars PROVE Swept'
<1> USE DEF BytesInv
<1> DEFINE Sweeping == {"list", "remove", "deleteAll"}
<1>1. CASE reaper.at \in Sweeping /\ UNCHANGED reaper
  <2>1. upload.stored /\ upload.cancelled /\ upload.operation = None /\ upload.ttl = 0 /\ opened
    BY <1>1 DEF Removals, Swept, Opened
  <2>2. objects' \subseteq objects /\ \A o \in Op : Handler(o) => UNCHANGED upload
    BY <2>1, NoMoreObjects
  <2>3. upload'.ttl = 0
    <3>1. CASE Tick
      BY <2>1, <3>1, TickStep DEF Before
    <3>2. CASE UNCHANGED upload
      BY <2>1, <3>2
    <3>3. ~Open /\ ~Reap
      <4>1. ~AlarmFires /\ ~Expire /\ ~Open
        BY <1>1, <2>1 DEF Open, AlarmFires, Expire
      <4>2. ~ReaperLists
        BY <1>1 DEF ReaperLists
      <4>3. ~ReaperRemoves /\ ~DeleteAll
        BY <1>1 DEF ReaperRemoves, DeleteAll, IdleReaper
      <4> QED
        BY <4>1, <4>2, <4>3 DEF Reap
    <3> QED
      BY <2>2, <3>1, <3>2, <3>3 DEF Next, Handler, Arrive, Evict, AlarmFails, vars
  <2> QED
    BY <1>1, <2>2, <2>3 DEF Swept
<1>2. CASE Expire
  <2>1. CASE upload.stored /\ Deadline = 0 /\ upload'.ttl = upload.ttl /\ reaper'.at = "list"
    <3>1. upload.ttl = 0
      BY <2>1 DEF Deadline, TypeOK, RecordOK, Record
    <3> QED
      BY <2>1, <3>1 DEF Swept
  <2>2. CASE reaper' = IdleReaper
    BY <2>2 DEF Swept, IdleReaper
  <2> QED
    BY <1>2, <2>1, <2>2, ExpireStep
<1>3. CASE ReaperLists \/ ReaperRemoves
  BY <1>3 DEF ReaperLists, ReaperRemoves, Swept
<1>4. CASE DeleteAll \/ Evict \/ AlarmFails
  BY <1>4 DEF DeleteAll, Evict, AlarmFails, IdleReaper, Swept
<1>5. CASE AlarmFires /\ ~UNCHANGED reaper
  <2>1. reaper'.at = "expire"
    BY <1>5 DEF AlarmFires, TypeOK, AlarmOK
  <2> QED
    BY <2>1 DEF Swept
<1>6. CASE reaper.at \notin Sweeping /\ UNCHANGED reaper
  BY <1>6 DEF Swept
<1> QED
  BY <1>1, <1>2, <1>3, <1>4, <1>5, <1>6 DEF Next, Open, Arrive, Handle, Claim, StorePart,
     CommitPart, Accept, Assemble, ReadChunk, StoreAssembled, Verified, Publish, Finish, Cancel,
     ListPrefix, RemoveListed, Discard, Release, Renew, Fail, Reap, Tick, vars

LEMMA NothingLeftKept ==
  ASSUME BytesInv, RequestsEnd, Quiet, Swept, NothingLeftBehind, [Next]_vars
  PROVE  NothingLeftBehind'
<1> USE DEF BytesInv
<1> SUFFICES ASSUME opened', ~upload'.stored PROVE objects' = {}
  BY DEF NothingLeftBehind
<1>1. CASE DeleteAll
  BY <1>1 DEF DeleteAll, Swept
<1>2. CASE ~DeleteAll
  <2>1. ~Open
    BY OpenStep
  <2>2. ~upload.stored
    <3>1. ASSUME NEW o \in Op, Handler(o) PROVE ~upload.stored
      BY <3>1, HandlerRecord
    <3>2. CASE Expire \/ Tick
      BY <3>2, ExpireStep, TickStep DEF SameBytes
    <3>3. CASE UNCHANGED upload
      BY <3>3
    <3> QED
      BY <1>2, <2>1, <3>1, <3>2, <3>3 DEF Next, Handler, Arrive, Reap, AlarmFires, ReaperLists,
         ReaperRemoves, Evict, AlarmFails, vars
  <2>3. UNCHANGED opened
    <3>1. ASSUME NEW o \in Op, Handler(o) PROVE UNCHANGED opened
      BY <3>1, HandlerFrame
    <3> QED
      BY <2>1, <3>1 DEF Next, Handler, Arrive, Reap, AlarmFires, Expire, ReaperLists,
         ReaperRemoves, DeleteAll, Evict, AlarmFails, Tick, vars
  <2>4. objects = {}
    BY <2>2, <2>3 DEF NothingLeftBehind
  <2> QED
    BY <2>2, <2>3, <2>4, NoMoreObjects
<1> QED
  BY <1>1, <1>2

\* When no request outlives the inactivity period, the object that goes leaves
\* nothing below its prefix: no later alarm would remove it (registry.ts:480-501).
THEOREM NothingIsLeft ==
  ASSUME RequestsEnd PROVE Spec => []NothingLeftBehind
<1> DEFINE Inv == Quiet /\ Swept /\ NothingLeftBehind
<1>1. Init => Inv
  BY DEF Init, Quiet, Swept, IdleReaper, NothingLeftBehind
<1>2. BytesInv /\ Inv /\ [Next]_vars => Inv'
  BY QuietKept, SweptKept, NothingLeftKept
<1>3. Inv => NothingLeftBehind
  OBVIOUS
<1> HIDE DEF Inv
<1> QED
  BY <1>1, <1>2, <1>3, BytesInvariant, PTL DEF Spec
-----------------------------------------------------------------------------
(* The upload implements its contract.                                     *)

\* The state that the contract sees, named as in the definition of Contract.
Phase == IF ~opened THEN "absent" ELSE IF ~upload.stored THEN "gone"
         ELSE IF upload.cancelled THEN "cancelled"
         ELSE IF upload.completed # None THEN "complete" ELSE "open"
Readable == {b[1] : b \in blobs}

LEMMA NoContent == Content(<<>>) = <<>>
BY DEF Content

LEMMA SameContract ==
  ASSUME BytesInv, [Next]_vars, SameBytes, UNCHANGED <<opened, blobs>>
  PROVE  Phase' = Phase /\ Readable' = Readable /\ Content(upload.chunks)' = Content(upload.chunks)
<1>1. Content(upload.chunks)' = Content(upload.chunks)
  BY RequestsStay, ContentStays DEF BytesInv, SameBytes
<1> QED
  BY <1>1 DEF Phase, Readable, SameBytes

\* A chunk that is committed is one byte string more.
LEMMA CommitAppends ==
  ASSUME BytesInv, NEW o \in Op, CommitPart(o), Owns(o),
         upload'.chunks = Append(upload.chunks, o)
  PROVE  req[o].body \in Data
         /\ Content(upload.chunks)' = Append(Content(upload.chunks), req[o].body)
<1> DEFINE s == upload.chunks
           t == Append(s, o)
<1>1. UNCHANGED req /\ s \in Seq(Op) /\ req[o].body \in Data
  BY DEF CommitPart, BytesInv, TypeOK, RecordOK, Record, RequestOK, Roles
<1>2. /\ DOMAIN t = 1..(Len(s) + 1) /\ DOMAIN s = 1..Len(s) /\ Len(s) \in Nat
      /\ t[Len(s) + 1] = o /\ \A i \in 1..Len(s) : t[i] = s[i]
  BY <1>1
<1> DEFINE c == [i \in DOMAIN s |-> req[s[i]].body]
<1> HIDE DEF t, s
<1>3. c \in Seq({c[i] : i \in DOMAIN s}) /\ Len(c) = Len(s) /\ DOMAIN c = 1..Len(s)
  BY <1>2
<1>4. /\ DOMAIN Append(c, req[o].body) = 1..(Len(s) + 1)
      /\ Append(c, req[o].body)[Len(s) + 1] = req[o].body
      /\ \A i \in 1..Len(s) : Append(c, req[o].body)[i] = c[i]
      /\ Append(c, req[o].body) = [i \in 1..(Len(s) + 1) |-> Append(c, req[o].body)[i]]
  <2> HIDE DEF c
  <2> QED
    BY <1>2, <1>3
<1>5. \A i \in 1..(Len(s) + 1) : Append(c, req[o].body)[i] = req[t[i]].body
  <2>1. \A i \in 1..Len(s) : c[i] = req[s[i]].body
    BY <1>2
  <2>2. \A i \in 1..(Len(s) + 1) : i \in 1..Len(s) \/ i = Len(s) + 1
    BY <1>2
  <2> HIDE DEF c
  <2> QED
    BY <1>2, <1>4, <2>1, <2>2
<1>6. [i \in DOMAIN t |-> req[t[i]].body] = Append(c, req[o].body)
  <2> HIDE DEF c
  <2> QED
    BY <1>2, <1>4, <1>5
<1>7. Content(upload.chunks)' = [i \in DOMAIN t |-> req[t[i]].body] /\ Content(upload.chunks) = c
  BY <1>1 DEF Content, s, t
<1> QED
  BY <1>1, <1>6, <1>7

\* The steps of a request, as the contract sees them.
LEMMA HandlerContract ==
  ASSUME BytesInv, NEW o \in Op, Handler(o), [Next]_vars
  PROVE  [Contract!Next]_(Contract!vars)
<1> USE DEF BytesInv
<1>1. UNCHANGED opened /\ pc[o] # "idle" /\ opened /\ req[o] \in Request
  BY HandlerFrame DEF Opened
<1>2. ASSUME SameBytes, UNCHANGED blobs PROVE UNCHANGED Contract!vars
  BY <1>1, <1>2, SameContract DEF Contract!vars, Phase, Readable
<1>3. CASE CommitPart(o)
  <2>1. CASE UNCHANGED upload
    BY <1>2, <1>3, <2>1 DEF CommitPart, SameBytes
  <2>2. CASE /\ Owns(o) /\ upload'.chunks = Append(upload.chunks, o)
             /\ upload'.stored = upload.stored /\ upload'.completed = upload.completed
             /\ upload'.cancelled = upload.cancelled
    <3>1. UNCHANGED blobs
      BY <1>3 DEF CommitPart
    <3>2. Phase = "open" /\ Phase' = "open" /\ Readable' = Readable
      BY <1>1, <2>2, <3>1 DEF Phase, Readable, Owns
    <3>3. Contract!AppendBytes
      BY <1>3, <2>2, <3>2, CommitAppends DEF Contract!AppendBytes, Phase, Readable
    <3> QED
      BY <3>3 DEF Contract!Next
  <2> QED
    BY <1>3, <2>1, <2>2, CommitStep
<1>4. CASE Publish(o)
  <2>1. UNCHANGED upload /\ SameBytes
    BY <1>4 DEF Publish, SameBytes
  <2>2. CASE UNCHANGED blobs
    BY <1>2, <2>1, <2>2
  <2>3. CASE blobs' = {b \in blobs : b[1] # req[o].digest}
                        \union {<<req[o].digest, work[o].built>>}
    <3>1. Readable' = Readable \union {req[o].digest}
      <4> DEFINE b0 == <<req[o].digest, work[o].built>>
      <4>1. b0[1] = req[o].digest
        OBVIOUS
      <4> HIDE DEF b0
      <4>2. \A b : b \in blobs' <=> (b \in blobs /\ b[1] # req[o].digest) \/ b = b0
        BY <2>3 DEF b0
      <4>3. \A b \in blobs : b[1] \in Readable' \/ b[1] = req[o].digest
        BY <4>2 DEF Readable
      <4>4. req[o].digest \in Readable'
        BY <4>1, <4>2 DEF Readable
      <4>5. \A b \in blobs' : b[1] \in Readable \/ b[1] = req[o].digest
        BY <4>1, <4>2 DEF Readable
      <4> QED
        BY <4>3, <4>4, <4>5 DEF Readable
    <3>2. req[o].digest \in Digest
      BY <1>1, <1>4, UploadAssumption DEF Publish, Roles, Assembling
    <3>3. Phase' = Phase /\ Content(upload.chunks)' = Content(upload.chunks)
      <4>1. Content(upload.chunks)' = Content(upload.chunks)
        BY <2>1, RequestsStay, ContentStays
      <4> QED
        BY <1>1, <2>1, <4>1 DEF Phase
    <3>4. Contract!Publish
      BY <3>1, <3>2, <3>3 DEF Contract!Publish, Phase, Readable
    <3> QED
      BY <3>4 DEF Contract!Next
  <2> QED
    BY <1>4, <2>2, <2>3 DEF Publish
<1>5. CASE Finish(o)
  <2>1. CASE UNCHANGED upload
    BY <1>2, <1>5, <2>1 DEF Finish, SameBytes
  <2>2. CASE /\ Owns(o) /\ upload'.chunks = upload.chunks
             /\ upload'.stored = upload.stored /\ upload'.completed = req[o].digest
             /\ upload'.cancelled = upload.cancelled
    <3>1. UNCHANGED blobs /\ pc[o] = "finish"
      BY <1>5 DEF Finish
    <3>2. req[o].digest \in Digest /\ req[o].digest # None
      BY <1>1, <3>1, UploadAssumption DEF Roles, Assembling
    <3>3. Phase = "open" /\ Phase' = "complete" /\ Readable' = Readable
      BY <1>1, <2>2, <3>1, <3>2 DEF Phase, Readable, Owns
    <3>4. Content(upload.chunks)' = Content(upload.chunks)
      BY <2>2, RequestsStay, ContentStays
    <3>5. Content(upload.chunks) \in Readable
      <4>1. Content(upload.chunks) = req[o].digest /\ <<req[o].digest, req[o].digest>> \in blobs
        BY <2>2, <3>1, BuiltIsContent DEF Published
      <4>2. <<req[o].digest, req[o].digest>>[1] = req[o].digest
        OBVIOUS
      <4> QED
        BY <4>1, <4>2 DEF Readable
    <3>6. Contract!Complete
      BY <3>3, <3>4, <3>5 DEF Contract!Complete, Phase, Readable
    <3> QED
      BY <3>6 DEF Contract!Next
  <2> QED
    BY <1>5, <2>1, <2>2, FinishStep
<1>6. CASE Cancel(o)
  <2>1. CASE UNCHANGED upload
    BY <1>2, <1>6, <2>1 DEF Cancel, SameBytes
  <2>2. CASE /\ Owns(o) /\ upload'.chunks = upload.chunks
             /\ upload'.stored = upload.stored /\ upload'.completed = upload.completed
             /\ upload'.cancelled = TRUE
    <3>1. UNCHANGED blobs
      BY <1>6 DEF Cancel
    <3>2. Phase = "open" /\ Phase' = "cancelled" /\ Readable' = Readable
      BY <1>1, <2>2, <3>1 DEF Phase, Readable, Owns
    <3>3. Content(upload.chunks)' = Content(upload.chunks)
      BY <2>2, RequestsStay, ContentStays
    <3>4. Contract!Abandon
      BY <3>2, <3>3 DEF Contract!Abandon, Phase, Readable
    <3> QED
      BY <3>4 DEF Contract!Next
  <2> QED
    BY <1>6, <2>1, <2>2, CancelStep
<1>7. CASE Claim(o)
  BY <1>2, <1>7, ClaimStep DEF Claim
<1>8. CASE Assemble(o) \/ Verified(o) \/ Renew(o)
  <2>1. PICK next : UpdateOwned(o, Renewed(upload), next)
    BY <1>8 DEF Assemble, Verified, Renew
  <2>2. UNCHANGED blobs
    BY <1>8 DEF Assemble, Verified, Renew
  <2> QED
    BY <1>2, <2>1, <2>2, RenewStep
<1>9. CASE Release(o)
  BY <1>2, <1>9, ReleaseStep DEF Release
<1>10. CASE UNCHANGED <<upload, blobs>>
  BY <1>2, <1>10 DEF SameBytes
<1> QED
  BY <1>3, <1>4, <1>5, <1>6, <1>7, <1>8, <1>9, <1>10 DEF Handler, Handle, StorePart, Accept,
     ReadChunk, StoreAssembled, ListPrefix, RemoveListed, Discard, Fail

LEMMA StepContract ==
  ASSUME BytesInv, [Next]_vars PROVE [Contract!Next]_(Contract!vars)
<1> USE DEF BytesInv
<1>1. ASSUME SameBytes, UNCHANGED <<opened, blobs>> PROVE UNCHANGED Contract!vars
  BY <1>1, SameContract DEF Contract!vars, Phase, Readable
<1>2. CASE Open
  <2>1. upload = NoUpload /\ upload.chunks = <<>> /\ UNCHANGED blobs
    BY <1>2 DEF Open, Opened, NoUpload
  <2>2. Phase = "absent" /\ Phase' = "open" /\ Readable' = Readable
    BY <1>2, <2>1, OpenStep DEF Phase, Readable
  <2>3. Content(upload.chunks)' = Content(upload.chunks)
    <3>1. upload'.chunks = <<>>
      BY <1>2, OpenStep
    <3> QED
      BY <2>1, <3>1 DEF Content
  <2>4. Contract!Create
    BY <2>2, <2>3 DEF Contract!Create, Phase, Readable
  <2> QED
    BY <2>4 DEF Contract!Next
<1>3. ASSUME NEW o \in Op, NEW r \in Request, Arrive(o, r)
      PROVE  SameBytes /\ UNCHANGED <<opened, blobs>>
  BY <1>3 DEF Arrive, SameBytes
<1>4. CASE Expire
  <2>1. UNCHANGED <<opened, blobs>>
    BY <1>4 DEF Expire
  <2>2. CASE UNCHANGED upload
    BY <1>1, <2>1, <2>2 DEF SameBytes
  <2>3. CASE /\ upload.stored
             /\ upload'.stored = upload.stored /\ upload'.chunks = upload.chunks
             /\ upload'.completed = upload.completed /\ upload'.cancelled = TRUE
    <3>1. Content(upload.chunks)' = Content(upload.chunks)
      BY <2>3, RequestsStay, ContentStays
    <3>2. /\ Phase \in {"open", "complete", "cancelled"} /\ Phase' = "cancelled"
          /\ Readable' = Readable
      BY <2>1, <2>3 DEF Phase, Readable, Opened
    <3>3. CASE Phase = "cancelled"
      BY <3>1, <3>2, <3>3 DEF Contract!vars, Phase, Readable
    <3>4. CASE Phase \in {"open", "complete"}
      <4>1. Contract!Abandon
        BY <3>1, <3>2, <3>4 DEF Contract!Abandon, Phase, Readable
      <4> QED
        BY <4>1 DEF Contract!Next
    <3> QED
      BY <3>2, <3>3, <3>4
  <2> QED
    BY <1>4, <2>2, <2>3, ExpireStep
<1>5. CASE DeleteAll
  <2>1. /\ UNCHANGED <<opened, blobs>> /\ opened /\ upload.stored /\ upload.cancelled
        /\ ~upload'.stored /\ upload'.chunks = <<>>
    BY <1>5 DEF DeleteAll, Removals, Opened, NoUpload
  <2>2. Phase = "cancelled" /\ Phase' = "gone" /\ Readable' = Readable
    BY <2>1 DEF Phase, Readable
  <2>3. Content(upload.chunks)' = <<>>
    BY <2>1 DEF Content
  <2>4. Contract!Forget
    BY <2>2, <2>3 DEF Contract!Forget, Phase, Readable
  <2> QED
    BY <2>4 DEF Contract!Next
<1>6. CASE Tick
  BY <1>1, <1>6, TickStep DEF Tick
<1>7. CASE UNCHANGED <<upload, opened, blobs>>
  BY <1>1, <1>7 DEF SameBytes
<1> QED
  BY <1>1, <1>2, <1>3, <1>4, <1>5, <1>6, <1>7, HandlerContract DEF Next, Handler, Reap,
     AlarmFires, ReaperLists, ReaperRemoves, Evict, AlarmFails, vars

\* Leases, operations, objects, crashes and cleanups aside: acknowledged bytes only
\* grow, and completing makes exactly those readable (registry.ts:459-696).
THEOREM UploadImplementsContract == Spec => ImplementsContract
<1>1. Init => Contract!Init
  BY NoContent DEF Init, NoUpload, Contract!Init
<1> QED
  BY <1>1, StepContract, BytesInvariant, PTL DEF Spec, ImplementsContract, Contract!Spec
=============================================================================
