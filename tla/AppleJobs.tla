----------------------------- MODULE AppleJobs ------------------------------
(***************************************************************************)
(* Native Apple jobs: requested by a user and followed by the alarm        *)
(* (apple-jobs.ts, apple-nomad.ts), placed by the scheduler on a Mac, and  *)
(* run there by the helper of the agent (agent/src/apple.rs).              *)
(*                                                                         *)
(* A request is split where it awaits GitHub, the scheduler or the object  *)
(* store; the alarm where it awaits the scheduler.  A job has one          *)
(* allocation: its policies allow no restart and no other one.  Commits,   *)
(* simulators, logs and the build itself are left out.                     *)
(***************************************************************************)
EXTENDS FiniteSets, Integers

CONSTANTS
  Job,       \* jobs ever requested
  Limit,     \* active jobs of a workspace: 20
  JobFaults  \* bound: failed calls, lost requests of the helper, lost Macs

VARIABLES
  apple_jobs,  \* the documents; their requests before there is one
  project,     \* the project is "linked", "unlinked", "deleting" or "gone"
  allocation,  \* the scheduler: the allocation of each job
  stops,       \* runtime_stops: whether stopJob has seen an allocation of a job
               \* when it began, and whether it has deregistered the job
  helper,      \* the helper on the Mac: its next step, and its outcome
  request,     \* the request of the helper the object is working on, or a cut upload
  artifacts,   \* R2: jobs with an object
  round,       \* the alarm: jobs left and the one whose call is awaited, as listed
  lost

vars == <<apple_jobs, project, allocation, stops, helper, request, artifacts,
          round, lost>>
mac  == <<allocation, stops, helper, request, artifacts>>

Requesting == {"access", "nodes"}
Active     == {"queued", "running", "cancelling"}
Result     == {"succeeded", "failed", "cancelled", "timed_out"}
Final      == Result \cup {"interrupted"}
NoJob      == [status |-> "none", result |-> "none", artifact |-> FALSE]
Unstopped  == [phase |-> "none", seen |-> FALSE]
Sleep      == [listed |-> {}, call |-> {}]

Init ==
  /\ apple_jobs = [j \in Job |-> NoJob]
  /\ project = "linked"
  /\ allocation = [j \in Job |-> "none"]
  /\ stops = [j \in Job |-> Unstopped]
  /\ helper = [j \in Job |-> [pc |-> "none", status |-> "none"]]
  /\ request = [j \in Job |-> "none"]
  /\ artifacts = {}
  /\ round = Sleep
  /\ lost = 0

Status(j)    == apple_jobs[j].status
Set(j, s)    == apple_jobs' = [apple_jobs EXCEPT ![j].status = s]
Busy         == {j \in Job : Status(j) \in Active}
MayLose      == lost < JobFaults /\ lost' = lost + 1
Step(j, pc)  == helper' = [helper EXCEPT ![j].pc = pc]
Reply(j)     == request' = [request EXCEPT ![j] = "none"]
-----------------------------------------------------------------------------
(* POST, DELETE of a job, and the project.                                 *)

\* The project is linked and the Mac is ready; GitHub is asked for the commit.
Request(j) ==
  /\ Status(j) = "none" /\ project = "linked"
  /\ Set(j, "access")
  /\ UNCHANGED <<project, mac, round, lost>>

\* The limit of the queue is looked at before the nodes are awaited ...
Accessed(j) ==
  /\ Status(j) = "access"
  /\ Set(j, IF project = "linked" /\ Cardinality(Busy) < Limit THEN "nodes" ELSE "none")
  /\ UNCHANGED <<project, mac, round, lost>>

BugFit == project # "gone"
\* ... and the project after that.
Fit == project = "linked"

Queued(j) ==
  /\ Status(j) = "nodes"
  /\ Set(j, IF Fit THEN "queued" ELSE "none")
  /\ UNCHANGED <<project, mac, round, lost>>

Cancel(j) ==
  /\ Status(j) \in Active
  /\ Set(j, "cancelling")
  /\ UNCHANGED <<project, mac, round, lost>>

\* The repository is unlinked, or the project removed (runtime.ts).
Unlink ==
  /\ project = "linked" /\ project' = "unlinked"
  /\ UNCHANGED <<apple_jobs, mac, round, lost>>
RemoveProject ==
  /\ project \in {"linked", "unlinked"} /\ Busy = {} /\ project' = "deleting"
  /\ UNCHANGED <<apple_jobs, mac, round, lost>>
ProjectRemoved ==
  /\ project = "deleting" /\ project' = "gone"
  /\ UNCHANGED <<apple_jobs, mac, round, lost>>
-----------------------------------------------------------------------------
(* The alarm: reconcileAppleJobs.                                          *)

Alarm ==
  /\ round = Sleep /\ Busy # {}
  /\ round' = [Sleep EXCEPT !.listed = {<<j, Status(j)>> : j \in Busy}]
  /\ UNCHANGED <<apple_jobs, project, mac, lost>>

Call(e) ==
  /\ round.call = {} /\ e \in round.listed
  /\ round' = [listed |-> round.listed \ {e}, call |-> {e}]
  /\ UNCHANGED <<apple_jobs, project, mac, lost>>

Calling(j, from) == \E s \in from : round.call = {<<j, s>>}
Rest == [round EXCEPT !.call = {}]

\* stopJob notes the allocations of the job, deregisters it, and waits until
\* those it noted have stopped.
NoteAllocations(j) ==
  /\ Calling(j, {"cancelling"}) /\ stops[j].phase = "none"
  /\ stops' = [stops EXCEPT ![j] =
       [phase |-> "stop", seen |-> allocation[j] \notin {"none", "registered"}]]
  /\ UNCHANGED <<apple_jobs, project, allocation, helper, request, artifacts, round, lost>>

Deregister(j) ==
  /\ Calling(j, {"cancelling"}) /\ stops[j].phase = "stop"
  /\ stops' = [stops EXCEPT ![j].phase = "observe"]
  /\ allocation' = [allocation EXCEPT ![j] = IF @ \in {"none", "registered", "pending"}
                                             THEN "ended" ELSE @]
  /\ UNCHANGED <<apple_jobs, project, helper, request, artifacts, round, lost>>

BugStopped(j) == stops[j].phase # "none"
Stopped(j) == stops[j].phase = "observe" /\ (stops[j].seen => allocation[j] # "running")

Cancelled(j) ==
  /\ Calling(j, {"cancelling"}) /\ Stopped(j)
  /\ Set(j, "cancelled")
  /\ round' = Rest
  /\ UNCHANGED <<project, mac, lost>>

\* A queued job is registered, unless it is.
Register(j) ==
  /\ Calling(j, {"queued"}) /\ allocation[j] = "none"
  /\ allocation' = [allocation EXCEPT ![j] = "registered"]
  /\ UNCHANGED <<apple_jobs, project, stops, helper, request, artifacts, round, lost>>

BugOutcome(j) == IF apple_jobs[j].result # "none" THEN apple_jobs[j].result ELSE "failed"
\* What the end of its allocation makes of a job and its result.
Outcome(j) ==
  LET result == apple_jobs[j].result
  IN  CASE allocation[j] = "complete" /\ result # "none" -> result
        [] allocation[j] = "failed" -> IF result \in Result \ {"succeeded"} THEN result
                                       ELSE "failed"
        [] OTHER -> "interrupted"

BugObservable(j) == TRUE
\* The job may have been cancelled, or finished, while its call was awaited.
Observable(j) == Status(j) \in {"queued", "running"}

Observed(j) ==
  /\ Calling(j, {"queued", "running"}) /\ allocation[j] # "none"
  /\ apple_jobs' =
       IF ~Observable(j) \/ allocation[j] \in {"registered", "pending", "ended"}
       THEN apple_jobs
       ELSE [apple_jobs EXCEPT ![j].status =
               IF allocation[j] = "running" THEN "running" ELSE Outcome(j)]
  /\ round' = Rest
  /\ UNCHANGED <<project, mac, lost>>

\* The scheduler does not answer, or its answer is only late: the job stays.
Unconfirmed ==
  /\ round.call # {} /\ MayLose
  /\ round' = Rest
  /\ UNCHANGED <<apple_jobs, project, mac>>
-----------------------------------------------------------------------------
(* The Mac: the scheduler runs the helper, which starts, builds, uploads   *)
(* its artifact and reports its result.                                    *)

Place(j) ==
  /\ allocation[j] = "registered"
  /\ allocation' = [allocation EXCEPT ![j] = "pending"]
  /\ UNCHANGED <<apple_jobs, project, stops, helper, request, artifacts, round, lost>>

Run(j) ==
  /\ allocation[j] = "pending"
  /\ allocation' = [allocation EXCEPT ![j] = "running"]
  /\ helper' = [helper EXCEPT ![j] = [pc |-> "start", status |-> "none"]]
  /\ UNCHANGED <<apple_jobs, project, stops, request, artifacts, round, lost>>

\* A request of the helper reaches the object, and passes its first checks.
Send(j, what, from) ==
  /\ allocation[j] = "running" /\ helper[j].pc = what /\ request[j] = "none"
  /\ Status(j) \in from
  /\ request' = [request EXCEPT ![j] = what]
  /\ UNCHANGED <<apple_jobs, project, allocation, stops, helper, artifacts, round, lost>>

\* The allocation was looked up: the job is running, and its token is asked for.
BugStartable(j) == Status(j) # "none"
Startable(j) == Status(j) \in {"queued", "running"}

Started(j) ==
  /\ request[j] = "start"
  /\ apple_jobs' = IF Startable(j) THEN [apple_jobs EXCEPT ![j].status = "running"]
                   ELSE apple_jobs
  /\ request' = [request EXCEPT ![j] = IF Startable(j) THEN "token" ELSE "none"]
  /\ UNCHANGED <<project, allocation, stops, helper, artifacts, round, lost>>

BugReleasable(j) == TRUE
\* The token is released to a job that is still running.
Releasable(j) == Status(j) = "running"

TokenReleased(j) ==
  /\ request[j] = "token"
  /\ helper' = [helper EXCEPT ![j].pc = IF Releasable(j) THEN "build" ELSE @]
  /\ Reply(j)
  /\ UNCHANGED <<apple_jobs, project, allocation, stops, artifacts, round, lost>>

\* Every few seconds of the build the helper asks whether to go on; it stops
\* when the object says so or does not answer, and when its time is over.
Build(j, s) ==
  /\ helper[j].pc = "build" /\ allocation[j] = "running"
  /\ helper' = [helper EXCEPT ![j] = [pc |-> "artifact", status |-> s]]
  /\ UNCHANGED <<apple_jobs, project, allocation, stops, request, artifacts, round>>

Halted(j) ==
  \/ Build(j, "timed_out") /\ UNCHANGED lost
  \/ Build(j, "cancelled") /\ Status(j) # "running" /\ UNCHANGED lost
  \/ Build(j, "cancelled") /\ MayLose

\* The checkout, the build and the tests end.
Built(j) == \E s \in {"succeeded", "failed"} : Build(j, s) /\ UNCHANGED lost

ObjectPut(j) ==
  /\ request[j] = "artifact"
  /\ artifacts' = artifacts \cup {j}
  /\ request' = [request EXCEPT ![j] = "put"]
  /\ UNCHANGED <<apple_jobs, project, allocation, stops, helper, round, lost>>

\* The object is stored: it is recorded, unless the job has finished ...
BugRecordable(j) == TRUE
Recordable(j) == Status(j) \in {"running", "cancelling"}

Recorded(j) ==
  /\ request[j] = "put" /\ Recordable(j)
  /\ apple_jobs' = [apple_jobs EXCEPT ![j].artifact = TRUE]
  /\ Reply(j) /\ Step(j, "result")
  /\ UNCHANGED <<project, allocation, stops, artifacts, round, lost>>

BugUnwanted(j) ==
  /\ request[j] = "put" /\ ~Recordable(j)
  /\ Reply(j) /\ Step(j, "result")
  /\ UNCHANGED <<apple_jobs, project, allocation, stops, artifacts, round, lost>>

\* ... and then the object store is asked to delete it.
Unwanted(j) ==
  /\ request[j] = "put" /\ ~Recordable(j)
  /\ request' = [request EXCEPT ![j] = "delete"]
  /\ UNCHANGED <<apple_jobs, project, allocation, stops, helper, artifacts, round, lost>>

Deleted(j) ==
  /\ request[j] = "delete"
  /\ artifacts' = artifacts \ {j}
  /\ Reply(j) /\ Step(j, "result")
  /\ UNCHANGED <<apple_jobs, project, allocation, stops, round, lost>>

\* A call of the object store fails, before or after its effect, or the object that
\* awaits it is evicted: the upload ends here.
UploadCut(j) ==
  /\ request[j] \in {"artifact", "put", "delete"} /\ MayLose
  /\ request' = [request EXCEPT ![j] = "failed"] /\ Step(j, "result")
  /\ UNCHANGED <<apple_jobs, project, allocation, stops, artifacts, round>>

\* An upload that is refused or fails is only logged.
NotUploaded(j) ==
  /\ helper[j].pc = "artifact" /\ request[j] = "none"
  /\ IF Status(j) \in {"running", "cancelling"} THEN MayLose ELSE UNCHANGED lost
  /\ Step(j, "result")
  /\ UNCHANGED <<apple_jobs, project, allocation, stops, request, artifacts, round>>

\* The result is recorded once, and the allocation ends with its outcome.
Reported(j) ==
  /\ helper[j].pc = "result" /\ allocation[j] = "running"
  /\ apple_jobs' = IF Status(j) \in {"running", "cancelling"} /\ apple_jobs[j].result = "none"
                   THEN [apple_jobs EXCEPT ![j].result = helper[j].status] ELSE apple_jobs
  /\ Step(j, "exit")
  /\ UNCHANGED <<project, allocation, stops, request, artifacts, round, lost>>

NotReported(j) ==
  /\ helper[j].pc = "result" /\ MayLose
  /\ Step(j, "exit")
  /\ UNCHANGED <<apple_jobs, project, allocation, stops, request, artifacts, round>>

\* The helper exits, or is not authorized in time; a deregistered one is killed.
Exit(j) ==
  /\ allocation[j] = "running"
  /\ \/ /\ helper[j].pc = "exit"
        /\ allocation' = [allocation EXCEPT ![j] =
             IF helper[j].status = "succeeded" THEN "complete" ELSE "failed"]
     \/ /\ helper[j].pc = "start" /\ request[j] = "none"
        /\ Status(j) \notin {"queued", "running"}
        /\ allocation' = [allocation EXCEPT ![j] = "failed"]
     \/ /\ stops[j].phase = "observe"
        /\ allocation' = [allocation EXCEPT ![j] = "ended"]
  /\ UNCHANGED <<apple_jobs, project, stops, helper, request, artifacts, round, lost>>

\* The Mac is lost with the allocation, or the helper is not authorized in time.
Lost(j) ==
  /\ allocation[j] = "running" /\ MayLose
  /\ \E s \in {"lost", "failed"} : /\ s = "failed" => helper[j].pc = "start"
                                  /\ allocation' = [allocation EXCEPT ![j] = s]
  /\ UNCHANGED <<apple_jobs, project, stops, helper, request, artifacts, round>>
-----------------------------------------------------------------------------
AlarmStep ==
  \/ Alarm \/ Unconfirmed
  \/ \E e \in round.listed : Call(e)
  \/ \E j \in Job : \/ NoteAllocations(j) \/ Deregister(j) \/ Cancelled(j)
                    \/ Register(j) \/ Observed(j)

MacStep ==
  \E j \in Job :
    \/ Place(j) \/ Run(j) \/ Send(j, "start", {"queued", "running"}) \/ Started(j) \/ TokenReleased(j)
    \/ Halted(j) \/ Built(j) \/ Send(j, "artifact", {"running", "cancelling"}) \/ ObjectPut(j)
    \/ Recorded(j) \/ Unwanted(j) \/ Deleted(j) \/ UploadCut(j) \/ NotUploaded(j)
    \/ Reported(j) \/ NotReported(j) \/ Exit(j) \/ Lost(j)

Next ==
  \/ \E j \in Job : Request(j) \/ Accessed(j) \/ Queued(j) \/ Cancel(j)
  \/ Unlink \/ RemoveProject \/ ProjectRemoved \/ AlarmStep \/ MacStep

Spec == Init /\ [][Next]_vars

\* The alarm runs until it is done, and the scheduler kills what was deregistered.
Fairness == WF_vars(AlarmStep) /\ \A j \in Job : WF_vars(stops[j].phase = "observe" /\ Exit(j))
-----------------------------------------------------------------------------
(* Properties.                                                             *)

TypeOK ==
  /\ \A j \in Job : /\ Status(j) \in {"none"} \cup Requesting \cup Active \cup Final
                    /\ apple_jobs[j].result \in Result \cup {"none"}
                    /\ request[j] \in
                         {"none", "start", "token", "artifact", "put", "delete", "failed"}
  /\ round.listed \cup round.call \subseteq Job \X Active /\ artifacts \subseteq Job
  /\ lost \in 0..JobFaults

\* An active job has a project: one is not removed while a job of it is active,
\* nor is a job queued while its project goes (apple-jobs.ts:229-258, runtime.ts:205-215).
ActiveHasProject == Busy # {} => project \in {"linked", "unlinked"}

\* A job that succeeded has reported so and its allocation completed; one that
\* ended otherwise does not run, up to an allocation that was not there when its
\* shutdown began (apple-nomad.ts:88-137, common.ts:97-142).
EndIsTrue ==
  \A j \in Job :
    /\ Status(j) = "succeeded" => apple_jobs[j].result = "succeeded"
                                  /\ allocation[j] = "complete"
    /\ Status(j) \in Final => \/ allocation[j] \notin {"registered", "pending", "running"}
                              \/ stops[j] = [phase |-> "observe", seen |-> FALSE]

\* A cancellation is never overwritten by an answer of the scheduler or a request
\* of the helper that was under way, and nothing is written into a job that has
\* ended (apple-nomad.ts:110-111, apple-jobs.ts:105-110 and 149-156).
EndIsFinal ==
  [][\A j \in Job :
       /\ Status(j) \in Final => apple_jobs'[j] = apple_jobs[j]
       /\ Status(j) = "cancelling" => Status(j)' \in {"cancelling", "cancelled"}]_vars

\* The source token goes to a helper only while its job runs, wherever the job is
\* cancelled during the checks (apple-jobs.ts:95-134).
TokenForRunning ==
  [][\A j \in Job : helper[j].pc = "start" /\ helper'[j].pc = "build"
                      => Status(j) = "running"]_vars

\* What a job offers for download is stored, and nothing is stored for a job
\* that has ended without it, up to an upload whose request is still worked on, or
\* was cut by a failed call of the object store (apple-jobs.ts:136-156).
ArtifactsMatch ==
  \A j \in Job : /\ apple_jobs[j].artifact => j \in artifacts
                 /\ Status(j) \in Final /\ j \in artifacts
                      => apple_jobs[j].artifact \/ request[j] \in {"put", "delete", "failed"}

\* A job that is being cancelled ends (apple-nomad.ts:99-109).
CancelEnds == \A j \in Job : Status(j) = "cancelling" ~> Status(j) \in Final

\* What stopJob is there for: tasks are known to have exited before a job counts
\* as stopped (common.ts:126-127, apple-nomad.ts:147-148).
CancelledHasExited == \A j \in Job : Status(j) = "cancelled" => allocation[j] # "running"

\* What the upload of a finished job is deleted for: what is stored is offered, once
\* no request is worked on (apple-jobs.ts:149-153).
OnlyOffered ==
  \A j \in artifacts : Status(j) \in Final /\ request[j] \notin {"put", "delete"}
                       => apple_jobs[j].artifact

\* The limit of the queue (apple-jobs.ts:236-240).
QueueBounded == Cardinality(Busy) <= Limit
=============================================================================
