------------------------------- MODULE Pushes -------------------------------
(***************************************************************************)
(* From a push on GitHub to a deployment: the webhook handler of the       *)
(* worker and its directory records (github.ts), the push requests of the  *)
(* workspace object (workspace.ts), and the alarm that queues a deployment *)
(* for each as soon as the service can take one (runtime.ts).              *)
(*                                                                         *)
(* One project with one service that deploys automatically; a delivery     *)
(* stands for the push it reports, each of its own commit.  GitHub may     *)
(* deliver one again; workers and the object may stop at any await.        *)
(***************************************************************************)
EXTENDS Integers, Sequences, SequencesExt

CONSTANTS
  Delivery,    \* pushes
  Handler,     \* requests of GitHub, redeliveries included
  PushFaults   \* bound: stops of a worker or the object, deployments of users

VARIABLES
  record,         \* D1 github_deliveries: "none", "open" or "completed"
  handler,        \* the requests: next step, and delivery
  webhooks,       \* deliveries the object has handled
  push_requests,  \* in the order of insertion
  service,        \* "live", "deleting" or "gone"
  deploying,      \* a deployment of the service is active
  queued,         \* deployments queued for each push
  timer,          \* an alarm is set
  run,            \* the alarm: requests left as listed, and the one just queued
  upsets

vars == <<record, handler, webhooks, push_requests, service, deploying, queued,
          timer, run, upsets>>

Asleep == <<>>
Idle   == [pc |-> "none", delivery |-> "none"]
Upset  == upsets < PushFaults /\ upsets' = upsets + 1

Init ==
  /\ record = [d \in Delivery |-> "none"]
  /\ handler = [h \in Handler |-> Idle]
  /\ webhooks = {}
  /\ push_requests = <<>>
  /\ service = "live"
  /\ deploying = FALSE
  /\ queued = [d \in Delivery |-> 0]
  /\ timer = FALSE
  /\ run = [on |-> FALSE, left |-> Asleep, queued |-> Asleep]
  /\ upsets = 0
-----------------------------------------------------------------------------
(* The worker.                                                             *)

At(h, pc)   == handler[h].pc = pc
Goto(h, pc) == handler' = [handler EXCEPT ![h].pc = pc]
object      == <<webhooks, push_requests, service, deploying, queued, timer, run>>

Deliver(h, d) ==
  /\ At(h, "none")
  /\ handler' = [handler EXCEPT ![h] = [pc |-> "record", delivery |-> d]]
  /\ UNCHANGED <<record, object, upsets>>

Record(h) ==
  LET d == handler[h].delivery IN
  /\ At(h, "record") /\ Goto(h, "look")
  /\ record' = [record EXCEPT ![d] = IF @ = "none" THEN "open" ELSE @]
  /\ UNCHANGED <<object, upsets>>

Look(h) ==
  /\ At(h, "look")
  /\ Goto(h, IF record[handler[h].delivery] = "completed" THEN "end" ELSE "forward")
  /\ UNCHANGED <<record, object, upsets>>

BugKnown(d) == FALSE
Known(d) == d \in webhooks

\* The object remembers the delivery, and what is to be deployed.
BugWanted(d) == service = "live" /\ ~deploying
Wanted(d) == service # "gone"

Forward(h) ==
  LET d == handler[h].delivery IN
  /\ At(h, "forward") /\ Goto(h, "complete")
  /\ IF Known(d) THEN UNCHANGED <<webhooks, push_requests, timer>>
     ELSE /\ webhooks' = webhooks \cup {d}
          /\ push_requests' = IF Wanted(d) /\ ~Contains(push_requests, d)
                              THEN Append(push_requests, d) ELSE push_requests
          /\ timer' = TRUE
  /\ UNCHANGED <<record, service, deploying, queued, run, upsets>>

Complete(h) ==
  /\ At(h, "complete") /\ Goto(h, "end")
  /\ record' = [record EXCEPT ![handler[h].delivery] = "completed"]
  /\ UNCHANGED <<object, upsets>>

WorkerStops(h) ==
  /\ handler[h].pc \notin {"none", "end"} /\ Upset /\ Goto(h, "end")
  /\ UNCHANGED <<record, object>>
-----------------------------------------------------------------------------
(* The alarm of the object, and what happens to the service meanwhile.     *)

directory == <<record, handler, webhooks>>

AlarmFires ==
  /\ timer /\ ~run.on /\ timer' = FALSE
  /\ run' = [on |-> TRUE, left |-> push_requests, queued |-> Asleep]
  /\ UNCHANGED <<directory, push_requests, service, deploying, queued, upsets>>

BugAccepted == service # "gone" /\ ~deploying
\* queueDeployment: neither a removed service nor a second active deployment.
Accepted == service = "live" /\ ~deploying

Dispatch ==
  /\ run.on /\ run.left # <<>> /\ run.queued = Asleep
  /\ LET d == Head(run.left) IN
     IF Accepted
     THEN /\ deploying' = TRUE
          /\ queued' = [queued EXCEPT ![d] = @ + 1]
          /\ run' = [run EXCEPT !.left = Tail(@), !.queued = <<d>>]
     ELSE /\ run' = [run EXCEPT !.left = Tail(@)]
          /\ UNCHANGED <<deploying, queued>>
  /\ UNCHANGED <<directory, push_requests, service, timer, upsets>>

BugRemaining(d) == <<>>
\* A request is deleted only once its deployment is queued.
Remaining(d) == RemoveFirst(push_requests, d)

Dispatched ==
  /\ run.queued # Asleep
  /\ push_requests' = Remaining(run.queued[1])
  /\ run' = [run EXCEPT !.queued = Asleep]
  /\ UNCHANGED <<directory, service, deploying, queued, timer, upsets>>

BugAgain == deploying
\* The alarm is set again while there is something to do.
Again == deploying \/ push_requests # <<>> \/ service = "deleting"

AlarmEnds ==
  /\ run.on /\ run.left = <<>> /\ run.queued = Asleep
  /\ run' = [run EXCEPT !.on = FALSE]
  /\ service' = IF service = "deleting" THEN "gone" ELSE service
  /\ timer' = (timer \/ Again)
  /\ UNCHANGED <<directory, push_requests, deploying, queued, upsets>>

\* An alarm that did not return is run again.
ObjectStops ==
  /\ run.on /\ Upset
  /\ run' = [on |-> FALSE, left |-> Asleep, queued |-> Asleep] /\ timer' = TRUE
  /\ UNCHANGED <<directory, push_requests, service, deploying, queued>>

DeploymentEnds ==
  /\ deploying /\ deploying' = FALSE
  /\ UNCHANGED <<directory, push_requests, service, queued, timer, run, upsets>>

UserDeploys ==
  /\ Accepted /\ Upset /\ deploying' = TRUE /\ timer' = TRUE
  /\ UNCHANGED <<directory, push_requests, service, queued, run>>

RemoveService ==
  /\ service = "live" /\ ~deploying /\ service' = "deleting" /\ timer' = TRUE
  /\ UNCHANGED <<directory, push_requests, deploying, queued, run, upsets>>
-----------------------------------------------------------------------------
AlarmStep == AlarmFires \/ Dispatch \/ Dispatched \/ AlarmEnds

Next ==
  \/ \E h \in Handler : \/ \E d \in Delivery : Deliver(h, d)
                        \/ Record(h) \/ Look(h) \/ Forward(h) \/ Complete(h)
                        \/ WorkerStops(h)
  \/ AlarmStep \/ ObjectStops \/ DeploymentEnds \/ UserDeploys \/ RemoveService

Spec == Init /\ [][Next]_vars

\* Alarms run to their end, and so do deployments.
Fairness == WF_vars(AlarmStep) /\ WF_vars(DeploymentEnds)
-----------------------------------------------------------------------------
(* Properties.                                                             *)

TypeOK ==
  /\ record \in [Delivery -> {"none", "open", "completed"}]
  /\ ToSet(push_requests) \subseteq webhooks /\ webhooks \subseteq Delivery
  /\ ToSet(run.left \o run.queued) \subseteq Delivery
  /\ upsets \in 0..PushFaults

\* A push GitHub need not deliver again is waiting to be deployed, or has been,
\* wherever workers or the object stop and whatever arrives while an alarm runs
\* (github.ts:515-545, workspace.ts:193-231 and 442-461).
PushKept ==
  \A d \in Delivery : record[d] = "completed" /\ service = "live" =>
    Contains(push_requests, d) \/ queued[d] > 0

\* A push is deployed once, however often it is delivered, up to an object that
\* stopped between queueing the deployment and deleting the request
\* (workspace.ts:197-198 and 455-456).
DeployedOnce ==
  \A d \in Delivery : queued[d] <= 1 + upsets

\* Waiting pushes are deployed, or the service is removed: the alarm is set again
\* while there are any (deploy.ts:39-65, workspace.ts:526-554).
PushTried ==
  \A d \in Delivery : Contains(push_requests, d) ~> (queued[d] > 0 \/ service # "live")

\* What the coordinator's removal waits for (fleet.ts:183): no push request is
\* left of a service that is gone.
NoPushOfGone == service = "gone" => push_requests = <<>>
=============================================================================
