-------------------------- MODULE DeploymentProofs --------------------------
(***************************************************************************)
(* Theorems about Deployment for any number of deployments, failures,      *)
(* moves and edits: the documents keep their shape, what the alarm holds   *)
(* agrees with what is stored, and one deployment at a time is active.     *)
(***************************************************************************)
EXTENDS Deployment, TLAPS

\* Stages with a document of alarm.work, stages with one of a service.
OnDeployment == {"promote", "cleanup", "retire", "cleaned", "candidate", "failed"}
OnService    == {"service", "moved", "health", "rollback", "rerouted", "record"}

\* Sub-procedures, and the stages that wait for them.
InRefresh == {"refresh", "apply", "ack"}
ByRefresh == {"promote", "candidate", "moved", "rerouted", "probe"}
ByStop    == {"retire", "cleaned", "failed", "erase"}

Works  == UNION {[D -> Doc] : D \in SUBSET Dep}
Alarms == [at : Places, d : Dep \union {None}, work : Works, busy : BOOLEAN,
           svc : Service, back : ByRefresh \union ByStop \union {""},
           target : Address, jobs : Seq(Job), next : Dep \union {None}]

\* The stage the alarm is in, or will be in when its sub-procedure returns.
Stage == IF alarm.at \in InRefresh \union {"stop"} THEN alarm.back ELSE alarm.at

Typed == TypeOK /\ alarm \in Alarms

\* The phase of the document a stage works on.
PhaseAt == [stage \in OnDeployment |->
  CASE stage = "promote" -> "routing"
    [] stage \in {"cleanup", "retire", "cleaned"} -> "cleanup"
    [] stage \in {"candidate", "failed"} -> "failure_cleanup"]

\* What the alarm holds for the stage it is in.
Holds ==
  /\ alarm.at \in InRefresh => alarm.back \in ByRefresh
  /\ alarm.at = "stop" => alarm.back \in ByStop
  /\ Stage \in OnDeployment =>
       alarm.d \in DOMAIN alarm.work /\ alarm.work[alarm.d].phase = PhaseAt[Stage]
  /\ Stage \in {"retire", "erase"} => alarm.next # None
  /\ Stage \in OnService \ {"service"} => alarm.svc.current # None

\* A document is active until its deployment is decided.
Undecided == Short \union {"routing", "failure_cleanup"}
PhaseOf(doc) == doc.status \in ACTIVE <=> doc.phase \in Undecided

\* The alarm's documents are the stored ones, but for a release that was retired.
Same(doc, other) ==
  /\ doc.phase = other.phase /\ doc.prev = other.prev /\ doc.rollback = other.rollback
  /\ doc.placed = other.placed /\ doc.built = other.built /\ doc.address = other.address

Documents ==
  /\ \A d \in Dep : PhaseOf(deps[d]) /\ (d > created => deps[d] = NoDoc)
  /\ \A d \in DOMAIN alarm.work :
       PhaseOf(alarm.work[d]) /\ Same(alarm.work[d], deps[d]) /\ deps[d].phase # "done"
  /\ Stage \notin {"work"} \union OnDeployment => DOMAIN alarm.work = {}

\* Only the latest deployment is active; a deployment replaces an earlier one.
Latest ==
  /\ \A d \in Dep : (deps[d].status \in ACTIVE => d = created) /\ deps[d].prev < d
  /\ service.current <= created /\ edit.current <= created /\ alarm.svc.current <= created
  /\ Stage \in {"cleanup", "retire"} => alarm.next < alarm.d

ActiveInv == Typed /\ Holds /\ Documents /\ Latest
-----------------------------------------------------------------------------
(* Types.                                                                  *)

Stored ==
  /\ service \in Service /\ edit \in Service
  /\ deps \in [Dep -> Doc] /\ created \in 0..MaxDeployments
  /\ late \subseteq Dep
Outside ==
  /\ stops \in [Job -> [phase : {"none", "stop", "observe", "done"}, of : {-1} \union Allocation]]
  /\ jobs \in [Job -> [state : {"absent", "pending", "starting", "up", "down", "exiting", "gone"},
                       gen : Allocation]]
  /\ tunnel \in [hash : Address, config : Address, live : Address, acked : BOOLEAN]
  /\ domain \in {"none", "pending", "healthy"}
Counted == faults \in 0..MaxFaults /\ moves \in 0..MaxMoves /\ edits \in 0..MaxEdits

LEMMA WorksOf ==
  /\ \A w \in Works : DOMAIN w \subseteq Dep /\ \A d \in DOMAIN w : w[d] \in Doc
  /\ \A D \in SUBSET Dep : \A w \in [D -> Doc] : w \in Works
BY DEF Works

LEMMA Dropped ==
  ASSUME NEW w \in Works, NEW d
  PROVE  /\ Drop(w, d) \in Works /\ DOMAIN Drop(w, d) = DOMAIN w \ {d}
         /\ \A e \in DOMAIN Drop(w, d) : Drop(w, d)[e] = w[e]
<1>1. Drop(w, d) \in [DOMAIN w \ {d} -> Doc]
  BY WorksOf DEF Drop
<1>2. DOMAIN w \ {d} \in SUBSET Dep
  BY WorksOf
<1> QED
  BY <1>1, <1>2, WorksOf DEF Drop

LEMMA TypedParts == Typed <=> Stored /\ Outside /\ Counted /\ alarm \in Alarms
<1>1. alarm \in Alarms => /\ alarm.at \in Places /\ alarm.d \in Dep \union {None}
                          /\ DOMAIN alarm.work \subseteq Dep
                          /\ \A d \in DOMAIN alarm.work : alarm.work[d] \in Doc
                          /\ alarm.svc \in Service /\ alarm.target \in Address
  BY WorksOf DEF Alarms
<1> QED
  BY <1>1 DEF Typed, TypeOK, Stored, Outside, Counted

LEMMA IdleTyped ==
  Idle \in Alarms /\ NoDoc \in Doc /\ NoService \in Service /\ DOMAIN Idle.work = {}
<1>1. Nowhere \in Address
  BY DEF Address
<1>2. NoService \in Service
  BY <1>1 DEF NoService, Service
<1>3. <<>> \in Works /\ DOMAIN <<>> = {}
  <2>1. <<>> \in [{} -> Doc]
    OBVIOUS
  <2> QED
    BY <2>1, WorksOf
<1>4. NoDoc \in Doc
  BY <1>1 DEF NoDoc, Doc
<1> QED
  BY <1>1, <1>2, <1>3, <1>4 DEF Idle, Alarms, Places

LEMMA ResumedTyped ==
  ASSUME alarm \in Alarms, NEW d
  PROVE  Resumed(d) \in Alarms /\ Resumed(d).at = "work" /\ Resumed(d).work = Drop(alarm.work, d)
<1>1. Drop(alarm.work, d) \in Works
  BY Dropped DEF Alarms
<1> QED
  BY <1>1, IdleTyped DEF Resumed, Idle, Alarms, Places

LEMMA JobLists ==
  ASSUME NEW doc, NEW d \in Dep
  PROVE  /\ Apps(doc, d) \in Seq(Job) /\ Builds(doc, d) \in Seq(Job)
         /\ Apps(doc, d) \o Builds(doc, d) \in Seq(Job)
<1>1. <<"app", d>> \in Job /\ <<"build", d>> \in Job
  BY DEF Job
<1> HIDE DEF Job
<1>2. Apps(doc, d) \in Seq(Job) /\ Builds(doc, d) \in Seq(Job)
  BY <1>1 DEF Apps, Builds
<1> QED
  BY <1>2

LEMMA InitTyped == Init => Typed
<1> SUFFICES ASSUME NEW start \in Start, NEW live, live = start[1], NEW a,
                    a = IF start[2] = "healthy" THEN <<1, 0>> ELSE Nowhere,
                    domain = start[2],
                    service = IF live THEN [NoService EXCEPT !.status = "healthy",
                                              !.current = 1, !.address = <<1, 0>>]
                              ELSE [NoService EXCEPT !.status = "not_deployed"],
                    deps = [d \in Dep |-> IF live /\ d = 1
                             THEN [NoDoc EXCEPT !.status = "healthy", !.placed = TRUE,
                                                !.address = <<1, 0>>]
                             ELSE NoDoc],
                    created = IF live THEN 1 ELSE 0,
                    jobs = [j \in Job |->
                             [state |-> IF live /\ j = <<"app", 1>> THEN "up" ELSE "absent",
                              gen |-> 0]],
                    late = {}, stops = [j \in Job |-> [phase |-> "none", of |-> -1]],
                    tunnel = [hash |-> a, config |-> a, live |-> a, acked |-> TRUE],
                    alarm = Idle, edit = NoService,
                    faults = 0, moves = 0, edits = 0
             PROVE  Typed
  BY DEF Init
<1>1. 1 \in Dep /\ <<1, 0>> \in Address /\ Nowhere \in Address /\ MaxDeployments \in Nat
  BY DeploymentAssumption DEF Dep, Address, Allocation
<1>2. service \in Service /\ edit \in Service
  BY <1>1, IdleTyped DEF Service, NoService
<1>3. deps \in [Dep -> Doc]
  BY <1>1, IdleTyped DEF Doc, NoDoc
<1>4. created \in 0..MaxDeployments /\ late \subseteq Dep
  BY DeploymentAssumption
<1>5. Outside
  BY <1>1, DeploymentAssumption DEF Outside, Allocation
<1>6. Counted
  BY DeploymentAssumption DEF Counted
<1> QED
  BY <1>2, <1>3, <1>4, <1>5, <1>6, IdleTyped, TypedParts DEF Stored
-----------------------------------------------------------------------------
JobStates == {"absent", "pending", "starting", "up", "down", "exiting", "gone"}

LEMMA JobChanged ==
  ASSUME Outside, NEW j \in Job
  PROVE  /\ jobs[j].state \in JobStates /\ jobs[j].gen \in Allocation
         /\ \A s \in JobStates : [jobs EXCEPT ![j].state = s]
              \in [Job -> [state : JobStates, gen : Allocation]]
         /\ \A g \in Allocation : [jobs EXCEPT ![j].gen = g]
              \in [Job -> [state : JobStates, gen : Allocation]]
BY DEF Outside, JobStates

LEMMA OutsideKept ==
  ASSUME Typed, [Next]_vars PROVE Outside'
<1> USE TypedParts
<1>1. ASSUME NEW d \in Dep, NEW kind \in {"app", "build"}, NEW next, ensureJob(d, kind, next)
      PROVE  Outside'
  BY <1>1 DEF ensureJob, Outside, bounds
<1>2. CASE StopWorks
  <2>1. CASE UNCHANGED <<stops, jobs>>
    BY <1>2, <2>1 DEF StopWorks, Outside
  <2>2. CASE alarm.jobs # <<>>
    <3>1. J \in Job
      <4>1. alarm.jobs \in Seq(Job)
        BY DEF Alarms
      <4> HIDE DEF Job
      <4> QED
        BY <2>2, <4>1 DEF J
    <3>2. CASE UNCHANGED jobs
      BY <1>2, <3>1, <3>2 DEF StopWorks, StopStep, Outside
    <3>3. CASE stops' = [stops EXCEPT ![J].phase = "observe"]
      <4>1. jobs' = [jobs EXCEPT ![J].state =
              IF Finite(J) \/ @ = "pending" THEN "gone" ELSE IF Alive(J) THEN "exiting" ELSE @]
            \/ UNCHANGED jobs
        BY <1>2 DEF StopWorks, StopStep
      <4>2. PICK s \in JobStates : jobs' = [jobs EXCEPT ![J].state = s] \/ UNCHANGED jobs
        <5>1. (IF Finite(J) \/ jobs[J].state = "pending" THEN "gone"
               ELSE IF Alive(J) THEN "exiting" ELSE jobs[J].state) \in JobStates
          BY <3>1, JobChanged DEF JobStates
        <5> QED
          BY <4>1, <5>1
      <4>3. jobs' \in [Job -> [state : JobStates, gen : Allocation]]
        <5>1. CASE UNCHANGED jobs
          BY <5>1 DEF Outside, JobStates
        <5>2. CASE jobs' = [jobs EXCEPT ![J].state = s]
          BY <3>1, <5>2, JobChanged
        <5> QED
          BY <4>2, <5>1, <5>2
      <4> QED
        BY <1>2, <3>1, <3>3, <4>3 DEF StopWorks, Outside, JobStates
    <3> QED
      BY <1>2, <3>2, <3>3 DEF StopWorks, StopStep
  <2> QED
    BY <1>2, <2>2 DEF StopWorks
<1>3. CASE Apply
  BY <1>3 DEF Apply, Outside, Alarms
<1>4. CASE Place \/ Nomad \/ Exit \/ Connect
  <2>1. CASE Connect
    BY <2>1 DEF Connect, Outside
  <2>2. CASE Place \/ Nomad \/ Exit
    <3>1. PICK j \in Job, s \in JobStates : jobs' = [jobs EXCEPT ![j].state = s]
      BY <2>2 DEF Place, Nomad, Exit, JobStates
    <3> QED
      BY <2>2, <3>1, JobChanged DEF Place, Nomad, Exit, Outside, JobStates
  <2> QED
    BY <1>4, <2>1, <2>2
<1>5. CASE Move
  <2>1. PICK d \in Dep : jobs' = [jobs EXCEPT ![<<"app", d>>].gen = moves + 1]
    BY <1>5 DEF Move
  <2>2. <<"app", d>> \in Job
    BY DEF Job
  <2>3. moves + 1 \in Allocation
    BY <1>5, DeploymentAssumption DEF Move, Counted, Allocation
  <2>4. jobs' \in [Job -> [state : JobStates, gen : Allocation]]
    BY <2>1, <2>2, <2>3, JobChanged
  <2> QED
    BY <1>5, <2>4 DEF Move, Outside, JobStates
<1>6. CASE Probe
  BY <1>6 DEF Probe, Outside, outside
<1>7. CASE UNCHANGED <<stops, jobs, tunnel, domain>>
  BY <1>7 DEF Outside
<1>8. ASSUME NEW d \in Dep, Phase(d) PROVE Outside'
  BY <1>1, <1>7, <1>8
  DEF Phase, DeadlineExceeded, Interrupted, Rejected, Prepare, SubmitBuild, BuildEnds, PrepareApp,
      SubmitApp, NotYet, observeApplication, Route, StartCleanup, StartFailure, outside
<1>9. CASE User \/ Evicted \/ Deadline
  BY <1>7, <1>9 DEF User, Deploy, Rollback, removeService, EditRead, EditSave, Evicted, Deadline,
     outside
<1>10. CASE Alarm
  BY <1>2, <1>3, <1>6, <1>7, <1>8, <1>10
  DEF Alarm, AlarmStarts, Configure, Ack, Promote, StopFails, StopEnds, CleanupNext, Retire,
      Cleaned, StopCandidate, Failed, ListServices, ReconcileService, Erase, Moved, Unhealthy,
      AutomaticRollback, Healthy, Rerouted, RecordHealth, HealthFails, ReconcileDomains, outside
<1> QED
  BY <1>4, <1>5, <1>7, <1>9, <1>10 DEF Next, Environment, vars
-----------------------------------------------------------------------------
(* What a step does to the documents.                                      *)

\* Every saved document of a deployment is the next one of the held document.
Advance(old, new) ==
  /\ new \in Doc /\ PhaseOf(new) /\ new.prev = old.prev /\ new.rollback = old.rollback
  /\ new.status \in ACTIVE => old.status \in ACTIVE

LEMMA TurnListed ==
  ASSUME Typed, Documents, NEW d
  PROVE  /\ Listed(d) => /\ d \in Dep /\ d \in DOMAIN alarm.work /\ alarm.work[d] \in Doc
                         /\ PhaseOf(alarm.work[d]) /\ alarm.at = "work"
         /\ \A phase : Turn(d, phase) => Listed(d) /\ alarm.work[d].phase = phase
BY WorksOf DEF Typed, Alarms, Documents, Listed, Turn

LEMMA FailingAdvances ==
  ASSUME NEW doc \in Doc, doc.status \in ACTIVE PROVE Advance(doc, Failing(doc))
BY DEF Advance, Failing, Doc, PhaseOf, Undecided, ACTIVE

LEMMA InPhase ==
  ASSUME NEW doc \in Doc, PhaseOf(doc), doc.phase \in Undecided
  PROVE  /\ doc.status \in ACTIVE
         /\ \A phase \in Short : Advance(doc, [doc EXCEPT !.phase = phase])
         /\ \A phase \in Short : Advance(doc, [doc EXCEPT !.phase = phase, !.status = "deploying"])
         /\ Advance(doc, [doc EXCEPT !.phase = "app_prepare", !.placed = TRUE,
                                     !.status = "deploying"])
         /\ Advance(doc, [doc EXCEPT !.phase = "build_submit", !.placed = TRUE,
                                     !.built = TRUE, !.status = "building"])
         /\ \A a \in Address : Advance(doc, [doc EXCEPT !.phase = "routing", !.address = a])
         /\ Advance(doc, [doc EXCEPT !.status = "healthy", !.phase = "cleanup"])
         /\ Advance(doc, [doc EXCEPT !.status = "failed", !.phase = "done"])
<1>1. doc.status \in ACTIVE
  BY DEF PhaseOf
<1> QED
  BY <1>1 DEF Advance, Doc, PhaseOf, Undecided, Short, ACTIVE

LEMMA Placed ==
  ASSUME Typed, NEW d \in Dep PROVE Where(d) \in Address /\ Where(d) # Nowhere /\ Where(d)[1] = d
<1>1. <<"app", d>> \in Job
  BY DEF Job
<1>2. jobs[<<"app", d>>].gen \in Allocation
  BY <1>1, JobChanged, TypedParts
<1>3. d # 0
  BY DeploymentAssumption DEF Dep
<1> QED
  BY <1>2, <1>3 DEF Where, Address, Nowhere

LEMMA ThrowSaves ==
  ASSUME Typed, Holds, Documents, alarm.at \in InRefresh, NEW kind, Throw(kind)
  PROVE  \/ UNCHANGED deps
         \/ \E d \in DOMAIN alarm.work : \E doc : Advance(alarm.work[d], doc) /\ Save(d, doc)
<1>1. alarm.work \in Works
  BY DEF Typed, Alarms
<1>2. CASE alarm.back = "promote"
  <2>1. alarm.d \in DOMAIN alarm.work /\ alarm.work[alarm.d].phase = "routing"
    BY <1>2 DEF Holds, Stage, OnDeployment, InRefresh, PhaseAt
  <2>2. alarm.work[alarm.d] \in Doc /\ alarm.work[alarm.d].status \in ACTIVE
    BY <1>1, <2>1, WorksOf DEF Documents, PhaseOf, Undecided
  <2>3. CASE Skip(alarm.d)
    BY <2>3 DEF Skip
  <2>4. CASE failDeployment(alarm.d)
    BY <2>1, <2>2, <2>4, FailingAdvances DEF failDeployment
  <2> QED
    BY <1>2, <2>3, <2>4 DEF Throw
<1> QED
  BY <1>2 DEF Throw, Skip

Saves == \E d \in DOMAIN alarm.work : \E doc : Advance(alarm.work[d], doc) /\ Save(d, doc)

LEMMA PhaseSaves ==
  ASSUME Typed, Documents, NEW d \in Dep, Phase(d)
  PROVE  (UNCHANGED deps \/ Saves) /\ UNCHANGED created
<1> DEFINE old == alarm.work[d]
<1>0. ASSUME NEW phase \in Undecided, Turn(d, phase)
      PROVE  Listed(d) /\ d \in DOMAIN alarm.work /\ old \in Doc /\ PhaseOf(old)
             /\ old.phase = phase /\ old.phase \in Undecided /\ old.status \in ACTIVE
  BY <1>0, TurnListed DEF PhaseOf
<1>00. Short \subseteq Undecided /\ {"routing", "failure_cleanup"} \subseteq Undecided
  BY DEF Undecided
<1>1. CASE DeadlineExceeded(d)
  BY <1>1, TurnListed, FailingAdvances DEF DeadlineExceeded, Overdue, failDeployment, Saves
<1>2. CASE Interrupted(d) \/ NotYet(d) \/ Route(d) \/ StartCleanup(d)
  BY <1>2 DEF Interrupted, NotYet, Route, StartCleanup, Skip, stored
<1>3. CASE Rejected(d)
  BY <1>0, <1>00, <1>3, FailingAdvances DEF Rejected, failDeployment, Saves
<1>4. CASE Prepare(d)
  <2>1. Turn(d, "prepare") /\ "prepare" \in Undecided
    BY <1>4 DEF Prepare, Undecided, Short
  <2>2. CASE old.rollback # None
    BY <1>0, <1>4, <2>1, <2>2, InPhase DEF Prepare, Saves
  <2>3. CASE old.rollback = None
    BY <1>0, <1>4, <2>1, <2>3, InPhase DEF Prepare, Saves
  <2> QED
    BY <2>2, <2>3
<1>5. CASE SubmitBuild(d)
  <2>1. Turn(d, "build_submit") /\ "build_submit" \in Undecided /\ "building" \in Short
    BY <1>5 DEF SubmitBuild, Undecided, Short
  <2> QED
    BY <1>0, <1>5, <2>1, InPhase DEF SubmitBuild, ensureJob, Saves, Skip
<1>6. CASE SubmitApp(d)
  <2>1. Turn(d, "app_submit") /\ "app_submit" \in Undecided /\ "observing" \in Short
    BY <1>6 DEF SubmitApp, Undecided, Short
  <2> QED
    BY <1>0, <1>6, <2>1, InPhase DEF SubmitApp, ensureJob, Saves, Skip
<1>7. CASE BuildEnds(d)
  <2>1. Turn(d, "building") /\ "building" \in Undecided /\ "app_prepare" \in Short
    BY <1>7 DEF BuildEnds, Undecided, Short
  <2> QED
    BY <1>0, <1>7, <2>1, InPhase, FailingAdvances DEF BuildEnds, failDeployment, Saves
<1>8. CASE PrepareApp(d)
  <2>1. Turn(d, "app_prepare") /\ "app_prepare" \in Undecided /\ "app_submit" \in Short
    BY <1>8 DEF PrepareApp, Undecided, Short
  <2> QED
    BY <1>0, <1>8, <2>1, InPhase DEF PrepareApp, Saves
<1>9. CASE observeApplication(d)
  <2>1. Turn(d, "observing") /\ "observing" \in Undecided
    BY <1>9 DEF observeApplication, Undecided, Short
  <2> QED
    BY <1>0, <1>9, <2>1, InPhase, Placed DEF observeApplication, Saves
<1>10. CASE StartFailure(d)
  BY <1>0, <1>00, <1>10, InPhase DEF StartFailure, Saves
<1> QED
  BY <1>1, <1>2, <1>3, <1>4, <1>5, <1>6, <1>7, <1>8, <1>9, <1>10 DEF Phase

\* Adding a deployment, by a user or by the health reconciliation.
Queues ==
  /\ alarm' = alarm \/ alarm' = [Idle EXCEPT !.at = "domains"]
  /\ MayQueue /\ \E r \in Dep \union {None} : queueDeployment(r)

LEMMA Writes ==
  ASSUME Typed, Holds, Documents, [Next]_vars
  PROVE  \/ UNCHANGED <<deps, created>>
         \/ Saves /\ UNCHANGED created
         \/ Queues \/ Retire \/ Erase
<1>1. CASE Deploy \/ Rollback
  BY <1>1 DEF Deploy, Rollback, Queues, None
<1>2. CASE AutomaticRollback
  <2>1. deps[alarm.svc.current].prev \in Dep \union {None}
    <3>1. alarm.svc.current \in Dep
      BY <1>2 DEF AutomaticRollback, Holds, Stage, OnService, InRefresh, Typed, Alarms, Service
    <3>2. deps[alarm.svc.current] \in Doc
      BY <3>1, TypedParts DEF Stored
    <3> QED
      BY <3>2 DEF Doc
  <2> QED
    BY <1>2, <2>1 DEF AutomaticRollback, Queues, stored
<1>3. CASE \E d \in Dep : Phase(d)
  BY <1>3, PhaseSaves
<1>4. CASE Configure \/ Apply \/ Ack
  <2>1. alarm.at \in InRefresh /\ UNCHANGED created
    BY <1>4 DEF Configure, Apply, Ack, InRefresh
  <2>2. UNCHANGED deps \/ \E kind : Throw(kind)
    BY <1>4 DEF Configure, Apply, Ack
  <2> QED
    BY <2>1, <2>2, ThrowSaves DEF Saves
<1>5. CASE Promote \/ Cleaned \/ Failed
  <2> DEFINE old == alarm.work[alarm.d]
  <2>1. /\ alarm.d \in DOMAIN alarm.work /\ old \in Doc /\ PhaseOf(old)
        /\ Promote => old.phase = "routing" /\ old.phase \in Undecided
        /\ Failed => old.phase \in Undecided
        /\ Cleaned => old.phase = "cleanup"
    BY <1>5, WorksOf DEF Promote, Cleaned, Failed, Holds, Stage, OnDeployment, InRefresh, PhaseAt,
       Documents, Undecided, Typed, Alarms
  <2>2. CASE Promote
    BY <2>1, <2>2, InPhase, FailingAdvances DEF Promote, failDeployment, Saves
  <2>3. CASE Failed
    BY <2>1, <2>3, InPhase DEF Failed, Saves
  <2>4. CASE Cleaned
    <3>1. Advance(old, [old EXCEPT !.phase = "done"])
      BY <2>1, <2>4 DEF Advance, Doc, PhaseOf, Undecided, Short
    <3> QED
      BY <2>1, <2>4, <3>1 DEF Cleaned, Saves
  <2> QED
    BY <1>5, <2>2, <2>3, <2>4
<1>6. CASE UNCHANGED <<deps, created>>
  BY <1>6
<1>7. CASE Alarm
  BY <1>2, <1>3, <1>4, <1>5, <1>6, <1>7
  DEF Alarm, AlarmStarts, StopWorks, StopFails, StopEnds, CleanupNext, StopCandidate,
      ListServices, ReconcileService, Moved, Unhealthy, Healthy, Rerouted, RecordHealth,
      HealthFails, ReconcileDomains, Probe, stored
<1>8. CASE Environment \/ Evicted
  BY <1>6, <1>8 DEF Environment, Place, Nomad, Exit, Move, Connect, Deadline, Evicted, stored
<1>9. CASE User
  BY <1>1, <1>6, <1>9 DEF User, removeService, EditRead, EditSave, stored
<1> QED
  BY <1>6, <1>7, <1>8, <1>9 DEF Next, vars

LEMMA DepsTyped ==
  ASSUME Typed, Holds, Documents, [Next]_vars
  PROVE  deps' \in [Dep -> Doc] /\ created' \in 0..MaxDeployments
<1> USE TypedParts DEF Stored
<1>1. CASE Saves /\ UNCHANGED created
  <2>1. PICK d, doc : d \in DOMAIN alarm.work /\ Advance(alarm.work[d], doc) /\ Save(d, doc)
    BY <1>1 DEF Saves
  <2>2. doc \in Doc
    BY <2>1 DEF Advance
  <2> QED
    BY <1>1, <2>1, <2>2 DEF Save
<1>2. CASE Queues
  <2>1. PICK r \in Dep \union {None} : queueDeployment(r)
    BY <1>2 DEF Queues
  <2>2. service.current \in Dep \union {None}
    BY DEF Service
  <2>3. [NoDoc EXCEPT !.status = "queued", !.phase = "prepare", !.rollback = r,
                      !.prev = service.current] \in Doc
    BY <2>2, IdleTyped DEF Doc, NoDoc, ACTIVE, Short
  <2>4. deps' \in [Dep -> Doc]
    BY <2>1, <2>3 DEF queueDeployment
  <2>5. created' \in 0..MaxDeployments
    BY <2>1, DeploymentAssumption DEF queueDeployment
  <2> QED
    BY <2>4, <2>5
<1>3. CASE Retire
  <2>1. alarm.next \in Dep /\ deps[alarm.next] \in Doc
    BY <1>3 DEF Retire, Holds, Stage, InRefresh, Alarms
  <2>2. [deps[alarm.next] EXCEPT !.status = "rolled_back"] \in Doc
    BY <2>1 DEF Doc
  <2> QED
    BY <1>3, <2>1, <2>2 DEF Retire
<1>4. CASE Erase
  BY <1>4, IdleTyped DEF Erase
<1> QED
  BY <1>1, <1>2, <1>3, <1>4, Writes

LEMMA InService ==
  ASSUME NEW s \in Service
  PROVE  /\ s.current \in Dep \union {None} /\ s.promotion \in Dep \union {None}
         /\ s.address \in Address /\ s.promoted \in Address
         /\ Cleared(s) \in Service
         /\ \A st \in {"not_deployed", "healthy", "degraded", "failed", "deleting", "gone"} :
              [s EXCEPT !.status = st] \in Service
         /\ \A a \in Address : [s EXCEPT !.address = a] \in Service
         /\ \A a \in Address, d \in Dep \union {None} :
              /\ [s EXCEPT !.current = d, !.address = a, !.status = "healthy",
                           !.unhealthy = FALSE] \in Service
              /\ [s EXCEPT !.address = a, !.status = "healthy", !.unhealthy = FALSE] \in Service
              /\ [s EXCEPT !.promotion = d, !.promoted = a] \in Service
BY DEF Service, Cleared, None, Address

LEMMA ThrowService ==
  ASSUME Typed, NEW kind, Throw(kind) PROVE service' \in Service
<1>1. service \in Service /\ alarm.svc \in Service
  BY TypedParts DEF Stored, Alarms
<1> QED
  BY <1>1, InService DEF Throw

LEMMA ServiceTyped ==
  ASSUME Typed, Holds, Documents, [Next]_vars
  PROVE  service' \in Service
<1>1. service \in Service /\ edit \in Service /\ alarm.svc \in Service
  BY TypedParts DEF Stored, Alarms
<1>2. ASSUME NEW d \in Dep, Phase(d) PROVE service' \in Service
  <2>1. CASE observeApplication(d)
    BY <1>1, <2>1, Placed DEF observeApplication, Service
  <2>2. CASE StartFailure(d)
    BY <1>1, <2>2, InService DEF StartFailure
  <2> QED
    BY <1>1, <1>2, <2>1, <2>2
    DEF Phase, DeadlineExceeded, Interrupted, Rejected, Prepare, SubmitBuild, BuildEnds,
        PrepareApp, SubmitApp, NotYet, Route, StartCleanup, ensureJob, stored
<1>3. CASE Configure \/ Apply \/ Ack
  BY <1>1, <1>3, ThrowService DEF Configure, Apply, Ack
<1>4. CASE Promote
  <2>1. alarm.d \in Dep /\ alarm.work[alarm.d] \in Doc
    BY <1>4, WorksOf
    DEF Promote, Holds, Stage, OnDeployment, InRefresh, Typed, Alarms
  <2> QED
    <3>1. Cleared(service) \in Service /\ alarm.work[alarm.d].address \in Address
      BY <1>1, <2>1, InService DEF Doc
    <3>2. [Cleared(service) EXCEPT !.current = alarm.d, !.address = alarm.work[alarm.d].address,
             !.status = "healthy", !.unhealthy = FALSE] \in Service
      BY <2>1, <3>1, InService
    <3> QED
      BY <1>1, <1>4, <3>2 DEF Promote
<1>5. CASE Failed
  BY <1>1, <1>5, InService DEF Failed
<1>6. CASE Erase
  BY <1>6, IdleTyped DEF Erase
<1>7. CASE Moved
  <2>1. Cleared(alarm.svc) \in Service /\ alarm.svc.promoted \in Address
    BY <1>1, InService
  <2>2. [Cleared(alarm.svc) EXCEPT !.address = alarm.svc.promoted] \in Service
    BY <2>1, InService
  <2> QED
    BY <1>7, <2>2 DEF Moved
<1>8. CASE Unhealthy
  BY <1>1, <1>8 DEF Unhealthy, Service
<1>9. CASE AutomaticRollback \/ HealthFails
  BY <1>1, <1>9, InService DEF AutomaticRollback, HealthFails, stored
<1>10. CASE Healthy
  <2>1. alarm.svc.current \in Dep
    BY <1>1, <1>10 DEF Healthy, Holds, Stage, OnService, InRefresh, Service
  <2> QED
    <3>1. [service EXCEPT !.promotion = alarm.svc.current,
                          !.promoted = Where(alarm.svc.current)] \in Service
      BY <1>1, <2>1, Placed, InService
    <3>2. service' \in {service, [service EXCEPT !.promotion = alarm.svc.current,
                                                 !.promoted = Where(alarm.svc.current)]}
      BY <1>10 DEF Healthy
    <3> QED
      BY <1>1, <3>1, <3>2
<1>11. CASE RecordHealth
  <2>1. Cleared(service) \in Service /\ alarm.svc.address \in Address
    BY <1>1, InService
  <2>2. [Cleared(service) EXCEPT !.address = alarm.svc.address, !.status = "healthy",
           !.unhealthy = FALSE] \in Service
    BY <2>1, InService
  <2> QED
    BY <1>1, <1>11, <2>2 DEF RecordHealth
<1>12. CASE UNCHANGED service
  BY <1>1, <1>12
<1>13. CASE Alarm
  BY <1>2, <1>3, <1>4, <1>5, <1>6, <1>7, <1>8, <1>9, <1>10, <1>11, <1>12, <1>13
  DEF Alarm, AlarmStarts, StopWorks, StopFails, StopEnds, CleanupNext, Retire, Cleaned,
      StopCandidate, ListServices, ReconcileService, Rerouted, ReconcileDomains, Probe, stored
<1>14. CASE Environment \/ Evicted
  BY <1>12, <1>14 DEF Environment, Place, Nomad, Exit, Move, Connect, Deadline, Evicted, stored
<1>15. CASE User
  BY <1>1, <1>12, <1>15, InService
  DEF User, Deploy, Rollback, removeService, EditRead, EditSave, stored
<1> QED
  BY <1>12, <1>13, <1>14, <1>15 DEF Next, vars

LEMMA CountedKept ==
  ASSUME Typed, [Next]_vars
  PROVE  Counted' /\ late' \subseteq Dep /\ edit' \in Service
<1>1. late \subseteq Dep /\ service \in Service /\ edit \in Service
      /\ faults \in 0..MaxFaults /\ moves \in 0..MaxMoves /\ edits \in 0..MaxEdits
  BY TypedParts DEF Stored, Counted
<1>2. edit' \in Service
  <2>1. CASE UNCHANGED edit
    BY <1>1, <2>1
  <2>2. CASE User \/ Evicted
    BY <1>1, <2>2, IdleTyped
    DEF User, Deploy, Rollback, removeService, EditRead, EditSave, Evicted
  <2>3. ASSUME NEW d \in Dep, Phase(d) PROVE UNCHANGED edit
    BY <2>3
    DEF Phase, DeadlineExceeded, Interrupted, Rejected, Prepare, SubmitBuild, BuildEnds,
        PrepareApp, SubmitApp, NotYet, observeApplication, Route, StartCleanup, StartFailure,
        ensureJob
  <2>4. CASE Alarm \/ Environment
    BY <2>1, <2>3, <2>4
    DEF Alarm, AlarmStarts, Configure, Apply, Ack, Promote, StopWorks, StopFails, StopEnds,
        CleanupNext, Retire, Cleaned, StopCandidate, Failed, ListServices, ReconcileService,
        Erase, Moved, Unhealthy, AutomaticRollback, Healthy, Rerouted, RecordHealth, HealthFails,
        ReconcileDomains, Probe, Environment, Place, Nomad, Exit, Move, Connect, Deadline
  <2> QED
    BY <2>1, <2>2, <2>4 DEF Next, vars
<1>3. late' \subseteq Dep
  BY <1>1
  DEF Next, vars, User, Deploy, Rollback, removeService, EditRead, EditSave, Evicted,
      Alarm, AlarmStarts, Configure, Apply, Ack, Promote, StopWorks, StopFails, StopEnds,
      CleanupNext, Retire, Cleaned, StopCandidate, Failed, ListServices, ReconcileService,
      Erase, Moved, Unhealthy, AutomaticRollback, Healthy, Rerouted, RecordHealth, HealthFails,
      ReconcileDomains, Probe, Environment, Place, Nomad, Exit, Move, Connect, Deadline,
      Phase, DeadlineExceeded, Interrupted, Rejected, Prepare, SubmitBuild, BuildEnds,
      PrepareApp, SubmitApp, NotYet, observeApplication, Route, StartCleanup, StartFailure,
      ensureJob
<1>4. Counted'
  <2>1. \A kind : Fault(kind) => faults' \in 0..MaxFaults
    BY <1>1, DeploymentAssumption DEF Fault
  <2>2. CASE UNCHANGED <<moves, edits>> /\ (UNCHANGED faults \/ \E kind : Fault(kind))
    BY <1>1, <2>1, <2>2 DEF Counted
  <2>3. CASE EditRead \/ Move
    BY <1>1, <2>3, DeploymentAssumption DEF EditRead, Move, Counted, outside, bounds
  <2>4. ASSUME NEW d \in Dep, Phase(d)
        PROVE  UNCHANGED <<moves, edits>> /\ (UNCHANGED faults \/ \E kind : Fault(kind))
    BY <2>4
    DEF Phase, DeadlineExceeded, Interrupted, Rejected, Prepare, SubmitBuild, BuildEnds,
        PrepareApp, SubmitApp, NotYet, observeApplication, Route, StartCleanup, StartFailure,
        ensureJob, outside, bounds
  <2>5. CASE Alarm
    BY <2>2, <2>4, <2>5
    DEF Alarm, AlarmStarts, Configure, Apply, Ack, Promote, StopWorks, StopFails, StopEnds,
        CleanupNext, Retire, Cleaned, StopCandidate, Failed, ListServices, ReconcileService,
        Erase, Moved, Unhealthy, AutomaticRollback, Healthy, Rerouted, RecordHealth, HealthFails,
        ReconcileDomains, Probe, outside, bounds
  <2>6. CASE User \/ Evicted \/ Environment
    BY <2>2, <2>3, <2>6
    DEF User, Deploy, Rollback, removeService, EditSave, Evicted, Environment, Place, Nomad, Exit,
        Connect, Deadline, outside, bounds
  <2> QED
    BY <2>2, <2>5, <2>6 DEF Next, vars
<1> QED
  BY <1>2, <1>3, <1>4

LEMMA ResumedAlarm ==
  ASSUME alarm \in Alarms, NEW d
  PROVE  /\ \A doc : Save(d, doc) => alarm' = Resumed(d) /\ alarm' \in Alarms
         /\ Skip(d) => alarm' = Resumed(d) /\ alarm' \in Alarms
         /\ failDeployment(d) => alarm' = Resumed(d) /\ alarm' \in Alarms
BY ResumedTyped DEF Save, Skip, failDeployment

\* Places the alarm goes to with what it holds.
LEMMA AlarmAt ==
  ASSUME NEW a \in Alarms
  PROVE  /\ \A p \in Places : [a EXCEPT !.at = p] \in Alarms
         /\ \A p \in Places, d \in Dep : [a EXCEPT !.at = p, !.d = d] \in Alarms
         /\ \A p \in Places, s \in Service : [a EXCEPT !.at = p, !.svc = s] \in Alarms
         /\ \A p \in Places, s \in Service, b \in BOOLEAN :
              [a EXCEPT !.busy = b, !.svc = s, !.at = p] \in Alarms
         /\ \A p \in Places, n \in Dep \union {None} : [a EXCEPT !.at = p, !.next = n] \in Alarms
         /\ \A p \in Places, d \in Dep, n \in Dep \union {None} :
              [a EXCEPT !.at = p, !.d = d, !.next = n] \in Alarms
         /\ \A n \in Dep \union {None} : [a EXCEPT !.next = n] \in Alarms
         /\ \A s \in Service : [a EXCEPT !.svc = s] \in Alarms
         /\ \A t \in Address : [a EXCEPT !.at = "apply", !.target = t] \in Alarms
         /\ \A js \in Seq(Job), b \in ByStop : Stop(a, js, b) \in Alarms
         /\ \A b \in ByRefresh : Refresh(a, b) \in Alarms
<1>1. {"apply", "stop", "refresh"} \subseteq Places
  BY DEF Places
<1> HIDE DEF Places, Service, Works, Address, Job
<1> QED
  BY <1>1 DEF Alarms, Stop, Refresh

LEMMA ThrowAlarm ==
  ASSUME Typed, NEW kind, Throw(kind)
  PROVE  alarm' \in Alarms
         /\ \/ alarm.back \in {"promote", "candidate"} /\ alarm' = Resumed(alarm.d)
            \/ alarm' = Idle
            \/ alarm' = [Idle EXCEPT !.at = "domains"]
<1>1. alarm \in Alarms /\ "domains" \in Places
  BY DEF Typed, Places
<1>2. CASE alarm.back \in {"promote", "candidate"}
  BY <1>1, <1>2, ResumedAlarm DEF Throw
<1>3. [Idle EXCEPT !.at = "domains"] \in Alarms /\ Idle \in Alarms
  BY <1>1, IdleTyped, AlarmAt
<1>4. CASE alarm.back \notin {"promote", "candidate"}
  <2>1. alarm' = Idle \/ alarm' = [Idle EXCEPT !.at = "domains"]
    BY <1>4 DEF Throw
  <2> QED
    BY <1>3, <2>1
<1> QED
  BY <1>2, <1>4

LEMMA AlarmTyped ==
  ASSUME Typed, Holds, Documents, [Next]_vars
  PROVE  alarm' \in Alarms
<1>1. /\ alarm \in Alarms /\ service \in Service /\ alarm.svc \in Service
      /\ deps \in [Dep -> Doc] /\ alarm.work \in Works /\ created \in 0..MaxDeployments
  BY TypedParts DEF Stored, Alarms
<1>2. Idle \in Alarms /\ \A p \in Places : [Idle EXCEPT !.at = p] \in Alarms
  BY IdleTyped, AlarmAt
<1>3. {"idle", "work", "refresh", "apply", "ack", "promote", "cleanup", "stop", "retire",
       "cleaned", "candidate", "failed", "service", "erase", "moved", "health", "rollback",
       "rerouted", "record", "domains", "probe"} \subseteq Places
  BY DEF Places
<1>4. /\ ByRefresh \union ByStop \subseteq Places
      /\ {"promote", "candidate", "moved", "rerouted", "probe"} \subseteq ByRefresh
      /\ {"retire", "cleaned", "failed", "erase"} \subseteq ByStop
  BY DEF ByRefresh, ByStop, Places
<1>5. /\ \A d \in Dep : deps[d] \in Doc /\ deps[d].prev \in Dep \union {None}
      /\ \A d \in DOMAIN alarm.work : /\ d \in Dep /\ alarm.work[d] \in Doc
                                      /\ alarm.work[d].prev \in Dep \union {None}
  BY <1>1, WorksOf DEF Doc
<1>6. CASE UNCHANGED alarm
  BY <1>1, <1>6
<1>7. CASE User \/ Environment \/ Evicted
  BY <1>1, <1>2, <1>7
  DEF User, Deploy, Rollback, removeService, EditRead, EditSave, Environment, Place, Nomad, Exit, Move,
      Connect, Deadline, Evicted
<1>8. ASSUME NEW d \in Dep, Phase(d) PROVE alarm' \in Alarms
  <2>1. CASE Route(d)
    <3>1. [alarm EXCEPT !.d = d] \in Alarms
      BY <1>1 DEF Alarms
    <3> QED
      BY <1>4, <2>1, <3>1, AlarmAt DEF Route
  <2>2. CASE StartCleanup(d)
    <3>1. d \in DOMAIN alarm.work
      BY <2>2, TurnListed DEF StartCleanup
    <3> QED
      BY <1>1, <1>3, <1>5, <2>2, <3>1, AlarmAt DEF StartCleanup
  <2>3. CASE StartFailure(d)
    <3>1. /\ [alarm EXCEPT !.d = d, !.svc = service] \in Alarms
          /\ [[alarm EXCEPT !.d = d, !.svc = service] EXCEPT !.svc = Cleared(service)] \in Alarms
      <4>1. Cleared(service) \in Service
        BY <1>1, InService
      <4> HIDE DEF Service
      <4> QED
        BY <1>1, <4>1 DEF Alarms
    <3> DEFINE here  == [alarm EXCEPT !.d = d, !.svc = service]
               there == [here EXCEPT !.svc = Cleared(service)]
    <3>2. \/ \E doc : Save(d, doc)
          \/ alarm' \in {Refresh(there, "candidate"), Refresh(here, "candidate"),
                         [here EXCEPT !.at = "candidate"]}
      BY <2>3 DEF StartFailure
    <3> HIDE DEF here, there
    <3>3. here \in Alarms /\ there \in Alarms
      BY <3>1 DEF here, there
    <3>4. /\ Refresh(there, "candidate") \in Alarms /\ Refresh(here, "candidate") \in Alarms
          /\ [here EXCEPT !.at = "candidate"] \in Alarms
      BY <1>3, <1>4, <3>3, AlarmAt
    <3> QED
      BY <1>1, <3>2, <3>4, ResumedAlarm
  <2> QED
    BY <1>1, <1>8, <2>1, <2>2, <2>3, ResumedAlarm
    DEF Phase, DeadlineExceeded, Interrupted, Rejected, Prepare, SubmitBuild, BuildEnds,
        PrepareApp, SubmitApp, NotYet, observeApplication, ensureJob
<1>9. CASE Configure \/ Apply \/ Ack
  <2>1. CASE \E kind : Throw(kind)
    BY <2>1, ThrowAlarm
  <2>2. [alarm EXCEPT !.at = alarm.back] \in Alarms
    <3>1. alarm.back \in Places
      BY <1>4, <1>9 DEF Configure, Apply, Ack, Holds, InRefresh
    <3> QED
      BY <1>1, <3>1, AlarmAt
  <2>3. Upstream \in Address
    BY <1>1, InService DEF Upstream
  <2>4. [alarm EXCEPT !.at = "ack"] \in Alarms
        /\ [alarm EXCEPT !.at = "apply", !.target = Upstream] \in Alarms
    BY <1>1, <1>3, <2>3, AlarmAt
  <2>5. \/ \E kind : Throw(kind)
        \/ alarm' = [alarm EXCEPT !.at = alarm.back]
        \/ alarm' = [alarm EXCEPT !.at = "ack"]
        \/ alarm' = [alarm EXCEPT !.at = "apply", !.target = Upstream]
    BY <1>9 DEF Configure, Apply, Ack
  <2> QED
    BY <2>1, <2>2, <2>4, <2>5
<1>10. CASE Promote \/ Cleaned \/ Failed
  BY <1>1, <1>10, ResumedAlarm DEF Promote, Cleaned, Failed
<1>11. CASE StopWorks \/ StopFails
  <2>1. Resumed(alarm.d) \in Alarms /\ [Idle EXCEPT !.at = "domains"] \in Alarms
    BY <1>1, <1>2, <1>3, ResumedTyped
  <2>2. alarm.jobs # <<>> => [alarm EXCEPT !.jobs = Tail(@)] \in Alarms
    <3>1. alarm.jobs \in Seq(Job)
      BY <1>1 DEF Alarms
    <3> HIDE DEF Job
    <3>2. alarm.jobs # <<>> => Tail(alarm.jobs) \in Seq(Job)
      BY <3>1
    <3> QED
      BY <1>1, <3>2 DEF Alarms
  <2>3. \/ alarm' = alarm \/ alarm' = Resumed(alarm.d) \/ alarm' = [Idle EXCEPT !.at = "domains"]
        \/ alarm.jobs # <<>> /\ alarm' = [alarm EXCEPT !.jobs = Tail(@)]
    BY <1>11 DEF StopWorks, StopStep, StopFails, StopThrows
  <2> QED
    BY <1>1, <2>1, <2>2, <2>3
<1>12. CASE StopEnds
  <2>1. CASE alarm.back = "erase" /\ alarm.next < created
    <3>1. alarm.next + 1 \in Dep
      <4>1. alarm.next \in Dep \union {None}
        BY <1>1 DEF Alarms
      <4> QED
        BY <1>1, <2>1, <4>1, DeploymentAssumption DEF Dep, None
    <3>2. [alarm EXCEPT !.next = @ + 1] \in Alarms
      BY <1>1, <3>1, AlarmAt
    <3>3. JobsOf(alarm.next + 1) \in Seq(Job)
      BY <3>1, JobLists DEF JobsOf
    <3> QED
      BY <1>4, <1>12, <2>1, <3>2, <3>3, AlarmAt DEF StopEnds
  <2>2. CASE ~(alarm.back = "erase" /\ alarm.next < created)
    <3>1. alarm.back \in Places
      BY <1>4, <1>12 DEF StopEnds, Holds
    <3> QED
      BY <1>1, <1>12, <2>2, <3>1, AlarmAt DEF StopEnds
  <2> QED
    BY <2>1, <2>2
<1>13. CASE CleanupNext \/ StopCandidate \/ Retire
  <2>1. Stage \in OnDeployment => alarm.d \in Dep
    BY <1>5 DEF Holds
  <2>2. CASE CleanupNext
    <3>1. alarm.d \in Dep
      BY <2>1, <2>2 DEF CleanupNext, Stage, OnDeployment, InRefresh
    <3>2. alarm.next # None => alarm.next \in Dep
      BY <1>1 DEF Alarms
    <3>3. Builds(alarm.work[alarm.d], alarm.d) \in Seq(Job)
          /\ (alarm.next # None => Apps(deps[alarm.next], alarm.next) \in Seq(Job))
      BY <3>1, <3>2, JobLists
    <3>4. alarm.next # None => [alarm EXCEPT !.next = deps[alarm.next].prev] \in Alarms
      BY <1>1, <1>5, <3>2, AlarmAt
    <3>5. /\ Stop(alarm, Builds(alarm.work[alarm.d], alarm.d), "cleaned") \in Alarms
          /\ alarm.next # None => Stop(alarm, Apps(deps[alarm.next], alarm.next), "retire") \in Alarms
      BY <1>1, <1>4, <3>3, AlarmAt
    <3> QED
      BY <2>2, <3>4, <3>5 DEF CleanupNext
  <2>3. CASE StopCandidate
    <3>1. alarm.d \in Dep
      BY <2>1, <2>3 DEF StopCandidate, Stage, OnDeployment, InRefresh
    <3> QED
      BY <1>1, <1>4, <2>3, <3>1, AlarmAt, JobLists DEF StopCandidate
  <2>4. CASE Retire
    <3>1. alarm.next \in Dep
      BY <1>1, <2>4 DEF Retire, Holds, Stage, InRefresh, Alarms
    <3> QED
      BY <1>1, <1>3, <1>5, <2>4, <3>1, AlarmAt DEF Retire
  <2> QED
    BY <1>13, <2>2, <2>3, <2>4
<1>14. CASE AlarmStarts
  <2> DEFINE unfinished == {d \in Dep : deps[d].phase # "done"}
  <2>1. [d \in unfinished |-> deps[d]] \in [unfinished -> Doc] /\ unfinished \in SUBSET Dep
    BY <1>1
  <2>2. [d \in unfinished |-> deps[d]] \in Works
    BY <2>1, WorksOf
  <2>3. (unfinished # {}) \in BOOLEAN
    OBVIOUS
  <2> HIDE DEF unfinished
  <2>4. [Idle EXCEPT !.at = "work", !.busy = unfinished # {},
                     !.work = [d \in unfinished |-> deps[d]]] \in Alarms
    BY <1>2, <1>3, <2>2 DEF Alarms
  <2> QED
    BY <1>14, <2>4 DEF AlarmStarts, unfinished
<1>15. CASE ListServices \/ ReconcileService
  <2>1. CASE ListServices
    <3>1. alarm.busy \in BOOLEAN
      BY <1>1 DEF Alarms
    <3> QED
      BY <1>1, <1>2, <1>3, <2>1, <3>1, AlarmAt DEF ListServices
  <2>2. CASE ReconcileService
    <3>1. 1 \in Dep
      BY DeploymentAssumption DEF Dep
    <3>2. [alarm EXCEPT !.next = 1] \in Alarms /\ JobsOf(1) \in Seq(Job)
      BY <1>1, <3>1, AlarmAt, JobLists DEF JobsOf
    <3>3. /\ Stop([alarm EXCEPT !.next = 1], JobsOf(1), "erase") \in Alarms
          /\ [Idle EXCEPT !.at = "domains"] \in Alarms
          /\ [alarm EXCEPT !.at = "health"] \in Alarms
          /\ Refresh(alarm, "moved") \in Alarms
      BY <1>1, <1>2, <1>3, <1>4, <3>2, AlarmAt
    <3> QED
      BY <2>2, <3>3 DEF ReconcileService
  <2> QED
    BY <1>15, <2>1, <2>2
<1>16. CASE Moved \/ Rerouted
  <2>1. [Cleared(alarm.svc) EXCEPT !.address = alarm.svc.promoted] \in Service
    BY <1>1, InService
  <2> QED
    <3>1. \A p \in Places : [alarm EXCEPT !.at = p,
            !.svc = [Cleared(alarm.svc) EXCEPT !.address = alarm.svc.promoted]] \in Alarms
      BY <1>1, <2>1, AlarmAt
    <3> QED
      BY <1>3, <1>16, <3>1 DEF Moved, Rerouted
<1>17. CASE Healthy
  <2>1. alarm.svc.current \in Dep
    BY <1>1, <1>17, InService DEF Healthy, Holds, Stage, OnService, InRefresh
  <2>2. [service EXCEPT !.promotion = alarm.svc.current,
                        !.promoted = Where(alarm.svc.current)] \in Service
    BY <1>1, <2>1, Placed, InService
  <2>3. /\ \A s \in Service : Refresh([alarm EXCEPT !.svc = s], "rerouted") \in Alarms
        /\ [alarm EXCEPT !.at = "record"] \in Alarms /\ [Idle EXCEPT !.at = "domains"] \in Alarms
    BY <1>1, <1>2, <1>3, <1>4, AlarmAt
  <2> QED
    BY <1>17, <2>2, <2>3 DEF Healthy
<1>18. CASE ReconcileDomains
  BY <1>1, <1>2, <1>4, <1>18, AlarmAt DEF ReconcileDomains
<1>19. CASE Erase \/ Unhealthy \/ AutomaticRollback \/ RecordHealth \/ HealthFails \/ Probe
  <2>1. [Idle EXCEPT !.at = "domains"] \in Alarms /\ [alarm EXCEPT !.at = "rollback"] \in Alarms
    BY <1>1, <1>2, <1>3, AlarmAt
  <2> QED
    BY <1>2, <1>19, <2>1
    DEF Erase, Unhealthy, AutomaticRollback, RecordHealth, HealthFails, Probe
<1> QED
  BY <1>6, <1>7, <1>8, <1>9, <1>10, <1>11, <1>12, <1>13, <1>14, <1>15, <1>16, <1>17, <1>18, <1>19
  DEF Next, vars, Alarm
-----------------------------------------------------------------------------
(* What a step does to the alarm.                                          *)

Away    == alarm' \in {Idle, [Idle EXCEPT !.at = "domains"]}
Resumes == \E d \in DOMAIN alarm.work : alarm' = Resumed(d)
Inner   == /\ alarm.at \in InRefresh \union {"stop"} /\ Stage' = Stage
           /\ alarm'.at \in {alarm.at, alarm.back} \union InRefresh
           /\ alarm.at = "stop" => alarm'.at \notin InRefresh
           /\ alarm'.back = alarm.back /\ alarm'.d = alarm.d /\ alarm'.work = alarm.work
           /\ alarm'.svc = alarm.svc /\ alarm'.next = alarm.next /\ alarm'.busy = alarm.busy
NextErased == StopEnds /\ alarm.back = "erase" /\ alarm.next < created
Begins  == \/ \E d \in Dep : Route(d) \/ StartCleanup(d) \/ StartFailure(d)
           \/ CleanupNext \/ Retire \/ StopCandidate \/ ListServices \/ ReconcileService
           \/ NextErased \/ Moved \/ Unhealthy \/ Healthy \/ Rerouted \/ ReconcileDomains

LEMMA AlarmSteps ==
  ASSUME Typed, Holds, Documents, [Next]_vars
  PROVE  \/ UNCHANGED alarm /\ (UNCHANGED service \/ User)
         \/ Away \/ Resumes
         \/ AlarmStarts /\ UNCHANGED service
         \/ Inner /\ UNCHANGED service
         \/ Begins
<1>0. alarm \in Alarms
  BY DEF Typed
<1>1. ASSUME NEW d \in DOMAIN alarm.work, Skip(d) \/ failDeployment(d) \/ \E doc : Save(d, doc)
      PROVE  Resumes
  BY <1>0, <1>1, ResumedAlarm DEF Resumes
<1>2. ASSUME NEW d \in Dep, Phase(d) PROVE Resumes \/ Begins
  <2>1. d \in DOMAIN alarm.work
    BY <1>2, TurnListed
    DEF Phase, DeadlineExceeded, Interrupted, Rejected, Prepare, SubmitBuild, BuildEnds,
        PrepareApp, SubmitApp, NotYet, observeApplication, Route, StartCleanup, StartFailure
  <2> QED
    BY <1>1, <1>2, <2>1
    DEF Begins, Phase, DeadlineExceeded, Interrupted, Rejected, Prepare, SubmitBuild, BuildEnds,
        PrepareApp, SubmitApp, NotYet, observeApplication, ensureJob
<1>3. ASSUME alarm.at \in InRefresh, NEW kind, Throw(kind) PROVE Away \/ Resumes
  <2>1. alarm.back \in {"promote", "candidate"} => alarm.d \in DOMAIN alarm.work
    BY <1>3 DEF Holds, Stage, OnDeployment
  <2> QED
    BY <1>3, <2>1, ThrowAlarm DEF Away, Resumes
<1>4. ASSUME alarm.at \in InRefresh,
             \/ alarm' = [alarm EXCEPT !.at = alarm.back]
             \/ alarm' = [alarm EXCEPT !.at = "ack"]
             \/ alarm' = [alarm EXCEPT !.at = "apply", !.target = Upstream]
      PROVE  Inner
  <2>1. alarm.back \in ByRefresh
    BY <1>4 DEF Holds
  <2> QED
    BY <1>0, <1>4, <2>1 DEF Inner, Stage, InRefresh, ByRefresh, Alarms
<1>5. CASE Configure \/ Apply \/ Ack
  <2>1. alarm.at \in InRefresh
    BY <1>5 DEF Configure, Apply, Ack, InRefresh
  <2>2. \/ \E kind : Throw(kind)
        \/ /\ UNCHANGED service
           /\ \/ alarm' = [alarm EXCEPT !.at = alarm.back]
              \/ alarm' = [alarm EXCEPT !.at = "ack"]
              \/ alarm' = [alarm EXCEPT !.at = "apply", !.target = Upstream]
    BY <1>5 DEF Configure, Apply, Ack
  <2> QED
    BY <1>3, <1>4, <2>1, <2>2
<1>6. ASSUME alarm.at = "stop",
             \/ alarm' = [alarm EXCEPT !.jobs = Tail(@)]
             \/ alarm' = [alarm EXCEPT !.at = alarm.back]
      PROVE  Inner
  <2>1. alarm.back \in ByStop
    BY <1>6 DEF Holds
  <2> QED
    BY <1>0, <1>6, <2>1 DEF Inner, Stage, InRefresh, ByStop, Alarms
<1>7. ASSUME alarm.at = "stop", StopThrows PROVE Away \/ Resumes
  <2>1. alarm.back # "erase" => alarm.d \in DOMAIN alarm.work
    BY <1>7 DEF Holds, Stage, OnDeployment, ByStop
  <2> QED
    BY <1>7, <2>1 DEF StopThrows, Away, Resumes
<1>8. CASE StopWorks \/ StopFails \/ StopEnds
  <2>1. alarm.at = "stop"
    BY <1>8 DEF StopWorks, StopFails, StopEnds
  <2>2. \/ StopThrows
        \/ UNCHANGED alarm
        \/ alarm' = [alarm EXCEPT !.jobs = Tail(@)]
        \/ alarm' = [alarm EXCEPT !.at = alarm.back]
        \/ NextErased
    BY <1>8 DEF StopWorks, StopStep, StopFails, StopEnds, NextErased
  <2>3. UNCHANGED service
    BY <1>8 DEF StopWorks, StopFails, StopEnds, stored
  <2> QED
    BY <1>6, <1>7, <2>1, <2>2, <2>3 DEF Begins
<1>9. CASE Promote \/ Cleaned \/ Failed
  <2>1. alarm.d \in DOMAIN alarm.work
    BY <1>9 DEF Promote, Cleaned, Failed, Holds, Stage, OnDeployment, InRefresh
  <2> QED
    BY <1>1, <1>9, <2>1 DEF Promote, Cleaned, Failed
<1>10. CASE Alarm
  BY <1>2, <1>5, <1>8, <1>9, <1>10
  DEF Alarm, AlarmStarts, Begins, Away, Erase, AutomaticRollback, RecordHealth, HealthFails, Probe,
      stored
<1>11. CASE User \/ Environment \/ Evicted
  BY <1>11
  DEF User, Deploy, Rollback, removeService, EditRead, EditSave, Environment, Place, Nomad, Exit, Move,
      Connect, Deadline, Evicted, Away, stored
<1> QED
  BY <1>10, <1>11 DEF Next, vars

LEMMA IdleFields ==
  /\ Idle.at = "idle" /\ Idle.svc = NoService /\ Idle.next = None
  /\ LET there == [Idle EXCEPT !.at = "domains"] IN
     there.at = "domains" /\ there.svc = NoService /\ there.next = None /\ there.work = Idle.work
BY DEF Idle

LEMMA AtRest ==
  ASSUME alarm \in Alarms, Away \/ Resumes \/ AlarmStarts
  PROVE  /\ alarm'.at \in {"idle", "domains", "work"} /\ Stage' = alarm'.at
         /\ Away => DOMAIN alarm'.work = {} /\ alarm'.at # "work"
         /\ ~Away => alarm'.at = "work"
         /\ alarm'.svc = NoService /\ alarm'.next = None
<1>1. CASE Away
  <2>1. alarm'.at \in {"idle", "domains"} /\ alarm'.svc = NoService /\ alarm'.next = None
        /\ alarm'.work = Idle.work
    BY <1>1, IdleFields DEF Away
  <2> QED
    BY <1>1, <2>1, IdleTyped DEF Stage, InRefresh
<1>2. CASE Resumes
  <2>1. PICK d : alarm' = Resumed(d)
    BY <1>2 DEF Resumes
  <2>2. alarm'.at = "work" /\ alarm'.svc = NoService /\ alarm'.next = None
    BY <2>1 DEF Resumed, Idle
  <2> QED
    BY <2>2, IdleFields DEF Stage, InRefresh, Away
<1>3. CASE AlarmStarts
  <2>1. alarm'.at = "work" /\ alarm'.svc = NoService /\ alarm'.next = None
    BY <1>3 DEF AlarmStarts, Idle
  <2> QED
    BY <2>1, IdleFields DEF Stage, InRefresh, Away
<1> QED
  BY <1>1, <1>2, <1>3

\* Where a step that begins something leads to.
LEMMA BeginsAt ==
  ASSUME Typed, Holds, Documents
  PROVE  /\ \A d \in Dep : Route(d) =>
              /\ d \in DOMAIN alarm.work /\ alarm.work[d].phase = "routing"
              /\ alarm'.at = "refresh" /\ alarm'.back = "promote" /\ Stage' = "promote"
              /\ alarm'.d = d /\ alarm'.work = alarm.work
         /\ \A d \in Dep : StartCleanup(d) =>
              /\ d \in DOMAIN alarm.work /\ alarm.work[d].phase = "cleanup"
              /\ alarm'.at = "cleanup" /\ Stage' = "cleanup"
              /\ alarm'.d = d /\ alarm'.work = alarm.work /\ alarm'.next = alarm.work[d].prev
         /\ \A d \in Dep : StartFailure(d) =>
              /\ d \in DOMAIN alarm.work /\ alarm.work[d].phase = "failure_cleanup"
              /\ \/ Resumes
                 \/ /\ alarm'.at \in {"refresh", "candidate"} /\ Stage' = "candidate"
                    /\ alarm'.at = "refresh" => alarm'.back = "candidate"
                    /\ alarm'.d = d /\ alarm'.work = alarm.work /\ alarm'.svc = service'
                    /\ service.current # d
         /\ StopCandidate => /\ Stage = "candidate" /\ Stage' = "failed"
                             /\ alarm'.at = "stop" /\ alarm'.back = "failed"
                             /\ alarm'.d = alarm.d /\ alarm'.work = alarm.work
                             /\ alarm'.svc = alarm.svc
<1>1. alarm \in Alarms
  BY DEF Typed
<1>2. ASSUME NEW d \in Dep, Route(d)
      PROVE  /\ d \in DOMAIN alarm.work /\ alarm.work[d].phase = "routing"
             /\ alarm'.at = "refresh" /\ alarm'.back = "promote" /\ Stage' = "promote"
             /\ alarm'.d = d /\ alarm'.work = alarm.work
  BY <1>1, <1>2, TurnListed DEF Route, Refresh, Alarms, Stage, InRefresh
<1>3. ASSUME NEW d \in Dep, StartCleanup(d)
      PROVE  /\ d \in DOMAIN alarm.work /\ alarm.work[d].phase = "cleanup"
             /\ alarm'.at = "cleanup" /\ Stage' = "cleanup"
             /\ alarm'.d = d /\ alarm'.work = alarm.work /\ alarm'.next = alarm.work[d].prev
  BY <1>1, <1>3, TurnListed DEF StartCleanup, Alarms, Stage, InRefresh
<1>4. ASSUME NEW d \in Dep, StartFailure(d)
      PROVE  /\ d \in DOMAIN alarm.work /\ alarm.work[d].phase = "failure_cleanup"
             /\ \/ Resumes
                \/ /\ alarm'.at \in {"refresh", "candidate"} /\ Stage' = "candidate"
                   /\ alarm'.at = "refresh" => alarm'.back = "candidate"
                   /\ alarm'.d = d /\ alarm'.work = alarm.work /\ alarm'.svc = service'
                   /\ service.current # d
  <2>1. d \in DOMAIN alarm.work /\ alarm.work[d].phase = "failure_cleanup"
    BY <1>4, TurnListed DEF StartFailure
  <2>2. CASE \E doc : Save(d, doc)
    BY <1>1, <2>1, <2>2, ResumedAlarm DEF Resumes
  <2> DEFINE here  == [alarm EXCEPT !.d = d, !.svc = service]
             there == [here EXCEPT !.svc = Cleared(service)]
  <2>3. /\ here.d = d /\ here.work = alarm.work /\ here.svc = service
        /\ there.d = d /\ there.work = alarm.work /\ there.svc = Cleared(service)
        /\ "at" \in DOMAIN here /\ "back" \in DOMAIN here /\ DOMAIN there = DOMAIN here
        /\ "d" \in DOMAIN here /\ "work" \in DOMAIN here /\ "svc" \in DOMAIN here
    BY <1>1 DEF Alarms
  <2>4. CASE /\ service.current # d /\ service' = Cleared(service)
             /\ alarm' = Refresh(there, "candidate")
    <3> HIDE DEF here, there
    <3> QED
      BY <2>1, <2>3, <2>4 DEF Refresh, Stage, InRefresh
  <2>5. CASE /\ service.current # d /\ service' = service
             /\ alarm' \in {Refresh(here, "candidate"), [here EXCEPT !.at = "candidate"]}
    <3> HIDE DEF here, there
    <3> QED
      BY <2>1, <2>3, <2>5 DEF Refresh, Stage, InRefresh
  <2> QED
    BY <1>4, <2>2, <2>4, <2>5 DEF StartFailure
<1>5. ASSUME StopCandidate
      PROVE  /\ Stage = "candidate" /\ Stage' = "failed"
             /\ alarm'.at = "stop" /\ alarm'.back = "failed"
             /\ alarm'.d = alarm.d /\ alarm'.work = alarm.work /\ alarm'.svc = alarm.svc
  BY <1>1, <1>5 DEF StopCandidate, Stop, Alarms, Stage, InRefresh
<1> QED
  BY <1>2, <1>3, <1>4, <1>5

LEMMA CleanupNextAt ==
  ASSUME Typed, CleanupNext
  PROVE  /\ Stage = "cleanup" /\ alarm'.d = alarm.d /\ alarm'.work = alarm.work
         /\ \/ /\ alarm'.at = "cleanup" /\ Stage' = "cleanup"
               /\ alarm.next # None /\ InUse(alarm.next)
               /\ alarm'.next = deps[alarm.next].prev
            \/ /\ alarm'.at = "stop" /\ alarm'.back = "retire" /\ Stage' = "retire"
               /\ alarm.next # None /\ alarm'.next = alarm.next /\ ~InUse(alarm.next)
               /\ alarm'.jobs = Apps(deps[alarm.next], alarm.next)
            \/ /\ alarm'.at = "stop" /\ alarm'.back = "cleaned" /\ Stage' = "cleaned"
               /\ alarm'.jobs = Builds(alarm.work[alarm.d], alarm.d)
<1> HIDE DEF Apps, Builds, InUse
<1> QED
  BY DEF Typed, CleanupNext, Stop, Alarms, Stage, InRefresh

LEMMA RetireAt ==
  ASSUME Typed, Retire
  PROVE  /\ Stage = "retire" /\ alarm'.d = alarm.d /\ alarm'.work = alarm.work
         /\ alarm'.at = "cleanup" /\ Stage' = "cleanup" /\ alarm'.next = deps[alarm.next].prev
BY DEF Typed, Retire, Alarms, Stage, InRefresh

LEMMA ListServicesAt ==
  ASSUME ListServices
  PROVE  /\ alarm.at = "work" /\ DOMAIN alarm.work = {}
         /\ alarm'.svc = service /\ DOMAIN alarm'.work = {} /\ Stage' = alarm'.at
         /\ alarm'.at = IF service.status = "gone" THEN "domains" ELSE "service"
<1>1. /\ alarm'.svc = service /\ alarm'.work = Idle.work
      /\ alarm'.at = IF service.status = "gone" THEN "domains" ELSE "service"
  BY DEF ListServices, Idle
<1> QED
  BY <1>1, IdleTyped DEF ListServices, Stage, InRefresh

LEMMA ReconcileServiceAt ==
  ASSUME Typed, ReconcileService
  PROVE  /\ Stage = "service"
         /\ \/ Away
            \/ /\ alarm'.work = alarm.work /\ alarm'.svc = alarm.svc
               /\ \/ /\ alarm.svc.status = "deleting" /\ alarm'.at = "stop"
                     /\ alarm'.back = "erase" /\ Stage' = "erase" /\ alarm'.next = 1
                     /\ alarm'.jobs = JobsOf(1)
                  \/ /\ alarm.svc.status # "deleting" /\ alarm.svc.current # None
                     /\ ~alarm.busy /\ alarm.svc.promotion = None
                     /\ alarm'.at = "health" /\ Stage' = "health"
                  \/ /\ alarm.svc.status # "deleting" /\ alarm.svc.current # None
                     /\ ~alarm.busy /\ alarm.svc.promotion = alarm.svc.current
                     /\ alarm'.at = "refresh" /\ alarm'.back = "moved" /\ Stage' = "moved"
<1>0. Stage = "service"
  BY DEF ReconcileService, Stage, InRefresh
<1>1. CASE alarm' = [Idle EXCEPT !.at = "domains"]
  BY <1>0, <1>1 DEF Away
<1>2. CASE alarm.svc.status = "deleting"
  BY <1>0, <1>2 DEF Typed, ReconcileService, Stop, Alarms, Stage, InRefresh
<1>3. CASE alarm.svc.status # "deleting" /\ ~alarm.busy /\ alarm.svc.current # None
  BY <1>0, <1>1, <1>3 DEF Typed, ReconcileService, Refresh, Alarms, Stage, InRefresh
<1> QED
  BY <1>1, <1>2, <1>3 DEF ReconcileService

LEMMA NextErasedAt ==
  ASSUME Typed, NextErased
  PROVE  /\ Stage = "erase" /\ Stage' = "erase" /\ alarm'.at = "stop"
         /\ alarm'.back = "erase" /\ alarm'.next = alarm.next + 1
         /\ alarm'.next \in Dep /\ alarm'.work = alarm.work
         /\ alarm'.jobs = JobsOf(alarm.next + 1)
<1>1. /\ alarm.at = "stop" /\ alarm.back = "erase" /\ alarm.next < created /\ alarm \in Alarms
      /\ alarm.next \in Dep \union {None} /\ created \in 0..MaxDeployments
  BY TypedParts DEF NextErased, StopEnds, Alarms, Stored
<1>2. alarm.next + 1 \in Dep
  BY <1>1, DeploymentAssumption DEF Dep, None
<1> HIDE DEF JobsOf
<1>3. alarm' = Stop([alarm EXCEPT !.next = @ + 1], JobsOf(alarm.next + 1), "erase")
  BY <1>1 DEF NextErased, StopEnds
<1> QED
  BY <1>1, <1>2, <1>3 DEF Stop, Alarms, Stage, InRefresh

LEMMA MovedAt ==
  ASSUME Typed, Moved
  PROVE  /\ Stage = "moved" /\ Stage' = "health" /\ alarm'.at = "health"
         /\ alarm'.work = alarm.work /\ alarm'.svc = service'
         /\ service' = [Cleared(alarm.svc) EXCEPT !.address = alarm.svc.promoted]
<1> DEFINE s == [Cleared(alarm.svc) EXCEPT !.address = alarm.svc.promoted]
<1>1. service' = s /\ alarm' = [alarm EXCEPT !.at = "health", !.svc = s]
  BY DEF Moved
<1> HIDE DEF s
<1>2. alarm'.at = "health" /\ alarm'.svc = s /\ alarm'.work = alarm.work
  BY <1>1 DEF Typed, Alarms
<1> QED
  BY <1>1, <1>2 DEF Moved, Stage, InRefresh, s

LEMMA UnhealthyAt ==
  ASSUME Typed, Unhealthy
  PROVE  /\ Stage = "health"
         /\ \/ Away
            \/ /\ alarm'.at = "rollback" /\ Stage' = "rollback"
               /\ alarm'.work = alarm.work /\ alarm'.svc = alarm.svc
BY DEF Typed, Unhealthy, Away, Alarms, Stage, InRefresh

LEMMA HealthyAt ==
  ASSUME Typed, Healthy
  PROVE  /\ Stage = "health"
         /\ \/ Away /\ UNCHANGED service
            \/ /\ alarm'.at = "record" /\ Stage' = "record"
               /\ alarm'.work = alarm.work /\ alarm'.svc = alarm.svc
               /\ UNCHANGED service
            \/ /\ alarm'.at = "refresh" /\ alarm'.back = "rerouted"
               /\ Stage' = "rerouted" /\ alarm'.work = alarm.work
               /\ alarm'.svc = service' /\ service.promotion = None /\ ~Superseded
               /\ service' = [service EXCEPT !.promotion = alarm.svc.current,
                                !.promoted = Where(alarm.svc.current)]
<1> DEFINE s == [service EXCEPT !.promotion = alarm.svc.current,
                                !.promoted = Where(alarm.svc.current)]
<1>1. \/ Away /\ UNCHANGED service
      \/ alarm' = [alarm EXCEPT !.at = "record"] /\ UNCHANGED service
      \/ /\ ~Superseded /\ service.promotion = None /\ service' = s
         /\ alarm' = Refresh([alarm EXCEPT !.svc = s], "rerouted")
  BY DEF Healthy, Away
<1> HIDE DEF s
<1>2. Stage = "health" /\ alarm \in Alarms
  BY DEF Typed, Healthy, Stage, InRefresh
<1>3. CASE alarm' = [alarm EXCEPT !.at = "record"] /\ UNCHANGED service
  BY <1>2, <1>3 DEF Alarms, Stage, InRefresh
<1>4. CASE /\ ~Superseded /\ service.promotion = None /\ service' = s
           /\ alarm' = Refresh([alarm EXCEPT !.svc = s], "rerouted")
  <2>1. alarm'.at = "refresh" /\ alarm'.back = "rerouted" /\ alarm'.svc = s
        /\ alarm'.work = alarm.work
    BY <1>2, <1>4 DEF Refresh, Alarms
  <2> QED
    BY <1>2, <1>4, <2>1 DEF Stage, InRefresh, s
<1> QED
  BY <1>1, <1>2, <1>3, <1>4

LEMMA ReroutedAt ==
  ASSUME Typed, Rerouted
  PROVE  /\ Stage = "rerouted" /\ Stage' = "record" /\ alarm'.at = "record"
         /\ alarm'.work = alarm.work
         /\ alarm'.svc = [Cleared(alarm.svc) EXCEPT !.address = alarm.svc.promoted]
<1> DEFINE s == [Cleared(alarm.svc) EXCEPT !.address = alarm.svc.promoted]
<1>1. alarm' = [alarm EXCEPT !.at = "record", !.svc = s]
  BY DEF Typed, Rerouted, Alarms
<1> HIDE DEF s
<1>2. alarm'.at = "record" /\ alarm'.svc = s /\ alarm'.work = alarm.work
  BY <1>1 DEF Typed, Alarms
<1> QED
  BY <1>1, <1>2 DEF Rerouted, Stage, InRefresh, s

LEMMA ReconcileDomainsAt ==
  ASSUME Typed, ReconcileDomains
  PROVE  /\ alarm.at = "domains"
         /\ \/ Away
            \/ /\ alarm'.at = "refresh" /\ alarm'.back = "probe" /\ Stage' = "probe"
               /\ alarm'.work = alarm.work /\ domain = "pending"
BY DEF Typed, ReconcileDomains, Away, Refresh, Alarms, Stage, InRefresh

LEMMA HoldsKept ==
  ASSUME Typed, Holds, Documents, [Next]_vars
  PROVE  Holds'
<1>1. alarm \in Alarms /\ service \in Service /\ alarm.svc \in Service
  BY TypedParts DEF Stored, Alarms
<1>2. CASE UNCHANGED alarm
  BY <1>2 DEF Holds, Stage
<1>3. CASE Away \/ Resumes \/ AlarmStarts
  BY <1>1, <1>3, AtRest DEF Holds, InRefresh, OnDeployment, OnService
<1>4. CASE Inner
  <2>1. alarm.back \in ByRefresh \/ alarm.back \in ByStop
    BY <1>4 DEF Inner, Holds
  <2> QED
    BY <1>4, <2>1 DEF Inner, Holds, InRefresh, ByRefresh, ByStop
<1>5. ASSUME NEW d \in Dep, Route(d) \/ StartCleanup(d) \/ StartFailure(d) PROVE Holds'
  BY <1>3, <1>5, BeginsAt
  DEF Holds, InRefresh, OnDeployment, OnService, PhaseAt, ByRefresh
<1>6. CASE StopCandidate \/ CleanupNext \/ Retire
  BY <1>6, BeginsAt, CleanupNextAt, RetireAt
  DEF Holds, InRefresh, OnDeployment, OnService, PhaseAt, ByStop
<1>7. CASE ListServices \/ ReconcileService \/ NextErased
  <2>1. None \notin Dep /\ 1 # None
    BY DeploymentAssumption DEF Dep, None
  <2> QED
    BY <1>3, <1>7, <2>1, ListServicesAt, ReconcileServiceAt, NextErasedAt
    DEF Holds, InRefresh, OnDeployment, OnService, ByStop, ByRefresh
<1>8. CASE Moved
  <2>1. service'.current = alarm.svc.current
    BY <1>1, <1>8, MovedAt DEF Cleared, Service
  <2> QED
    BY <1>8, <2>1, MovedAt DEF Holds, InRefresh, OnDeployment, OnService
<1>9. CASE Rerouted
  <2>1. alarm'.svc.current = alarm.svc.current
    BY <1>1, <1>9, ReroutedAt DEF Cleared, Service
  <2> QED
    BY <1>9, <2>1, ReroutedAt DEF Holds, InRefresh, OnDeployment, OnService
<1>10. CASE Healthy
  <2>1. alarm.svc.current # None
    BY <1>10, HealthyAt DEF Holds, OnService
  <2>2. Stage' = "rerouted" /\ alarm'.at = "refresh" => alarm'.svc.current # None
    BY <1>1, <1>3, <1>10, <2>1, HealthyAt, AtRest DEF Superseded, Service
  <2> QED
    BY <1>3, <1>10, <2>1, <2>2, HealthyAt
    DEF Holds, InRefresh, OnDeployment, OnService, ByRefresh
<1>11. CASE Unhealthy \/ ReconcileDomains
  BY <1>3, <1>11, UnhealthyAt, ReconcileDomainsAt
  DEF Holds, InRefresh, OnDeployment, OnService, ByRefresh
<1> QED
  BY <1>2, <1>3, <1>4, <1>5, <1>6, <1>7, <1>8, <1>9, <1>10, <1>11, AlarmSteps DEF Begins
-----------------------------------------------------------------------------
(* The documents agree, and only the latest deployment is active.          *)

\* The steps that change no document of a deployment keep or drop held ones.
LEMMA WorkKept ==
  ASSUME Typed, Holds, Documents, [Next]_vars, ~AlarmStarts
  PROVE  /\ alarm'.work = alarm.work \/ Resumes \/ DOMAIN alarm'.work = {}
         /\ DOMAIN alarm'.work \subseteq DOMAIN alarm.work
         /\ \A d \in DOMAIN alarm'.work : alarm'.work[d] = alarm.work[d]
<1>1. alarm \in Alarms /\ alarm.work \in Works
  BY DEF Typed, Alarms
<1>2. CASE UNCHANGED alarm \/ Inner
  BY <1>2 DEF Inner
<1>3. CASE Away
  BY <1>1, <1>3, AtRest
<1>4. CASE Resumes
  <2>1. PICK d \in DOMAIN alarm.work : alarm'.work = Drop(alarm.work, d)
    BY <1>1, <1>4, ResumedTyped DEF Resumes
  <2>2. /\ DOMAIN Drop(alarm.work, d) = DOMAIN alarm.work \ {d}
        /\ \A e \in DOMAIN Drop(alarm.work, d) : Drop(alarm.work, d)[e] = alarm.work[e]
    BY <1>1, Dropped
  <2> QED
    BY <1>4, <2>1, <2>2
<1>5. CASE Begins
  <2>1. alarm'.work = alarm.work \/ Resumes \/ DOMAIN alarm'.work = {} \/ Away
    BY <1>5, BeginsAt, CleanupNextAt, RetireAt, ListServicesAt, ReconcileServiceAt, NextErasedAt,
       MovedAt, UnhealthyAt, HealthyAt, ReroutedAt, ReconcileDomainsAt DEF Begins
  <2> QED
    BY <1>3, <1>4, <2>1
<1> QED
  BY <1>2, <1>3, <1>4, <1>5, AlarmSteps

LEMMA StoredDocs ==
  ASSUME Typed, Holds, Documents, Latest, [Next]_vars
  PROVE  \A d \in Dep : PhaseOf(deps'[d]) /\ (d > created' => deps'[d] = NoDoc)
<1>1. deps \in [Dep -> Doc] /\ created \in 0..MaxDeployments /\ alarm \in Alarms
  BY TypedParts DEF Stored
<1>2. CASE Saves /\ UNCHANGED created
  <2>1. PICK d, doc : d \in DOMAIN alarm.work /\ Advance(alarm.work[d], doc) /\ Save(d, doc)
    BY <1>2 DEF Saves
  <2>2. d \in Dep /\ deps[d].phase # "done" /\ PhaseOf(doc)
    BY <1>1, <2>1, WorksOf DEF Alarms, Documents, Advance
  <2>3. ~(d > created)
    BY <2>2 DEF Documents, NoDoc
  <2>4. \A e \in Dep : deps'[e] = IF e = d THEN doc ELSE deps[e]
    BY <1>1, <2>1 DEF Save
  <2> QED
    BY <1>2, <2>2, <2>3, <2>4 DEF Documents
<1>3. CASE Queues
  <2>1. PICK r \in Dep \union {None} : queueDeployment(r)
    BY <1>3 DEF Queues
  <2> DEFINE new == [NoDoc EXCEPT !.status = "queued", !.phase = "prepare", !.rollback = r,
                                  !.prev = service.current]
  <2>2. PhaseOf(new)
    BY DEF PhaseOf, NoDoc, ACTIVE, Undecided, Short
  <2>3. deps' = [deps EXCEPT ![created + 1] = new] /\ created' = created + 1
    BY <2>1 DEF queueDeployment
  <2> HIDE DEF new
  <2>4. \A e \in Dep : deps'[e] = IF e = created + 1 THEN new ELSE deps[e]
    BY <1>1, <2>3
  <2>5. \A e \in Dep : e > created' => e > created /\ e # created + 1
    BY <1>1, <2>3, DeploymentAssumption DEF Dep
  <2> QED
    BY <2>2, <2>4, <2>5 DEF Documents
<1>4. CASE Retire
  <2>1. /\ alarm.next \in Dep /\ alarm.d \in Dep /\ alarm.next < alarm.d /\ UNCHANGED created
        /\ alarm.work[alarm.d].phase = "cleanup" /\ alarm.d \in DOMAIN alarm.work
    BY <1>1, <1>4, WorksOf
    DEF Retire, Holds, Stage, InRefresh, OnDeployment, PhaseAt, Latest, Alarms
  <2>2. ~(alarm.d > created)
    BY <2>1 DEF Documents, NoDoc
  <2>3. alarm.next < created
    BY <1>1, <2>1, <2>2, DeploymentAssumption DEF Dep
  <2>4. deps[alarm.next].status \notin ACTIVE
    BY <1>1, <2>1, <2>3, DeploymentAssumption DEF Latest, Dep
  <2>5. PhaseOf([deps[alarm.next] EXCEPT !.status = "rolled_back"])
    <3>1. deps[alarm.next] \in Doc /\ PhaseOf(deps[alarm.next])
      BY <1>1, <2>1 DEF Documents
    <3> QED
      BY <2>4, <3>1 DEF PhaseOf, Doc, ACTIVE
  <2>6. ~(alarm.next > created)
    BY <1>1, <2>1, <2>3, DeploymentAssumption DEF Dep
  <2>7. \A e \in Dep : deps'[e] = IF e = alarm.next THEN [deps[e] EXCEPT !.status = "rolled_back"]
                                  ELSE deps[e]
    BY <1>1, <1>4, <2>1 DEF Retire
  <2> QED
    BY <2>1, <2>5, <2>6, <2>7 DEF Documents
<1>5. CASE Erase
  BY <1>5 DEF Erase, PhaseOf, NoDoc, ACTIVE, Undecided, Short
<1>6. CASE UNCHANGED <<deps, created>>
  BY <1>6 DEF Documents
<1> QED
  BY <1>2, <1>3, <1>4, <1>5, <1>6, Writes

LEMMA DocumentsKept ==
  ASSUME Typed, Holds, Documents, Latest, [Next]_vars
  PROVE  Documents'
<1>1. /\ deps \in [Dep -> Doc] /\ created \in 0..MaxDeployments /\ alarm \in Alarms
      /\ alarm.work \in Works /\ DOMAIN alarm.work \subseteq Dep
  BY TypedParts, WorksOf DEF Stored, Alarms
<1>2. \A d \in DOMAIN alarm'.work :
        PhaseOf(alarm'.work[d]) /\ Same(alarm'.work[d], deps'[d]) /\ deps'[d].phase # "done"
  <2>1. CASE AlarmStarts
    <3>1. alarm'.work = [d \in {e \in Dep : deps[e].phase # "done"} |-> deps[d]]
          /\ UNCHANGED deps
      BY <2>1 DEF AlarmStarts, Idle, stored
    <3> QED
      BY <3>1 DEF Documents, Same
  <2>2. CASE ~AlarmStarts /\ UNCHANGED deps
    BY <2>2, WorkKept DEF Documents
  <2>3. CASE Saves
    <3>1. PICK d, doc : d \in DOMAIN alarm.work /\ Advance(alarm.work[d], doc) /\ Save(d, doc)
      BY <2>3 DEF Saves
    <3>2. \A e \in Dep \ {d} : deps'[e] = deps[e]
      BY <1>1, <3>1 DEF Save
    <3>3. DOMAIN alarm'.work = DOMAIN alarm.work \ {d}
          /\ \A e \in DOMAIN alarm'.work : alarm'.work[e] = alarm.work[e]
      <4>1. alarm'.work = Drop(alarm.work, d)
        BY <1>1, <3>1, ResumedTyped DEF Save
      <4>2. /\ DOMAIN Drop(alarm.work, d) = DOMAIN alarm.work \ {d}
            /\ \A e \in DOMAIN Drop(alarm.work, d) : Drop(alarm.work, d)[e] = alarm.work[e]
        BY <1>1, Dropped
      <4> QED
        BY <4>1, <4>2
    <3> QED
      BY <1>1, <3>2, <3>3 DEF Documents
  <2>4. CASE Queues
    <3>1. created' = created + 1 /\ \A e \in Dep : e # created + 1 => deps'[e] = deps[e]
      BY <1>1, <2>4 DEF Queues, queueDeployment
    <3>2. \A e \in DOMAIN alarm.work : e # created + 1
      BY <1>1, DeploymentAssumption DEF Documents, NoDoc, Dep
    <3>3. alarm'.work = alarm.work \/ DOMAIN alarm'.work = {}
      BY <1>1, <2>4, AtRest DEF Queues, Away
    <3> QED
      BY <1>1, <3>1, <3>2, <3>3 DEF Documents
  <2>5. CASE Retire
    <3>1. alarm'.work = alarm.work /\ alarm.next \in Dep
      BY <1>1, <2>5, RetireAt DEF Holds, Alarms
    <3>2. \A e \in Dep : Same(deps[e], deps'[e])
      <4>1. \A e \in Dep : deps[e] \in Doc /\ deps'[e] = IF e = alarm.next
              THEN [deps[e] EXCEPT !.status = "rolled_back"] ELSE deps[e]
        BY <1>1, <2>5, <3>1 DEF Retire
      <4>2. \A doc \in Doc : Same(doc, doc) /\ Same(doc, [doc EXCEPT !.status = "rolled_back"])
        BY DEF Same, Doc
      <4> QED
        BY <4>1, <4>2
    <3> QED
      BY <1>1, <3>1, <3>2 DEF Documents, Same
  <2>6. CASE Erase
    BY <1>1, <2>6, AtRest DEF Erase, Away
  <2> QED
    BY <2>1, <2>2, <2>3, <2>4, <2>5, <2>6, Writes DEF AlarmStarts, stored
<1>3. Stage' \notin {"work"} \union OnDeployment => DOMAIN alarm'.work = {}
  <2>1. CASE AlarmStarts \/ Away \/ Resumes
    BY <1>1, <2>1, AtRest
  <2>2. CASE UNCHANGED alarm \/ Inner
    BY <2>2 DEF Inner, Stage, Documents
  <2>3. CASE Begins
    BY <2>1, <2>3, BeginsAt, CleanupNextAt, RetireAt, ListServicesAt, ReconcileServiceAt,
       NextErasedAt, MovedAt, UnhealthyAt, HealthyAt, ReroutedAt, ReconcileDomainsAt
    DEF Begins, Documents, OnDeployment, Stage, InRefresh
  <2> QED
    BY <2>1, <2>2, <2>3, AlarmSteps
<1> QED
  BY <1>2, <1>3, StoredDocs DEF Documents

LEMMA ThrowsCurrent ==
  ASSUME Typed, NEW kind, Throw(kind)
  PROVE  service'.current \in {service.current, alarm.svc.current}
BY DEF Throw, Typed, TypeOK, Service

\* Where the current release of the new document of a service comes from.
LEMMA CurrentFrom ==
  ASSUME Typed, Holds, Documents, [Next]_vars
  PROVE  \/ service'.current \in {service.current, alarm.svc.current, edit.current, None}
         \/ Promote /\ service'.current = alarm.d
<1>1. service \in Service /\ edit \in Service /\ alarm.svc \in Service
  BY TypedParts DEF Stored, Alarms
<1>2. \A s \in Service : Cleared(s) \in Service /\ Cleared(s).current = s.current
  <2>1. \A s \in Service : Cleared(s) \in Service
    BY InService
  <2>2. \A s \in Service : Cleared(s).current = s.current
    BY DEF Cleared, Service
  <2> QED
    BY <2>1, <2>2
<1>3. ASSUME NEW d \in Dep, Phase(d) PROVE service'.current = service.current
  BY <1>1, <1>2, <1>3
  DEF Phase, DeadlineExceeded, Interrupted, Rejected, Prepare, SubmitBuild, BuildEnds,
      PrepareApp, SubmitApp, NotYet, observeApplication, Route, StartCleanup, StartFailure,
      ensureJob, stored, Service
<1>4. CASE Configure \/ Apply \/ Ack
  BY <1>1, <1>4, ThrowsCurrent DEF Configure, Apply, Ack
<1>5. CASE Promote
  <2>1. \/ service' = service
        \/ service' = [Cleared(service) EXCEPT !.current = alarm.d,
             !.address = alarm.work[alarm.d].address, !.status = "healthy", !.unhealthy = FALSE]
    BY <1>5 DEF Promote
  <2> DEFINE new == [Cleared(service) EXCEPT !.current = alarm.d,
             !.address = alarm.work[alarm.d].address, !.status = "healthy", !.unhealthy = FALSE]
  <2>2. new.current = alarm.d
    BY <1>1, <1>2 DEF Service
  <2> HIDE DEF new
  <2>3. service' = service \/ service' = new
    BY <2>1 DEF new
  <2> QED
    BY <1>5, <2>2, <2>3
<1>6. CASE Failed \/ Erase \/ AutomaticRollback \/ HealthFails \/ Unhealthy
  <2>1. /\ [alarm.svc EXCEPT !.status = "degraded"].current = alarm.svc.current
        /\ [alarm.svc EXCEPT !.status = "failed"].current = alarm.svc.current
        /\ [service EXCEPT !.status = "degraded", !.unhealthy = TRUE].current = service.current
    BY <1>1 DEF Service
  <2>2. CASE Failed
    BY <1>1, <2>1, <2>2 DEF Failed
  <2>3. CASE Erase
    BY <2>3 DEF Erase, NoService
  <2>4. CASE AutomaticRollback
    BY <1>1, <2>1, <2>4 DEF AutomaticRollback, stored
  <2>5. CASE HealthFails
    BY <1>1, <2>1, <2>5 DEF HealthFails
  <2>6. CASE Unhealthy
    BY <1>1, <2>1, <2>6 DEF Unhealthy
  <2> QED
    BY <1>6, <2>2, <2>3, <2>4, <2>5, <2>6
<1>7. CASE Moved \/ RecordHealth
  <2>1. \A s \in Service : \A a : /\ [s EXCEPT !.address = a].current = s.current
                                     /\ [s EXCEPT !.address = a, !.status = "healthy",
                                                  !.unhealthy = FALSE].current = s.current
    BY DEF Service
  <2>2. CASE Moved
    BY <1>1, <1>2, <2>1, <2>2 DEF Moved
  <2>3. CASE RecordHealth
    BY <1>1, <1>2, <2>1, <2>3 DEF RecordHealth
  <2> QED
    BY <1>7, <2>2, <2>3
<1>8. CASE Healthy
  BY <1>1, <1>8 DEF Healthy, Service
<1>9. CASE User
  BY <1>1, <1>9
  DEF User, Deploy, Rollback, removeService, EditRead, EditSave, Service, stored
<1>10. CASE Alarm
  BY <1>3, <1>4, <1>5, <1>6, <1>7, <1>8, <1>10
  DEF Alarm, AlarmStarts, StopWorks, StopFails, StopEnds, CleanupNext, Retire, Cleaned,
      StopCandidate, ListServices, ReconcileService, Rerouted, ReconcileDomains, Probe, stored
<1>11. CASE Environment \/ Evicted
  BY <1>11 DEF Environment, Place, Nomad, Exit, Move, Connect, Deadline, Evicted, stored
<1> QED
  BY <1>9, <1>10, <1>11 DEF Next, vars

LEMMA EditFrom ==
  ASSUME [Next]_vars PROVE edit' \in {edit, service, NoService}
<1>1. ASSUME NEW d \in Dep, Phase(d) PROVE UNCHANGED edit
  BY <1>1
  DEF Phase, DeadlineExceeded, Interrupted, Rejected, Prepare, SubmitBuild, BuildEnds,
      PrepareApp, SubmitApp, NotYet, observeApplication, Route, StartCleanup, StartFailure,
      ensureJob
<1> QED
  BY <1>1
  DEF Next, vars, User, Deploy, Rollback, removeService, EditRead, EditSave, Evicted,
      Alarm, AlarmStarts, Configure, Apply, Ack, Promote, StopWorks, StopFails, StopEnds,
      CleanupNext, Retire, Cleaned, StopCandidate, Failed, ListServices, ReconcileService,
      Erase, Moved, Unhealthy, AutomaticRollback, Healthy, Rerouted, RecordHealth, HealthFails,
      ReconcileDomains, Probe, Environment, Place, Nomad, Exit, Move, Connect, Deadline

\* What the alarm holds of the service is a document the service has or had.
LEMMA SvcFrom ==
  ASSUME Typed, Holds, Documents, [Next]_vars
  PROVE  \/ alarm'.svc \in {alarm.svc, service, service', NoService}
         \/ Rerouted /\ alarm'.svc.current = alarm.svc.current
<1>1. alarm \in Alarms /\ alarm.svc \in Service
  BY TypedParts DEF Stored, Alarms
<1>2. CASE UNCHANGED alarm \/ Inner \/ Away \/ Resumes \/ AlarmStarts
  BY <1>1, <1>2, AtRest DEF Inner
<1>3. CASE Rerouted
  BY <1>1, <1>3, ReroutedAt DEF Cleared, Service
<1>4. ASSUME NEW d \in Dep, Route(d) \/ StartCleanup(d) PROVE alarm'.svc = alarm.svc
  BY <1>1, <1>4 DEF Route, StartCleanup, Refresh, Alarms
<1>5. CASE StopCandidate \/ CleanupNext \/ Retire \/ NextErased
  BY <1>1, <1>5
  DEF StopCandidate, CleanupNext, Retire, NextErased, StopEnds, Stop, Alarms
<1>6. CASE ReconcileDomains
  BY <1>1, <1>2, <1>6 DEF ReconcileDomains, Refresh, Alarms, Away
<1> QED
  BY <1>2, <1>3, <1>4, <1>5, <1>6, AlarmSteps, BeginsAt, ListServicesAt, ReconcileServiceAt,
     MovedAt, UnhealthyAt, HealthyAt DEF Begins

LEMMA LatestDeps ==
  ASSUME Typed, Holds, Documents, Latest, [Next]_vars
  PROVE  /\ created <= created'
         /\ \A d \in Dep : (deps'[d].status \in ACTIVE => d = created') /\ deps'[d].prev < d
<1>1. deps \in [Dep -> Doc] /\ created \in 0..MaxDeployments /\ alarm \in Alarms
  BY TypedParts DEF Stored
<1>2. CASE Saves /\ UNCHANGED created
  <2>1. PICK d, doc : d \in DOMAIN alarm.work /\ Advance(alarm.work[d], doc) /\ Save(d, doc)
    BY <1>2 DEF Saves
  <2>2. d \in Dep
    BY <1>1, <2>1, WorksOf DEF Alarms
  <2>3. doc.status \in ACTIVE => d = created
    <3>1. alarm.work[d].status \in ACTIVE => deps[d].status \in ACTIVE
      BY <2>1, <2>2 DEF Documents, PhaseOf, Same
    <3> QED
      BY <2>1, <2>2, <3>1 DEF Advance, Latest
  <2>4. doc.prev < d
    BY <2>1, <2>2 DEF Advance, Documents, Same, Latest
  <2>5. \A e \in Dep : deps'[e] = IF e = d THEN doc ELSE deps[e]
    BY <1>1, <2>1 DEF Save
  <2> QED
    BY <1>1, <1>2, <2>3, <2>4, <2>5 DEF Latest
<1>3. CASE Queues
  <2>1. PICK r \in Dep \union {None} : queueDeployment(r)
    BY <1>3 DEF Queues
  <2> DEFINE new == [NoDoc EXCEPT !.status = "queued", !.phase = "prepare", !.rollback = r,
                                  !.prev = service.current]
  <2>2. new.prev = service.current
    BY DEF NoDoc
  <2>3. deps' = [deps EXCEPT ![created + 1] = new] /\ created' = created + 1
    BY <2>1 DEF queueDeployment
  <2> HIDE DEF new
  <2>4. \A e \in Dep : deps'[e] = IF e = created + 1 THEN new ELSE deps[e]
    BY <1>1, <2>3
  <2>5. \A e \in Dep : deps[e].status \notin ACTIVE
    BY <1>3 DEF Queues, MayQueue
  <2>6. service.current \in 0..MaxDeployments
    <3>1. service.current \in Dep \union {None}
      BY InService, TypedParts DEF Stored
    <3> QED
      BY <3>1, DeploymentAssumption DEF Dep, None
  <2>7. service.current < created + 1
    <3>1. service.current <= created
      BY DEF Latest
    <3> QED
      BY <1>1, <2>6, <3>1, DeploymentAssumption
  <2> QED
    BY <1>1, <2>2, <2>3, <2>4, <2>5, <2>7 DEF Latest
<1>4. CASE Retire
  <2>1. alarm.next \in Dep /\ UNCHANGED created
    BY <1>1, <1>4, RetireAt DEF Retire, Holds, Alarms
  <2>2. \A e \in Dep : deps[e] \in Doc /\ deps'[e] = IF e = alarm.next
              THEN [deps[e] EXCEPT !.status = "rolled_back"] ELSE deps[e]
    BY <1>1, <1>4, <2>1 DEF Retire
  <2>3. \A doc \in Doc : [doc EXCEPT !.status = "rolled_back"].status \notin ACTIVE
                         /\ [doc EXCEPT !.status = "rolled_back"].prev = doc.prev
    BY DEF Doc, ACTIVE
  <2>4. ASSUME NEW e \in Dep
        PROVE  (deps'[e].status \in ACTIVE => e = created') /\ deps'[e].prev < e
    <3>1. deps[e] \in Doc /\ (deps[e].status \in ACTIVE => e = created) /\ deps[e].prev < e
      BY <2>2 DEF Latest
    <3>2. CASE e = alarm.next
      BY <2>2, <2>3, <3>1, <3>2
    <3>3. CASE e # alarm.next
      BY <2>1, <2>2, <3>1, <3>3
    <3> QED
      BY <3>2, <3>3
  <2> QED
    BY <1>1, <2>1, <2>4
<1>5. CASE Erase
  <2>1. \A d \in Dep : 0 < d
    BY DeploymentAssumption DEF Dep
  <2> QED
    BY <1>1, <1>5, <2>1 DEF Erase, NoDoc, ACTIVE, None
<1>6. CASE UNCHANGED <<deps, created>>
  BY <1>1, <1>6 DEF Latest
<1> QED
  BY <1>2, <1>3, <1>4, <1>5, <1>6, Writes

LEMMA LatestKept ==
  ASSUME Typed, Holds, Documents, Latest, [Next]_vars
  PROVE  Latest'
<1>1. /\ deps \in [Dep -> Doc] /\ created \in Nat /\ created' \in Nat /\ alarm \in Alarms
      /\ service \in Service /\ edit \in Service /\ alarm.svc \in Service
      /\ DOMAIN alarm.work \subseteq Dep
  <2>1. created \in 0..MaxDeployments /\ created' \in 0..MaxDeployments
    BY TypedParts, DepsTyped DEF Stored
  <2>2. created \in Nat /\ created' \in Nat
    BY <2>1, DeploymentAssumption
  <2> QED
    BY <2>2, TypedParts, WorksOf DEF Stored, Alarms
<1>2. \A s \in Service : s.current \in Nat
  BY DeploymentAssumption DEF Service, Dep, None
<1>3. created <= created'
  BY LatestDeps
<1>4. \A n \in Nat : n <= created => n <= created'
  BY <1>1, <1>3
<1>5. service'.current <= created'
  <2>1. CASE Promote /\ service'.current = alarm.d
    <3>1. alarm.d \in Dep /\ deps[alarm.d].phase # "done"
      BY <1>1, <2>1
      DEF Promote, Holds, Stage, InRefresh, OnDeployment, Documents
    <3>2. ~(alarm.d > created)
      BY <3>1 DEF Documents, NoDoc
    <3>3. alarm.d \in Nat
      BY <3>1, DeploymentAssumption DEF Dep
    <3> QED
      BY <1>1, <1>4, <2>1, <3>2, <3>3
  <2>2. CASE service'.current \in {service.current, alarm.svc.current, edit.current, None}
    BY <1>1, <1>2, <1>4, <2>2 DEF Latest, None
  <2> QED
    BY <2>1, <2>2, CurrentFrom
<1>6. edit'.current <= created'
  BY <1>1, <1>2, <1>4, EditFrom DEF Latest, NoService, None
<1>7. alarm'.svc.current <= created'
  BY <1>1, <1>2, <1>4, <1>5, SvcFrom DEF Latest, NoService, None
<1>8. ASSUME Stage' \in {"cleanup", "retire"} PROVE alarm'.next < alarm'.d
  <2>1. CASE UNCHANGED alarm \/ Inner
    BY <1>8, <2>1 DEF Inner, Stage, Latest
  <2>2. CASE Away \/ Resumes \/ AlarmStarts
    BY <1>1, <1>8, <2>2, AtRest
  <2>3. ASSUME NEW d \in Dep, StartCleanup(d) PROVE alarm'.next < alarm'.d
    <3>1. alarm'.next = deps[d].prev /\ alarm'.d = d
      BY <2>3, BeginsAt DEF Documents, Same
    <3> QED
      BY <3>1 DEF Latest
  <2>4. CASE CleanupNext \/ Retire
    <3>1. alarm.next < alarm.d /\ alarm'.d = alarm.d
      BY <2>4, CleanupNextAt, RetireAt DEF Latest
    <3>2. CASE alarm'.next = alarm.next
      BY <3>1, <3>2
    <3>3. CASE alarm.next # None /\ alarm'.next = deps[alarm.next].prev
      <4>1. alarm.next \in Dep /\ deps[alarm.next].prev < alarm.next
        BY <1>1, <3>3 DEF Alarms, Latest
      <4>2. deps[alarm.next].prev \in Int /\ alarm.next \in Int /\ alarm.d \in Int
        <5>1. deps[alarm.next].prev \in Dep \union {None} /\ alarm.d \in Dep \union {None}
          BY <1>1, <4>1 DEF Doc, Alarms
        <5> QED
          BY <4>1, <5>1, DeploymentAssumption DEF Dep, None
      <4> QED
        BY <3>1, <3>3, <4>1, <4>2
    <3> QED
      BY <1>8, <2>4, <3>2, <3>3, CleanupNextAt, RetireAt DEF Holds
  <2>5. CASE Begins
    BY <1>8, <2>2, <2>3, <2>4, <2>5, BeginsAt, ListServicesAt, ReconcileServiceAt,
       NextErasedAt, MovedAt, UnhealthyAt, HealthyAt, ReroutedAt, ReconcileDomainsAt DEF Begins
  <2> QED
    BY <2>1, <2>2, <2>5, AlarmSteps
<1> QED
  BY <1>5, <1>6, <1>7, <1>8, LatestDeps DEF Latest

LEMMA InitActive == Init => ActiveInv
<1> SUFFICES ASSUME Init PROVE ActiveInv
  OBVIOUS
<1>1. Typed
  BY InitTyped
<1>2. alarm = Idle /\ edit = NoService
  BY DEF Init
<1>3. Stage = "idle" /\ alarm.svc = NoService /\ DOMAIN alarm.work = {} /\ alarm.at = "idle"
  BY <1>2, IdleFields, IdleTyped DEF Stage, InRefresh
<1>4. Holds
  BY <1>3 DEF Holds, InRefresh, OnDeployment, OnService
<1>5. /\ \A d \in Dep : deps[d].phase = "done" /\ deps[d].status \notin ACTIVE
                        /\ deps[d].prev = None
      /\ \A d \in Dep : d > created => deps[d] = NoDoc
      /\ service.current <= created
  <2>1. 1 \in Dep /\ \A d \in Dep : d > 0 /\ (d = 1 => ~(d > 1))
    BY DeploymentAssumption DEF Dep
  <2> QED
    BY <2>1 DEF Init, NoDoc, NoService, ACTIVE, None
<1>6. Documents
  BY <1>3, <1>5 DEF Documents, PhaseOf, Undecided, Short
<1>7. Latest
  <2>1. \A d \in Dep : 0 < d
    BY DeploymentAssumption DEF Dep
  <2>2. 0 <= created
    BY <1>1, DeploymentAssumption, TypedParts DEF Stored
  <2> QED
    BY <1>2, <1>3, <1>5, <2>1, <2>2 DEF Latest, NoService, None
<1> QED
  BY <1>1, <1>4, <1>6, <1>7 DEF ActiveInv

LEMMA ActiveKept == ActiveInv /\ [Next]_vars => ActiveInv'
<1> SUFFICES ASSUME ActiveInv, [Next]_vars PROVE ActiveInv'
  OBVIOUS
<1>1. Typed'
  <2>1. Stored' /\ Counted' /\ Outside' /\ alarm' \in Alarms
    BY DepsTyped, ServiceTyped, CountedKept, OutsideKept, AlarmTyped DEF ActiveInv, Stored
  <2>2. Typed' <=> Stored' /\ Outside' /\ Counted' /\ (alarm \in Alarms)'
    <3>1. (alarm \in Alarms)' =>
            /\ alarm'.at \in Places /\ alarm'.d \in Dep \union {None}
            /\ DOMAIN alarm'.work \subseteq Dep
            /\ \A d \in DOMAIN alarm'.work : alarm'.work[d] \in Doc
            /\ alarm'.svc \in Service /\ alarm'.target \in Address
      BY WorksOf DEF Alarms
    <3> QED
      BY <3>1 DEF Typed, TypeOK, Stored, Outside, Counted
  <2> QED
    BY <2>1, <2>2
<1> QED
  BY <1>1, HoldsKept, DocumentsKept, LatestKept DEF ActiveInv

\* TypeOK for any number of deployments, failures, moves and edits: every
\* document keeps its shape, and so does what the alarm holds between its steps.
THEOREM DeploymentTyped == Spec => []TypeOK
<1>1. ActiveInv => TypeOK
  BY DEF ActiveInv, Typed
<1> QED
  BY <1>1, InitActive, ActiveKept, PTL DEF Spec

\* A service never has two deployments in progress, whoever creates them: users,
\* stale edits or the automatic rollback (runtime.ts, queueDeployment).
THEOREM OneActiveAlways == Spec => []OneActive
<1>1. ActiveInv => OneActive
  BY DEF ActiveInv, Latest, OneActive
<1> QED
  BY <1>1, InitActive, ActiveKept, PTL DEF Spec

-----------------------------------------------------------------------------
(***************************************************************************)
(* Which release a service counts as its own, which one its visitors       *)
(* reach, and what is stopped.  A PUT of the service that was read long    *)
(* ago can undo any of this: MaxEdits = 0.                                 *)
(***************************************************************************)

\* A reservation and an address name their release.
Reserved(s) ==
  /\ s.promotion = None => s.promoted = Nowhere
  /\ s.promotion # None => s.promoted # Nowhere /\ s.promoted[1] = s.promotion
  /\ s.address # Nowhere => s.address[1] = s.current

Owner ==
  /\ Reserved(service) /\ Reserved(alarm.svc)
  /\ service.promotion \notin {None, service.current} =>
       /\ deps[service.promotion].phase \in {"routing", "failure_cleanup"}
       /\ deps[service.promotion].address = service.promoted
  /\ service.current # None =>
       /\ deps[service.current].phase \in {"cleanup", "done"}
       /\ deps[service.current].address # Nowhere

\* What the alarm holds of the service is the service, until it is removed.
OfService ==
  /\ Stage \in OnService => alarm.svc.current = service.current
  /\ Stage \in {"service", "moved", "rerouted"} =>
       alarm.svc.promotion = service.promotion /\ alarm.svc.promoted = service.promoted
  /\ Stage \in {"moved", "rerouted"} => alarm.svc.promotion = alarm.svc.current
  /\ Stage \in {"health", "rollback", "record"} => alarm.svc.promotion = None
  /\ Stage \in {"health", "rollback"} => service.promotion = None
  /\ Stage = "record" => service.promotion \in {None, service.current}
  /\ Stage \in {"candidate", "failed"} =>
       alarm.d \notin {service.current, service.promotion} /\ alarm.svc = service
  /\ Stage = "service" => /\ alarm.svc.status # "gone"
                          /\ alarm.svc.status = "deleting" => service.status = "deleting"
  /\ Stage \in OnService \ {"service"} => alarm.svc.status \notin {"gone", "deleting"}
  /\ Stage = "erase" => service.status = "deleting"
  /\ Stage = "probe" => domain # "none"

\* A service is removed when nothing of it is in progress, and reaches nobody.
Removal ==
  /\ service.status = "gone" => service = NoService
  /\ service.status \in {"gone", "deleting"} =>
       domain = "none" /\ \A d \in Dep : deps[d].status \notin ACTIVE

\* A deployment fails when its jobs have been stopped, and that is its end.
Unfinished ==
  /\ \A d \in Dep : deps[d].status = "failed" => deps[d].phase = "done"
  /\ \A d \in DOMAIN alarm.work : alarm.work[d].status # "failed"

OwnerInv == ActiveInv /\ edit = NoService /\ Owner /\ OfService /\ Removal /\ Unfinished
-----------------------------------------------------------------------------
(* The route.                                                              *)

Routed(x) == x = Nowhere \/ deps[x[1]].address # Nowhere

Refreshing ==
  /\ alarm.at \in {"apply", "ack"} =>
       domain # "none" /\ Upstream # Nowhere /\ alarm.target = Upstream
  /\ alarm.at = "ack" => tunnel.hash = Upstream
  /\ domain # "none" /\ alarm.at \notin InRefresh
     /\ (Stage = "promote"
         \/ (Stage \in {"candidate", "failed"} /\ alarm.work[alarm.d].address # Nowhere)) =>
       Upstream # Nowhere /\ tunnel.hash = Upstream /\ tunnel.acked

Routing ==
  /\ domain = "none" => tunnel.hash = Nowhere /\ tunnel.config = Nowhere /\ tunnel.live = Nowhere
  /\ tunnel.acked /\ tunnel.config = tunnel.hash => tunnel.live = tunnel.config
  /\ Routed(tunnel.hash) /\ Routed(tunnel.config) /\ Routed(tunnel.live)
  /\ service.promotion \notin {None, service.current} /\ tunnel.hash = service.promoted
       => tunnel.config = tunnel.hash
  /\ \A d \in Dep : deps[d].phase \in Short => deps[d].address = Nowhere

RouteInv == OwnerInv /\ Refreshing /\ Routing

Reached(x) == \/ x = Nowhere \/ x[1] \in {service.current, service.promotion}
              \/ deps[x[1]].phase = "failure_cleanup"
Reaching == tunnel.config = tunnel.hash /\ Reached(tunnel.config) /\ Reached(tunnel.live)
-----------------------------------------------------------------------------
(* What is stopped.                                                        *)

Begun(j) == stops[j].phase # "none"
Over(d)  == d <= created /\ deps[d].phase \in {"cleanup", "done", "failure_cleanup"}

\* The jobs that the alarm is stopping.
MayStop(j) ==
  /\ Over(j[2])
  /\ alarm.back # "erase" /\ j[1] = "app" =>
       /\ j[2] \notin {service.current, service.promotion}
       /\ alarm.back = "retire" => j[2] = alarm.next
       /\ alarm.back = "failed" => j[2] = alarm.d
       /\ alarm.back # "cleaned"

ToStop(j) == alarm.at = "stop" /\ \E i \in DOMAIN alarm.jobs : alarm.jobs[i] = j
Stopping  == \A j \in Job : ToStop(j) => MayStop(j)

\* The current release is stopped with its service only, which no step revives.
Removing(d) == /\ d = service.current /\ service.status = "deleting"
               /\ Stage \in OnService => Stage = "service" /\ alarm.svc.status = "deleting"

StopsInv ==
  /\ \A j \in Job : Begun(j) => Over(j[2])
  /\ \A d \in Dep : Begun(<<"app", d>>) =>
       d \notin {service.current, service.promotion} \/ Removing(d)
  /\ Stopping

RoutedStops ==
  \A d \in Dep : Begun(<<"app", d>>) /\ domain # "none" =>
     (tunnel.config # Nowhere => tunnel.config[1] # d) /\ (tunnel.live # Nowhere => tunnel.live[1] # d)
-----------------------------------------------------------------------------
(* What still runs.                                                        *)

\* Jobs are noted in the document before they are submitted.
Noted(doc) == /\ doc.phase \in Short \ {"prepare"} => doc.placed
              /\ doc.phase \in {"build_submit", "building"} => doc.built
Submitted(j) == IF j[1] = "app" THEN deps[j[2]].placed ELSE deps[j[2]].built
Dealt(j) == ToStop(j) \/ stops[j].phase = "done"

\* What a stop has noted of a job, and what has become of the job.
StopOf(j) ==
  /\ stops[j].phase = "none" => jobs[j].state \notin {"exiting", "gone"}
  /\ stops[j].phase = "stop" => jobs[j].state # "exiting"
  /\ stops[j].phase = "observe" => ~Registered(j)
  /\ stops[j].phase = "done" => Stopped(j)

\* A stage that follows stops follows the stops of all that was submitted.
StopsAll ==
  /\ Stage = "failed" => \A j \in Job : j[2] = alarm.d /\ Submitted(j) => Dealt(j)
  /\ Stage = "erase" => \A j \in Job : j[2] <= alarm.next /\ Submitted(j) => Dealt(j)
  /\ alarm.at = "erase" => alarm.next >= created

JobsInv ==
  /\ \A j \in Job : StopOf(j) /\ (~Stopped(j) => Submitted(j))
  /\ \A d \in Dep : Noted(deps[d])
  /\ StopsAll /\ EndedIsStopped
-----------------------------------------------------------------------------
(* What a step does to the service and to the documents of deployments.    *)

\* A document goes on without another address, and without an end.
Ahead(old, new) ==
  /\ Noted(old) => Noted(new)
  /\ new.address = old.address /\ new.status # "failed"
  /\ (old.placed => new.placed) /\ (old.built => new.built)
  /\ \/ old.phase \in Short /\ new.phase \in Short \union {"failure_cleanup"}
     \/ old.phase = "routing" /\ new.phase = "failure_cleanup"
     \/ old.phase = "cleanup" /\ new.phase = "done"

Advances == \E d \in DOMAIN alarm.work : \E doc :
              Advance(alarm.work[d], doc) /\ Ahead(alarm.work[d], doc) /\ Save(d, doc)

SameRelease(s) == /\ service'.current = s.current /\ service'.promotion = s.promotion
                  /\ service'.address = s.address /\ service'.promoted = s.promoted

Promoted == Promote /\ service.promotion = alarm.d
Freed(d) == /\ StartFailure(d) /\ service.promotion = d /\ service.current # d
            /\ service' = Cleared(service) /\ UNCHANGED <<deps, created>>
FromSvc  == /\ Stage \in OnService \ {"service"} /\ Away /\ SameRelease(alarm.svc)
            /\ service'.status = "degraded" /\ UNCHANGED <<deps, created>>
Reroutes == Healthy /\ Stage' = "rerouted"
Records  == RecordHealth /\ ~Superseded

Kinds ==
  \/ Advances /\ UNCHANGED <<service, created>>
  \/ \E d \in Dep : observeApplication(d)
  \/ Promoted \/ Failed \/ (Queues /\ UNCHANGED service) \/ Retire \/ Erase
  \/ UNCHANGED <<deps, created>> /\ SameRelease(service)
     /\ (UNCHANGED service \/ removeService \/ (service'.status = "degraded" /\ ~Superseded))
  \/ (\E d \in Dep : Freed(d)) \/ FromSvc \/ Moved \/ Reroutes \/ Records

LEMMA OwnerParts ==
  ASSUME OwnerInv
  PROVE  /\ ActiveInv /\ Typed /\ Holds /\ Documents /\ Latest /\ Owner /\ OfService /\ Removal
         /\ Unfinished /\ edit = NoService
         /\ service \in Service /\ alarm.svc \in Service /\ alarm \in Alarms
         /\ deps \in [Dep -> Doc] /\ created \in 0..MaxDeployments
         /\ alarm.work \in Works /\ DOMAIN alarm.work \subseteq Dep
         /\ \A d \in DOMAIN alarm.work : alarm.work[d] \in Doc
BY TypedParts, WorksOf DEF OwnerInv, ActiveInv, Stored, Alarms

LEMMA NoEdits ==
  ASSUME MaxEdits = 0, Typed, edit = NoService, [Next]_vars
  PROVE  ~EditRead /\ ~EditSave /\ edit' = NoService
<1>1. ~EditRead /\ ~EditSave
  <2>1. edits \in 0..MaxEdits
    BY TypedParts DEF Counted
  <2> QED
    BY <2>1 DEF EditRead, EditSave
<1>2. ASSUME NEW d \in Dep, Phase(d) PROVE UNCHANGED edit
  BY <1>2
  DEF Phase, DeadlineExceeded, Interrupted, Rejected, Prepare, SubmitBuild, BuildEnds,
      PrepareApp, SubmitApp, NotYet, observeApplication, Route, StartCleanup, StartFailure,
      ensureJob
<1> QED
  BY <1>1, <1>2
  DEF Next, vars, User, Deploy, Rollback, removeService, Evicted,
      Alarm, AlarmStarts, Configure, Apply, Ack, Promote, StopWorks, StopFails, StopEnds,
      CleanupNext, Retire, Cleaned, StopCandidate, Failed, ListServices, ReconcileService,
      Erase, Moved, Unhealthy, AutomaticRollback, Healthy, Rerouted, RecordHealth, HealthFails,
      ReconcileDomains, Probe, Environment, Place, Nomad, Exit, Move, Connect, Deadline

LEMMA GoesAhead ==
  ASSUME NEW doc \in Doc, PhaseOf(doc)
  PROVE  /\ doc.phase \in Short \union {"routing"} => Ahead(doc, Failing(doc))
         /\ doc.phase \in Short =>
              /\ \A phase \in {"app_prepare", "app_submit", "observing"} : doc.phase # "prepare" =>
                   /\ Ahead(doc, [doc EXCEPT !.phase = phase])
                   /\ Ahead(doc, [doc EXCEPT !.phase = phase, !.status = "deploying"])
              /\ doc.phase = "build_submit" => Ahead(doc, [doc EXCEPT !.phase = "building"])
              /\ Ahead(doc, [doc EXCEPT !.phase = "app_prepare", !.placed = TRUE,
                                        !.status = "deploying"])
              /\ Ahead(doc, [doc EXCEPT !.phase = "build_submit", !.placed = TRUE,
                                        !.built = TRUE, !.status = "building"])
         /\ doc.phase = "cleanup" /\ doc.status # "failed" =>
              Ahead(doc, [doc EXCEPT !.phase = "done"])
BY DEF Ahead, Noted, Failing, Doc, PhaseOf, Undecided, Short, ACTIVE

LEMMA PhaseKinds ==
  ASSUME OwnerInv, NEW d \in Dep, Phase(d)
  PROVE  Kinds
<1> USE OwnerParts
<1> DEFINE old == alarm.work[d]
<1>0. ASSUME NEW phase \in Undecided, Turn(d, phase)
      PROVE  Listed(d) /\ d \in DOMAIN alarm.work /\ old \in Doc /\ PhaseOf(old)
             /\ old.phase = phase /\ old.phase \in Undecided /\ old.status \in ACTIVE
  BY <1>0, TurnListed DEF PhaseOf
<1>00. Short \subseteq Undecided /\ {"routing", "failure_cleanup"} \subseteq Undecided
  BY DEF Undecided
<1>99. SameRelease(service) <=> /\ service'.current = service.current
                                /\ service'.promotion = service.promotion
                                /\ service'.address = service.address
                                /\ service'.promoted = service.promoted
  BY DEF SameRelease
<1>1. CASE DeadlineExceeded(d)
  <2>1. d \in DOMAIN alarm.work /\ old \in Doc /\ PhaseOf(old) /\ old.status \in ACTIVE
        /\ old.phase \in Short \union {"routing"} /\ Save(d, Failing(old))
    BY <1>1, TurnListed DEF DeadlineExceeded, Overdue, failDeployment, PhaseOf, Undecided
  <2> QED
    BY <1>1, <2>1, FailingAdvances, GoesAhead DEF DeadlineExceeded, Advances, Kinds
<1>2. CASE Interrupted(d) \/ NotYet(d) \/ Route(d) \/ StartCleanup(d)
  BY <1>2, <1>99 DEF Interrupted, NotYet, Route, StartCleanup, Skip, stored, Kinds
<1>3. CASE Rejected(d)
  <2>1. d \in DOMAIN alarm.work /\ old \in Doc /\ PhaseOf(old) /\ old.status \in ACTIVE
        /\ old.phase \in Short /\ Save(d, Failing(old))
    BY <1>0, <1>00, <1>3 DEF Rejected, failDeployment
  <2> QED
    BY <1>3, <2>1, FailingAdvances, GoesAhead DEF Rejected, Advances, Kinds
<1>4. CASE Prepare(d)
  <2>1. Turn(d, "prepare") /\ "prepare" \in Undecided /\ "prepare" \in Short
    BY <1>4 DEF Prepare, Undecided, Short
  <2>2. Advances
    <3>1. CASE old.rollback # None
      BY <1>0, <1>4, <2>1, <3>1, InPhase, GoesAhead DEF Prepare, Advances
    <3>2. CASE old.rollback = None
      BY <1>0, <1>4, <2>1, <3>2, InPhase, GoesAhead DEF Prepare, Advances
    <3> QED
      BY <3>1, <3>2
  <2> QED
    BY <1>4, <2>2 DEF Prepare, Kinds
<1>5. ASSUME NEW kind, NEW phase \in Short, NEW next \in Short,
             Turn(d, phase), ensureJob(d, kind, next),
             \/ phase = "build_submit" /\ next = "building"
             \/ phase = "app_submit" /\ next = "observing"
      PROVE  Kinds
  <2>1. CASE Skip(d)
    BY <1>5, <1>99, <2>1 DEF ensureJob, Skip, Kinds
  <2>2. CASE Save(d, [old EXCEPT !.phase = next])
    <3>1. Ahead(old, [old EXCEPT !.phase = next])
      BY <1>0, <1>00, <1>5, GoesAhead
    <3> QED
      BY <1>0, <1>00, <1>5, <2>2, <3>1, InPhase DEF ensureJob, Advances, Kinds
  <2> QED
    BY <1>5, <2>1, <2>2 DEF ensureJob
<1>6. CASE SubmitBuild(d) \/ SubmitApp(d)
  <2>1. {"build_submit", "building", "app_submit", "observing"} \subseteq Short
    BY DEF Short
  <2> QED
    BY <1>5, <1>6, <2>1 DEF SubmitBuild, SubmitApp
<1>7. CASE BuildEnds(d)
  <2>1. Turn(d, "building") /\ "building" \in Undecided /\ {"building", "app_prepare"} \subseteq Short
    BY <1>7 DEF BuildEnds, Undecided, Short
  <2>2. Advances
    BY <1>0, <1>7, <2>1, InPhase, GoesAhead, FailingAdvances DEF BuildEnds, failDeployment, Advances
  <2> QED
    BY <1>7, <2>2 DEF BuildEnds, Kinds
<1>8. CASE PrepareApp(d)
  <2>1. Turn(d, "app_prepare") /\ "app_prepare" \in Undecided
        /\ {"app_prepare", "app_submit"} \subseteq Short
    BY <1>8 DEF PrepareApp, Undecided, Short
  <2> QED
    BY <1>0, <1>8, <2>1, InPhase, GoesAhead DEF PrepareApp, Advances, Kinds
<1>9. CASE observeApplication(d)
  BY <1>9 DEF Kinds
<1>10. CASE StartFailure(d)
  <2>1. d \in DOMAIN alarm.work /\ old.phase = "failure_cleanup"
    BY <1>10, BeginsAt
  <2>2. service.current # d
    <3>1. deps[d].phase = "failure_cleanup"
      BY <2>1 DEF Documents, Same
    <3>2. d # None
      BY DeploymentAssumption DEF Dep, None
    <3> QED
      BY <3>1, <3>2 DEF Owner
  <2>3. CASE service.promotion = d
    BY <1>10, <2>2, <2>3 DEF StartFailure, Freed, Kinds
  <2>4. CASE service.promotion # d
    BY <1>10, <1>99, <2>2, <2>4 DEF StartFailure, Kinds
  <2> QED
    BY <2>3, <2>4
<1> QED
  BY <1>1, <1>2, <1>3, <1>4, <1>6, <1>7, <1>8, <1>9, <1>10 DEF Phase

LEMMA SameService ==
  /\ UNCHANGED service => SameRelease(service)
  /\ \A s \in Service : \A st : service' = [s EXCEPT !.status = st] => SameRelease(s)
  /\ \A s \in Service : \A st, u :
       service' = [s EXCEPT !.status = st, !.unhealthy = u] => SameRelease(s)
BY DEF SameRelease, Service

LEMMA ThrowKinds ==
  ASSUME OwnerInv, alarm.at \in InRefresh, UNCHANGED created, NEW kind, Throw(kind)
  PROVE  Kinds
<1> USE OwnerParts
<1>1. CASE alarm.back = "promote"
  <2>1. alarm.d \in DOMAIN alarm.work /\ alarm.work[alarm.d].phase = "routing"
        /\ PhaseOf(alarm.work[alarm.d]) /\ alarm.work[alarm.d] \in Doc
    BY <1>1 DEF Holds, Stage, OnDeployment, InRefresh, PhaseAt, Documents
  <2>2. CASE Skip(alarm.d)
    BY <1>1, <2>2, SameService DEF Throw, Skip, Kinds
  <2>3. CASE failDeployment(alarm.d)
    <3>1. alarm.work[alarm.d].status \in ACTIVE
      BY <2>1 DEF PhaseOf, Undecided
    <3> QED
      BY <1>1, <2>1, <2>3, <3>1, FailingAdvances, GoesAhead DEF Throw, failDeployment, Advances, Kinds
  <2> QED
    BY <1>1, <2>2, <2>3 DEF Throw
<1>2. CASE alarm.back \in {"candidate", "probe"}
  BY <1>2, SameService DEF Throw, Skip, Kinds
<1>3. CASE alarm.back \in {"moved", "rerouted"}
  <2>1. Stage \in OnService \ {"service"} /\ Away /\ UNCHANGED deps
    BY <1>3 DEF Throw, Stage, InRefresh, OnService, Away
  <2>2. CASE UNCHANGED service
    BY <2>1, <2>2, SameService DEF Kinds
  <2>3. CASE service' = [alarm.svc EXCEPT !.status = "degraded"]
    <3>1. service'.status = "degraded" /\ SameRelease(alarm.svc)
      BY <2>3, SameService DEF Service
    <3> QED
      BY <2>1, <3>1 DEF FromSvc, Kinds
  <2> QED
    BY <1>3, <2>2, <2>3 DEF Throw
<1> QED
  BY <1>1, <1>2, <1>3 DEF Throw

LEMMA KindsOf ==
  ASSUME MaxEdits = 0, OwnerInv, [Next]_vars
  PROVE  Kinds
<1> USE OwnerParts
<1>1. CASE UNCHANGED <<service, deps, created>>
  BY <1>1, SameService DEF Kinds
<1>2. CASE User
  <2>1. CASE Deploy \/ Rollback
    BY <2>1 DEF Deploy, Rollback, Queues, Kinds, None
  <2>2. CASE removeService
    BY <2>2, SameService DEF removeService, Kinds
  <2> QED
    BY <1>2, <2>1, <2>2, NoEdits DEF User
<1>3. CASE Environment \/ Evicted
  BY <1>1, <1>3 DEF Environment, Place, Nomad, Exit, Move, Connect, Deadline, Evicted, stored
<1>4. CASE Configure \/ Apply \/ Ack
  <2>1. alarm.at \in InRefresh /\ UNCHANGED created
    BY <1>4 DEF Configure, Apply, Ack, InRefresh
  <2>2. UNCHANGED <<service, deps>> \/ \E kind : Throw(kind)
    BY <1>4 DEF Configure, Apply, Ack
  <2> QED
    BY <1>1, <2>1, <2>2, ThrowKinds
<1>5. CASE Promote
  <2>1. CASE service.promotion = alarm.d
    BY <1>5, <2>1 DEF Promoted, Kinds
  <2>2. CASE service.promotion # alarm.d
    <3>1. failDeployment(alarm.d) /\ UNCHANGED <<service, created>>
      BY <1>5, <2>2 DEF Promote
    <3>2. alarm.d \in DOMAIN alarm.work /\ alarm.work[alarm.d].phase = "routing"
          /\ PhaseOf(alarm.work[alarm.d]) /\ alarm.work[alarm.d] \in Doc
      BY <1>5 DEF Promote, Holds, Stage, OnDeployment, InRefresh, PhaseAt, Documents
    <3>3. alarm.work[alarm.d].status \in ACTIVE
      BY <3>2 DEF PhaseOf, Undecided
    <3> QED
      BY <3>1, <3>2, <3>3, FailingAdvances, GoesAhead DEF failDeployment, Advances, Kinds
  <2> QED
    BY <2>1, <2>2
<1>6. CASE Cleaned
  <2> DEFINE old == alarm.work[alarm.d]
  <2>1. alarm.d \in DOMAIN alarm.work /\ old.phase = "cleanup" /\ PhaseOf(old) /\ old \in Doc
        /\ old.status # "failed"
    BY <1>6 DEF Cleaned, Holds, Stage, OnDeployment, InRefresh, PhaseAt, Documents, Unfinished
  <2>2. Advance(old, [old EXCEPT !.phase = "done"])
    BY <2>1 DEF Advance, Doc, PhaseOf, Undecided, Short
  <2>3. Ahead(old, [old EXCEPT !.phase = "done"])
    BY <2>1, GoesAhead
  <2> QED
    BY <1>6, <2>1, <2>2, <2>3 DEF Cleaned, Advances, Kinds
<1>7. CASE Failed \/ Retire \/ Erase \/ Moved
  BY <1>7 DEF Kinds
<1>8. CASE Unhealthy
  <2>1. CASE service' = [service EXCEPT !.status = "degraded", !.unhealthy = TRUE]
    BY <1>8, <2>1, SameService DEF Unhealthy, Kinds, Service
  <2> QED
    BY <1>1, <1>8, <2>1 DEF Unhealthy
<1>9. CASE AutomaticRollback \/ HealthFails
  <2>1. Stage \in OnService \ {"service"} /\ Away
    BY <1>9 DEF AutomaticRollback, HealthFails, Stage, InRefresh, OnService, Away
  <2>2. CASE service' = [alarm.svc EXCEPT !.status = "degraded"] /\ UNCHANGED <<deps, created>>
    <3>1. service'.status = "degraded" /\ SameRelease(alarm.svc)
      BY <2>2, SameService DEF Service
    <3> QED
      BY <2>1, <2>2, <3>1 DEF FromSvc, Kinds
  <2>3. CASE HealthFails
    BY <1>1, <2>2, <2>3 DEF HealthFails
  <2>4. CASE AutomaticRollback
    <3>1. CASE MayQueue /\ queueDeployment(deps[alarm.svc.current].prev) /\ UNCHANGED service
      <4>1. alarm.svc.current \in Dep
        BY <2>4, InService DEF AutomaticRollback, Holds, Stage, OnService, InRefresh
      <4>2. deps[alarm.svc.current].prev \in Dep \union {None}
        BY <4>1 DEF Doc
      <4> QED
        BY <2>4, <3>1, <4>2 DEF AutomaticRollback, Queues, Kinds
    <3> QED
      BY <1>1, <2>2, <2>4, <3>1 DEF AutomaticRollback, stored
  <2> QED
    BY <1>9, <2>3, <2>4
<1>10. CASE Healthy
  <2>1. CASE UNCHANGED service
    BY <1>1, <1>10, <2>1 DEF Healthy
  <2>2. CASE ~UNCHANGED service
    BY <1>10, <2>2, HealthyAt DEF Reroutes, Kinds
  <2> QED
    BY <2>1, <2>2
<1>11. CASE RecordHealth
  BY <1>1, <1>11 DEF RecordHealth, Records, Kinds
<1>12. CASE Alarm
  BY <1>1, <1>4, <1>5, <1>6, <1>7, <1>8, <1>9, <1>10, <1>11, <1>12, PhaseKinds
  DEF Alarm, AlarmStarts, StopWorks, StopFails, StopEnds, CleanupNext, StopCandidate,
      ListServices, ReconcileService, Rerouted, ReconcileDomains, Probe, stored
<1> QED
  BY <1>1, <1>2, <1>3, <1>12 DEF Next, vars
-----------------------------------------------------------------------------
(* The effect of each kind of step.                                        *)

Elsewhere(d) == \A e \in Dep \ {d} : deps'[e] = deps[e]
SameDoc(d) == /\ deps'[d].address = deps[d].address /\ deps'[d].placed = deps[d].placed
              /\ deps'[d].built = deps[d].built

LEMMA SaveEffect ==
  ASSUME OwnerInv, NEW d \in Dep, NEW doc, Save(d, doc)
  PROVE  deps'[d] = doc /\ Elsewhere(d) /\ Resumed(d) = alarm'
BY OwnerParts DEF Save, Elsewhere

LEMMA HeldIsStored ==
  ASSUME OwnerInv, NEW d \in DOMAIN alarm.work
  PROVE  /\ d \in Dep /\ d # None /\ deps[d] \in Doc /\ alarm.work[d] \in Doc
         /\ PhaseOf(alarm.work[d]) /\ Same(alarm.work[d], deps[d]) /\ deps[d].phase # "done"
         /\ service.current # d \/ deps[d].phase = "cleanup"
<1>1. d \in Dep /\ d # None
  BY OwnerParts, DeploymentAssumption DEF Dep, None
<1> QED
  BY <1>1, OwnerParts DEF Documents, Owner

LEMMA AdvancesEffect ==
  ASSUME OwnerInv, Advances
  PROVE  \E d \in DOMAIN alarm.work :
           /\ Elsewhere(d) /\ deps'[d].address = deps[d].address /\ deps'[d].status # "failed"
           /\ Noted(deps[d]) => Noted(deps'[d])
           /\ (deps[d].placed => deps'[d].placed) /\ (deps[d].built => deps'[d].built)
           /\ \/ deps[d].phase \in Short /\ deps'[d].phase \in Short \union {"failure_cleanup"}
              \/ deps[d].phase = "routing" /\ deps'[d].phase = "failure_cleanup"
              \/ deps[d].phase = "cleanup" /\ deps'[d].phase = "done"
<1>1. PICK d, doc : d \in DOMAIN alarm.work /\ Ahead(alarm.work[d], doc) /\ Save(d, doc)
  BY DEF Advances
<1> QED
  BY <1>1, SaveEffect, HeldIsStored DEF Ahead, Noted, Same

LEMMA ObserveEffect ==
  ASSUME OwnerInv, NEW d \in Dep, observeApplication(d)
  PROVE  /\ d \in DOMAIN alarm.work /\ deps[d].phase = "observing" /\ Serves(d)
         /\ Elsewhere(d) /\ deps'[d].phase = "routing" /\ deps'[d].address = Where(d)
         /\ deps'[d].status # "failed" /\ deps'[d].placed = deps[d].placed
         /\ deps'[d].built = deps[d].built
         /\ service'.promotion = d /\ service'.promoted = Where(d)
         /\ service'.current = service.current /\ service'.address = service.address
         /\ service'.status = service.status /\ alarm' = Resumed(d)
<1> USE OwnerParts
<1>1. /\ d \in DOMAIN alarm.work /\ alarm.work[d].phase = "observing"
      /\ Save(d, [alarm.work[d] EXCEPT !.phase = "routing", !.address = Where(d)])
      /\ service' = [service EXCEPT !.promotion = d, !.promoted = Where(d)] /\ Serves(d)
  BY TurnListed DEF observeApplication
<1>2. /\ deps'[d] = [alarm.work[d] EXCEPT !.phase = "routing", !.address = Where(d)]
      /\ Elsewhere(d) /\ alarm' = Resumed(d)
  BY <1>1, SaveEffect
<1>3. alarm.work[d] \in Doc /\ Same(alarm.work[d], deps[d])
  BY <1>1, HeldIsStored
<1>4. /\ deps'[d].phase = "routing" /\ deps'[d].address = Where(d)
      /\ deps'[d].status = alarm.work[d].status
      /\ deps'[d].placed = alarm.work[d].placed /\ deps'[d].built = alarm.work[d].built
  BY <1>2, <1>3 DEF Doc
<1>5. alarm.work[d].status # "failed"
  BY <1>1 DEF Unfinished
<1>6. service'.promotion = d /\ service'.promoted = Where(d)
      /\ service'.current = service.current /\ service'.address = service.address
      /\ service'.status = service.status
  BY <1>1 DEF Service
<1> QED
  BY <1>1, <1>2, <1>3, <1>4, <1>5, <1>6 DEF Same

LEMMA ClearedEffect ==
  ASSUME NEW s \in Service, NEW a
  PROVE  /\ Cleared(s).current = s.current /\ Cleared(s).address = s.address
         /\ Cleared(s).status = s.status
         /\ Cleared(s).promotion = None /\ Cleared(s).promoted = Nowhere
         /\ LET t == [Cleared(s) EXCEPT !.address = a] IN
              /\ t.current = s.current /\ t.address = a /\ t.status = s.status
              /\ t.promotion = None /\ t.promoted = Nowhere
         /\ LET t == [Cleared(s) EXCEPT !.address = a, !.status = "healthy", !.unhealthy = FALSE] IN
              /\ t.current = s.current /\ t.address = a /\ t.status = "healthy"
              /\ t.promotion = None /\ t.promoted = Nowhere
<1>1. Cleared(s) \in Service
  BY InService
<1>2. /\ Cleared(s).current = s.current /\ Cleared(s).address = s.address
      /\ Cleared(s).status = s.status
      /\ Cleared(s).promotion = None /\ Cleared(s).promoted = Nowhere
  BY DEF Cleared, Service
<1> QED
  BY <1>1, <1>2 DEF Service

LEMMA PromotedEffect ==
  ASSUME OwnerInv, Promoted
  PROVE  /\ alarm.at = "promote" /\ alarm.d \in DOMAIN alarm.work /\ alarm.d \in Dep
         /\ deps[alarm.d].phase = "routing" /\ service.promotion = alarm.d
         /\ Elsewhere(alarm.d) /\ deps'[alarm.d].phase = "cleanup"
         /\ deps'[alarm.d].status = "healthy" /\ SameDoc(alarm.d)
         /\ service'.current = alarm.d /\ service'.address = deps[alarm.d].address
         /\ service'.promotion = None /\ service'.promoted = Nowhere
         /\ service'.status = "healthy" /\ alarm' = Resumed(alarm.d) /\ UNCHANGED created
<1> USE OwnerParts
<1> DEFINE d == alarm.d
           doc == [alarm.work[d] EXCEPT !.status = "healthy", !.phase = "cleanup"]
<1>1. /\ alarm.at = "promote" /\ service.promotion = d /\ UNCHANGED created
      /\ service' = [Cleared(service) EXCEPT !.current = d,
             !.address = alarm.work[d].address, !.status = "healthy", !.unhealthy = FALSE]
      /\ Save(d, doc)
  BY DEF Promoted, Promote
<1>2. d \in DOMAIN alarm.work /\ alarm.work[d].phase = "routing"
  BY <1>1 DEF Holds, Stage, OnDeployment, InRefresh, PhaseAt
<1>3. d \in Dep /\ alarm.work[d] \in Doc /\ Same(alarm.work[d], deps[d])
  BY <1>2, HeldIsStored
<1>4. deps'[d] = doc /\ Elsewhere(d) /\ alarm' = Resumed(d)
  BY <1>1, <1>3, SaveEffect
<1>5. /\ doc.phase = "cleanup" /\ doc.status = "healthy" /\ doc.address = alarm.work[d].address
      /\ doc.placed = alarm.work[d].placed /\ doc.built = alarm.work[d].built
  BY <1>3 DEF Doc
<1>6. Cleared(service) \in Service /\ Cleared(service).promotion = None
      /\ Cleared(service).promoted = Nowhere
  BY InService, ClearedEffect
<1>7. /\ service'.current = d /\ service'.address = alarm.work[d].address
      /\ service'.promotion = None /\ service'.promoted = Nowhere /\ service'.status = "healthy"
  BY <1>1, <1>6 DEF Service
<1> QED
  BY <1>1, <1>2, <1>3, <1>4, <1>5, <1>7 DEF Same, SameDoc

LEMMA FailedEffect ==
  ASSUME OwnerInv, Failed
  PROVE  /\ alarm.at = "failed" /\ alarm.d \in DOMAIN alarm.work /\ alarm.d \in Dep
         /\ deps[alarm.d].phase = "failure_cleanup"
         /\ Elsewhere(alarm.d) /\ deps'[alarm.d].phase = "done" /\ SameDoc(alarm.d)
         /\ SameRelease(service) /\ service'.status \in {service.status, "failed"}
         /\ alarm' = Resumed(alarm.d) /\ UNCHANGED created
<1> USE OwnerParts
<1> DEFINE d == alarm.d
           doc == [alarm.work[d] EXCEPT !.status = "failed", !.phase = "done"]
<1>1. /\ alarm.at = "failed" /\ Save(d, doc) /\ UNCHANGED created
      /\ service' = service \/ service' = [alarm.svc EXCEPT !.status = "failed"]
  BY DEF Failed
<1>2. d \in DOMAIN alarm.work /\ alarm.work[d].phase = "failure_cleanup" /\ alarm.svc = service
  BY <1>1 DEF Holds, Stage, OnDeployment, InRefresh, PhaseAt, OfService
<1>3. d \in Dep /\ alarm.work[d] \in Doc /\ Same(alarm.work[d], deps[d])
  BY <1>2, HeldIsStored
<1>4. deps'[d] = doc /\ Elsewhere(d) /\ alarm' = Resumed(d)
  BY <1>1, <1>3, SaveEffect
<1>5. /\ doc.phase = "done" /\ doc.address = alarm.work[d].address
      /\ doc.placed = alarm.work[d].placed /\ doc.built = alarm.work[d].built
  BY <1>3 DEF Doc
<1>6. SameRelease(service) /\ service'.status \in {service.status, "failed"}
  BY <1>1, <1>2 DEF SameRelease, Service
<1> QED
  BY <1>1, <1>2, <1>3, <1>4, <1>5, <1>6 DEF Same, SameDoc

LEMMA ServiceEffect ==
  ASSUME OwnerInv
  PROVE  /\ \A d \in Dep : Freed(d) =>
              /\ service'.current = service.current /\ service'.address = service.address
              /\ service'.status = service.status
              /\ service'.promotion = None /\ service'.promoted = Nowhere
              /\ d \in DOMAIN alarm.work /\ deps[d].phase = "failure_cleanup"
              /\ UNCHANGED deps
         /\ Moved => /\ service'.current = alarm.svc.current /\ service'.address = alarm.svc.promoted
                     /\ service'.status = alarm.svc.status
                     /\ service'.promotion = None /\ service'.promoted = Nowhere
                     /\ UNCHANGED <<deps, created>> /\ Stage = "moved"
         /\ Records => /\ service'.current = service.current
                       /\ service'.address = alarm.svc.address /\ service'.status = "healthy"
                       /\ service'.promotion = None /\ service'.promoted = Nowhere
                       /\ UNCHANGED <<deps, created>> /\ Away /\ Stage = "record"
                       /\ service.status \notin {"gone", "deleting"}
         /\ Reroutes => /\ service'.current = service.current
                        /\ service'.address = service.address
                        /\ service'.status = service.status
                        /\ service'.promotion = service.current
                        /\ service'.promoted = Where(service.current)
                        /\ UNCHANGED <<deps, created>> /\ Stage = "health"
                        /\ service.current \in Dep /\ Serves(service.current)
                        /\ service.status \notin {"gone", "deleting"}
<1> USE OwnerParts
<1>1. ASSUME NEW d \in Dep, Freed(d)
      PROVE  /\ service'.current = service.current /\ service'.address = service.address
             /\ service'.status = service.status
             /\ service'.promotion = None /\ service'.promoted = Nowhere
             /\ d \in DOMAIN alarm.work /\ deps[d].phase = "failure_cleanup"
             /\ UNCHANGED deps
  <2>1. d \in DOMAIN alarm.work /\ alarm.work[d].phase = "failure_cleanup"
    BY <1>1, BeginsAt DEF Freed
  <2> QED
    BY <1>1, <2>1, ClearedEffect, HeldIsStored DEF Freed, Same
<1>2. ASSUME Moved
      PROVE  /\ service'.current = alarm.svc.current /\ service'.address = alarm.svc.promoted
             /\ service'.status = alarm.svc.status
             /\ service'.promotion = None /\ service'.promoted = Nowhere
             /\ UNCHANGED <<deps, created>> /\ Stage = "moved"
  <2>1. service' = [Cleared(alarm.svc) EXCEPT !.address = alarm.svc.promoted]
    BY <1>2, MovedAt
  <2>2. UNCHANGED <<deps, created>>
    BY <1>2 DEF Moved
  <2> QED
    BY <1>2, <2>1, <2>2, ClearedEffect, MovedAt
<1>3. ASSUME Records
      PROVE  /\ service'.current = service.current
             /\ service'.address = alarm.svc.address /\ service'.status = "healthy"
             /\ service'.promotion = None /\ service'.promoted = Nowhere
             /\ UNCHANGED <<deps, created>> /\ Away /\ Stage = "record"
             /\ service.status \notin {"gone", "deleting"}
  <2>1. /\ service' = [Cleared(service) EXCEPT !.address = alarm.svc.address,
                        !.status = "healthy", !.unhealthy = FALSE]
        /\ UNCHANGED <<deps, created>> /\ Away /\ Stage = "record"
        /\ service.status \notin {"gone", "deleting"}
    BY <1>3 DEF Records, RecordHealth, Away, Stage, InRefresh, Superseded
  <2> QED
    BY <2>1, ClearedEffect
<1>4. ASSUME Reroutes
      PROVE  /\ service'.current = service.current /\ service'.address = service.address
             /\ service'.status = service.status /\ service'.promotion = service.current
             /\ service'.promoted = Where(service.current)
             /\ UNCHANGED <<deps, created>> /\ Stage = "health"
             /\ service.current \in Dep /\ Serves(service.current)
             /\ service.status \notin {"gone", "deleting"}
  <2>1. /\ ~Superseded /\ Stage = "health" /\ UNCHANGED <<deps, created>>
        /\ Serves(alarm.svc.current)
        /\ service' = [service EXCEPT !.promotion = alarm.svc.current,
                                      !.promoted = Where(alarm.svc.current)]
    <3>1. Stage = "health" /\ (Away \/ Stage' = "record" \/ ~Superseded)
      BY <1>4, HealthyAt DEF Reroutes
    <3>2. ~Away
      BY <1>4, AtRest DEF Reroutes
    <3> QED
      BY <1>4, <3>1, <3>2, HealthyAt DEF Reroutes, Healthy
  <2>2. alarm.svc.current = service.current /\ alarm.svc.current \in Dep
    BY <2>1, InService DEF OfService, OnService, Holds
  <2> QED
    BY <2>1, <2>2 DEF Service, Superseded
<1> QED
  BY <1>1, <1>2, <1>3, <1>4

LEMMA QueuesEffect ==
  ASSUME OwnerInv, Queues
  PROVE  /\ created' = created + 1 /\ created + 1 \in Dep /\ Elsewhere(created + 1)
         /\ deps'[created + 1].status = "queued" /\ deps'[created + 1].phase = "prepare"
         /\ deps[created + 1] = NoDoc /\ deps'[created + 1].address = Nowhere
         /\ ~deps'[created + 1].placed /\ ~deps'[created + 1].built
         /\ service.status \notin {"gone", "deleting"} /\ \A d \in Dep : deps[d].status \notin ACTIVE
<1> USE OwnerParts
<1>1. PICK r \in Dep \union {None} : queueDeployment(r)
  BY DEF Queues
<1> DEFINE new == [NoDoc EXCEPT !.status = "queued", !.phase = "prepare", !.rollback = r,
                                !.prev = service.current]
<1>2. /\ new.status = "queued" /\ new.phase = "prepare" /\ new.address = Nowhere
      /\ ~new.placed /\ ~new.built
  BY DEF NoDoc
<1>3. /\ created < MaxDeployments /\ created' = created + 1
      /\ deps' = [deps EXCEPT ![created + 1] = new]
  BY <1>1 DEF queueDeployment
<1> HIDE DEF new
<1>4. created + 1 \in Dep /\ created + 1 > created
  BY <1>3, DeploymentAssumption DEF Dep
<1>5. deps'[created + 1] = new /\ Elsewhere(created + 1)
  BY <1>3, <1>4 DEF Elsewhere
<1>6. deps[created + 1] = NoDoc
  BY <1>4 DEF Documents
<1> QED
  BY <1>2, <1>3, <1>4, <1>5, <1>6 DEF Queues, MayQueue

LEMMA RetireEffect ==
  ASSUME OwnerInv, Retire
  PROVE  /\ UNCHANGED <<service, created>> /\ alarm.next \in Dep
         /\ \A d \in Dep : deps'[d].phase = deps[d].phase /\ SameDoc(d)
                           /\ deps'[d].status \in {deps[d].status, "rolled_back"}
<1> USE OwnerParts
<1>1. alarm.next \in Dep /\ UNCHANGED <<service, created>>
  BY RetireAt DEF Retire, Holds, Alarms
<1>2. \A e \in Dep : deps[e] \in Doc /\ deps'[e] = IF e = alarm.next
              THEN [deps[e] EXCEPT !.status = "rolled_back"] ELSE deps[e]
  BY <1>1 DEF Retire
<1>3. ASSUME NEW doc \in Doc
      PROVE  LET new == [doc EXCEPT !.status = "rolled_back"] IN
             /\ new.phase = doc.phase /\ new.address = doc.address /\ new.placed = doc.placed
             /\ new.built = doc.built /\ new.status = "rolled_back"
  BY DEF Doc
<1>4. ASSUME NEW d \in Dep
      PROVE  /\ deps'[d].phase = deps[d].phase /\ SameDoc(d)
             /\ deps'[d].status \in {deps[d].status, "rolled_back"}
  <2>1. CASE d = alarm.next
    <3>1. deps'[d] = [deps[d] EXCEPT !.status = "rolled_back"] /\ deps[d] \in Doc
      BY <1>2, <2>1
    <3> QED
      BY <1>3, <3>1 DEF SameDoc
  <2>2. CASE d # alarm.next
    BY <1>2, <2>2 DEF SameDoc
  <2> QED
    BY <2>1, <2>2
<1> QED
  BY <1>1, <1>4

LEMMA EraseEffect ==
  ASSUME Erase
  PROVE  /\ service' = NoService /\ UNCHANGED created /\ \A d \in Dep : deps'[d] = NoDoc
         /\ Stage = "erase" /\ Away
BY DEF Erase, Stage, InRefresh, Away

LEMMA FromSvcEffect ==
  ASSUME OwnerInv, FromSvc
  PROVE  /\ service'.current = service.current /\ service'.promotion \in {None, service.current}
         /\ service'.promotion = alarm.svc.promotion /\ service'.promoted = alarm.svc.promoted
         /\ service'.address = alarm.svc.address /\ service'.status = "degraded"
         /\ UNCHANGED <<deps, created>> /\ Away /\ service.promotion \in {None, service.current}
BY OwnerParts DEF FromSvc, OfService, OnService, SameRelease

LEMMA ReservedKept ==
  ASSUME MaxEdits = 0, OwnerInv, [Next]_vars
  PROVE  Reserved(service') /\ Reserved(alarm'.svc)
<1> USE OwnerParts
<1>1. Reserved(service')
  <2>1. CASE SameRelease(service) \/ UNCHANGED service
    BY <2>1, SameService DEF Owner, SameRelease, Reserved
  <2>2. ASSUME NEW d \in Dep, observeApplication(d) PROVE Reserved(service')
    BY <2>2, ObserveEffect, Placed, HeldIsStored DEF Owner, Reserved
  <2>3. CASE Promoted
    <3>1. service.promotion = alarm.d /\ alarm.d # None /\ alarm.d # service.current
      BY <2>3, PromotedEffect, HeldIsStored
    <3> QED
      BY <2>3, <3>1, PromotedEffect DEF Owner, Reserved
  <2>4. CASE Failed \/ (Queues /\ UNCHANGED service) \/ Retire
    BY <2>1, <2>4, FailedEffect, RetireEffect
  <2>5. CASE Erase
    BY <2>5, EraseEffect DEF Reserved, NoService
  <2>6. ASSUME NEW d \in Dep, Freed(d) PROVE Reserved(service')
    BY <2>6, ServiceEffect DEF Owner, Reserved
  <2>7. CASE FromSvc
    BY <2>7 DEF FromSvc, SameRelease, Owner, Reserved
  <2>8. CASE Moved
    <3>1. alarm.svc.promotion = alarm.svc.current /\ alarm.svc.current # None
      BY <2>8, ServiceEffect DEF OfService, OnService, Holds
    <3> QED
      BY <2>8, <3>1, ServiceEffect DEF Owner, Reserved
  <2>9. CASE Reroutes
    <3>1. service.current # None
      BY <2>9, ServiceEffect, DeploymentAssumption DEF Dep, None
    <3> QED
      BY <2>9, <3>1, ServiceEffect, Placed DEF Owner, Reserved
  <2>10. CASE Records
    BY <2>10, ServiceEffect DEF OfService, OnService, Owner, Reserved
  <2> QED
    BY <2>1, <2>2, <2>3, <2>4, <2>5, <2>6, <2>7, <2>8, <2>9, <2>10, KindsOf DEF Kinds
<1>2. Reserved(alarm'.svc)
  <2>1. CASE alarm'.svc \in {alarm.svc, service, service', NoService}
    BY <1>1, <2>1 DEF Owner, Reserved, NoService
  <2>2. CASE Rerouted
    <3>1. /\ alarm'.svc.current = alarm.svc.current /\ alarm'.svc.promotion = None
          /\ alarm'.svc.promoted = Nowhere /\ alarm'.svc.address = alarm.svc.promoted
      <4>1. alarm'.svc = [Cleared(alarm.svc) EXCEPT !.address = alarm.svc.promoted]
        BY <2>2, ReroutedAt
      <4> QED
        BY <4>1, ClearedEffect
    <3>2. alarm.svc.promotion = alarm.svc.current /\ alarm.svc.current # None
      BY <2>2, ReroutedAt DEF OfService, OnService, Holds
    <3> QED
      BY <3>1, <3>2 DEF Owner, Reserved
  <2> QED
    BY <2>1, <2>2, SvcFrom
<1> QED
  BY <1>1, <1>2

LEMMA OwnerKept ==
  ASSUME MaxEdits = 0, OwnerInv, [Next]_vars
  PROVE  Owner'
<1> USE OwnerParts
<1> DEFINE Own(s, f) ==
      s.promotion \notin {None, s.current} =>
        f[s.promotion].phase \in {"routing", "failure_cleanup"}
        /\ f[s.promotion].address = s.promoted
           Cur(s, f) ==
      s.current # None => f[s.current].phase \in {"cleanup", "done"}
                          /\ f[s.current].address # Nowhere
<1>1. Own(service, deps) /\ Cur(service, deps)
  BY DEF Owner
<1>2. /\ service.promotion # None => service.promotion \in Dep
      /\ service.current # None => service.current \in Dep
  BY InService
<1>3. Own(service', deps') /\ Cur(service', deps')
  <2>1. CASE UNCHANGED deps /\ SameRelease(service)
    BY <1>1, <2>1 DEF SameRelease
  <2>2. CASE Advances /\ UNCHANGED service
    <3>1. PICK d \in DOMAIN alarm.work :
           /\ Elsewhere(d) /\ deps'[d].address = deps[d].address
           /\ \/ deps[d].phase \in Short
              \/ deps[d].phase = "routing" /\ deps'[d].phase = "failure_cleanup"
              \/ deps[d].phase = "cleanup" /\ deps'[d].phase = "done"
      BY <2>2, AdvancesEffect
    <3> QED
      BY <1>1, <1>2, <2>2, <3>1 DEF Elsewhere, Short
  <2>3. ASSUME NEW d \in Dep, observeApplication(d)
        PROVE  Own(service', deps') /\ Cur(service', deps')
    BY <1>1, <1>2, <2>3, ObserveEffect DEF Elsewhere
  <2>4. CASE Promoted
    <3>1. alarm.d # None /\ alarm.d # service.current
      BY <2>4, PromotedEffect, HeldIsStored
    <3>2. deps[alarm.d].address # Nowhere
      BY <1>1, <2>4, <3>1, PromotedEffect DEF Owner, Reserved
    <3> QED
      BY <2>4, <3>2, PromotedEffect DEF SameDoc
  <2>5. CASE Failed
    <3>1. alarm.d \notin {service.current, service.promotion}
      BY <2>5, FailedEffect DEF OfService, Stage, InRefresh
    <3> QED
      BY <1>1, <1>2, <2>5, <3>1, FailedEffect DEF Elsewhere, SameRelease
  <2>6. CASE Queues /\ UNCHANGED service
    BY <1>1, <1>2, <2>6, QueuesEffect DEF Elsewhere, Own, NoDoc
  <2>7. CASE Retire
    BY <1>1, <1>2, <2>7, RetireEffect DEF SameDoc
  <2>8. CASE Erase
    BY <2>8, EraseEffect DEF NoService, None
  <2>9. ASSUME NEW d \in Dep, Freed(d) PROVE Own(service', deps') /\ Cur(service', deps')
    BY <1>1, <2>9, ServiceEffect
  <2>10. CASE FromSvc
    BY <1>1, <2>10, FromSvcEffect
  <2>11. CASE Moved \/ Reroutes \/ Records
    <3>1. Moved => alarm.svc.current = service.current
      BY ServiceEffect DEF OfService, OnService
    <3> QED
      BY <1>1, <2>11, <3>1, ServiceEffect
  <2> QED
    BY <2>1, <2>2, <2>3, <2>4, <2>5, <2>6, <2>7, <2>8, <2>9, <2>10, <2>11, KindsOf DEF Kinds
<1> QED
  BY <1>3, ReservedKept DEF Owner, Reserved

LEMMA UnfinishedKept ==
  ASSUME MaxEdits = 0, OwnerInv, [Next]_vars
  PROVE  Unfinished'
<1> USE OwnerParts
<1>1. ASSUME NEW e \in Dep PROVE deps'[e].status = "failed" => deps'[e].phase = "done"
  <2>1. deps[e].status = "failed" => deps[e].phase = "done"
    BY DEF Unfinished
  <2>2. CASE UNCHANGED deps
    BY <2>1, <2>2
  <2>3. CASE Advances
    BY <2>1, <2>3, AdvancesEffect DEF Elsewhere
  <2>4. ASSUME NEW d \in Dep, observeApplication(d) PROVE deps'[e].status = "failed" => deps'[e].phase = "done"
    BY <2>1, <2>4, ObserveEffect DEF Elsewhere
  <2>5. CASE Promoted
    BY <2>1, <2>5, PromotedEffect DEF Elsewhere
  <2>6. CASE Failed
    BY <2>1, <2>6, FailedEffect DEF Elsewhere
  <2>7. CASE Queues
    BY <2>1, <2>7, QueuesEffect DEF Elsewhere
  <2>8. CASE Retire
    BY <2>1, <2>8, RetireEffect
  <2>9. CASE Erase
    BY <2>9, EraseEffect DEF NoDoc
  <2> QED
    BY <2>2, <2>3, <2>4, <2>5, <2>6, <2>7, <2>8, <2>9, KindsOf, ServiceEffect
    DEF Kinds, Freed, FromSvc
<1>2. ASSUME NEW d \in DOMAIN alarm'.work PROVE alarm'.work[d].status # "failed"
  <2>1. CASE AlarmStarts
    <3>1. d \in Dep /\ deps[d].phase # "done" /\ alarm'.work[d] = deps[d]
      BY <2>1 DEF AlarmStarts, Idle
    <3> QED
      BY <3>1 DEF Unfinished
  <2>2. CASE ~AlarmStarts
    BY <2>2, WorkKept DEF Unfinished
  <2> QED
    BY <2>1, <2>2
<1> QED
  BY <1>1, <1>2 DEF Unfinished

\* Work in progress keeps a service from being removed.
LEMMA InProgress ==
  ASSUME OwnerInv, NEW d \in Dep, deps[d].phase \in Undecided
  PROVE  service.status \notin {"gone", "deleting"} /\ ~removeService /\ ~MayQueue
<1>1. deps[d].status \in ACTIVE
  BY OwnerParts DEF Documents, PhaseOf
<1> QED
  BY <1>1, OwnerParts DEF Removal, removeService, MayQueue

LEMMA DomainKept ==
  ASSUME OwnerInv, [Next]_vars
  PROVE  /\ (domain = "none") <=> (domain' = "none")
         /\ UNCHANGED domain \/ (Probe /\ Away)
<1> USE OwnerParts
<1>1. ASSUME NEW d \in Dep, Phase(d) PROVE UNCHANGED domain
  BY <1>1
  DEF Phase, DeadlineExceeded, Interrupted, Rejected, Prepare, SubmitBuild, BuildEnds,
      PrepareApp, SubmitApp, NotYet, observeApplication, Route, StartCleanup, StartFailure,
      ensureJob
<1>2. Probe => domain # "none" /\ domain' # "none" /\ Away
  BY DEF Probe, OfService, Stage, InRefresh, Away
<1> QED
  BY <1>1, <1>2
  DEF Next, vars, User, Deploy, Rollback, removeService, EditRead, EditSave, Evicted,
      Alarm, AlarmStarts, Configure, Apply, Ack, Promote, StopWorks, StopFails, StopEnds,
      CleanupNext, Retire, Cleaned, StopCandidate, Failed, ListServices, ReconcileService,
      Erase, Moved, Unhealthy, AutomaticRollback, Healthy, Rerouted, RecordHealth, HealthFails,
      ReconcileDomains, Environment, Place, Nomad, Exit, Move, Connect, Deadline

LEMMA RemovalKept ==
  ASSUME MaxEdits = 0, OwnerInv, [Next]_vars
  PROVE  Removal'
<1> USE OwnerParts
<1> DEFINE Removed(s, f, dom) ==
      /\ s.status = "gone" => s = NoService
      /\ s.status \in {"gone", "deleting"} =>
           dom = "none" /\ \A d \in Dep : f[d].status \notin ACTIVE
<1>1. Removed(service, deps, domain)
  BY DEF Removal
<1>2. \A d \in Dep : PhaseOf(deps'[d])
  BY StoredDocs
<1>3. Removed(service', deps', domain')
  <2>1. CASE service'.status \notin {"gone", "deleting"}
    BY <2>1
  <2>2. CASE UNCHANGED <<service, deps>>
    BY <1>1, <2>2, DomainKept
  <2>3. CASE Advances /\ UNCHANGED service
    <3>1. PICK d \in DOMAIN alarm.work :
           /\ Elsewhere(d)
           /\ \/ deps[d].phase \in Short \union {"routing"}
              \/ deps[d].phase = "cleanup" /\ deps'[d].phase = "done"
      BY <2>3, AdvancesEffect
    <3>2. d \in Dep
      OBVIOUS
    <3>3. CASE deps[d].phase \in Short \union {"routing"}
      BY <2>1, <2>3, <3>2, <3>3, InProgress DEF Undecided
    <3>4. CASE deps'[d].phase = "done"
      <4>1. deps'[d].status \notin ACTIVE
        BY <1>2, <3>2, <3>4 DEF PhaseOf, Undecided, Short
      <4> QED
        BY <1>1, <2>3, <3>1, <4>1, DomainKept DEF Elsewhere
    <3> QED
      BY <3>1, <3>3, <3>4
  <2>4. ASSUME NEW d \in Dep, observeApplication(d) \/ Freed(d)
        PROVE  service'.status \notin {"gone", "deleting"}
    <3>1. deps[d].phase \in Undecided /\ service'.status = service.status
      BY <2>4, ObserveEffect, ServiceEffect DEF Undecided, Short
    <3> QED
      BY <3>1, InProgress
  <2>5. CASE Promoted \/ FromSvc \/ Reroutes \/ Records
    BY <2>1, <2>5, PromotedEffect, FromSvcEffect, ServiceEffect
  <2>6. CASE Failed
    <3>1. deps[alarm.d].phase \in Undecided /\ service'.status \in {service.status, "failed"}
          /\ alarm.d \in Dep
      BY <2>6, FailedEffect DEF Undecided
    <3> QED
      BY <2>1, <3>1, InProgress
  <2>7. CASE Queues /\ UNCHANGED service
    BY <2>1, <2>7, QueuesEffect
  <2>8. CASE Retire
    <3>1. \A d \in Dep : deps'[d].status \in {deps[d].status, "rolled_back"} /\ UNCHANGED service
      BY <2>8, RetireEffect
    <3>2. \A d \in Dep : deps'[d].status \in ACTIVE => deps[d].status \in ACTIVE
      BY <3>1 DEF ACTIVE
    <3>3. service' = service /\ domain' = domain
      BY <2>8, <3>1 DEF Retire
    <3> QED
      BY <1>1, <3>2, <3>3
  <2>9. CASE Erase
    BY <1>1, <2>9, EraseEffect, DomainKept DEF OfService, NoDoc, ACTIVE
  <2>10. CASE Moved
    BY <2>1, <2>10, ServiceEffect DEF OfService, OnService
  <2>11. CASE removeService /\ UNCHANGED deps
    <3>1. /\ domain = "none" /\ service'.status = "deleting"
          /\ \A d \in Dep : deps[d].status \notin ACTIVE
      BY <2>11 DEF removeService, Service
    <3> QED
      BY <2>11, <3>1, DomainKept
  <2> QED
    BY <2>1, <2>2, <2>3, <2>4, <2>5, <2>6, <2>7, <2>8, <2>9, <2>10, <2>11, KindsOf DEF Kinds
<1> QED
  BY <1>3 DEF Removal

LEMMA StartFailureAt ==
  ASSUME OwnerInv, NEW d \in Dep, StartFailure(d), ~Resumes
  PROVE  /\ d \notin {service'.current, service'.promotion} /\ alarm'.svc = service'
         /\ alarm'.d = d /\ Stage' = "candidate"
<1> USE OwnerParts
<1>1. /\ alarm'.d = d /\ Stage' = "candidate" /\ alarm'.svc = service' /\ service.current # d
  BY BeginsAt
<1>2. d # None
  BY DeploymentAssumption DEF Dep, None
<1>3. service'.current = service.current /\ service'.promotion # d
  <2>1. CASE service.promotion = d
    <3>1. service' = Cleared(service)
      BY <1>1, <2>1 DEF StartFailure
    <3> QED
      BY <1>2, <3>1, ClearedEffect
  <2>2. CASE service.promotion # d
    BY <1>1, <2>2 DEF StartFailure
  <2> QED
    BY <2>1, <2>2
<1> QED
  BY <1>1, <1>3

\* What the alarm holds of the service when a step begins a stage.
LEMMA OfServiceBegun ==
  ASSUME MaxEdits = 0, OwnerInv, [Next]_vars, Begins, ~Away, ~Resumes
  PROVE  OfService'
<1> USE OwnerParts
<1>1. domain # "none" => domain' # "none"
  BY DomainKept
<1>2. ASSUME NEW d \in Dep, Route(d) \/ StartCleanup(d)
      PROVE  OfService'
  BY <1>2, BeginsAt DEF OfService, OnService
<1>3. ASSUME NEW d \in Dep, StartFailure(d) PROVE OfService'
  BY <1>3, StartFailureAt DEF OfService, OnService
<1>4. CASE CleanupNext \/ Retire
  BY <1>4, CleanupNextAt, RetireAt DEF OfService, OnService
<1>5. CASE StopCandidate
  <2>1. /\ Stage = "candidate" /\ Stage' = "failed" /\ alarm'.d = alarm.d
        /\ alarm'.svc = alarm.svc /\ UNCHANGED service
    BY <1>5, BeginsAt DEF StopCandidate, stored
  <2> QED
    BY <2>1 DEF OfService, OnService
<1>6. CASE ListServices
  <2>1. alarm'.svc = service /\ UNCHANGED service /\ Stage' \in {"domains", "service"}
        /\ (Stage' = "service" => service.status # "gone")
    BY <1>6, ListServicesAt DEF ListServices, stored
  <2> QED
    BY <2>1 DEF OfService, OnService
<1>7. CASE ReconcileService
  <2>1. UNCHANGED service /\ Stage = "service"
    BY <1>7, ReconcileServiceAt DEF ReconcileService, stored
  <2>2. CASE Stage' = "erase" /\ alarm.svc.status = "deleting"
    BY <2>1, <2>2 DEF OfService, OnService
  <2>3. CASE Stage' = "health" /\ alarm.svc.promotion = None /\ alarm.svc.status # "deleting"
             /\ alarm'.svc = alarm.svc
    BY <2>1, <2>3 DEF OfService, OnService
  <2>4. CASE Stage' = "moved" /\ alarm.svc.promotion = alarm.svc.current
             /\ alarm.svc.status # "deleting" /\ alarm'.svc = alarm.svc
    BY <2>1, <2>4 DEF OfService, OnService
  <2> QED
    BY <1>7, <2>2, <2>3, <2>4, ReconcileServiceAt
<1>8. CASE NextErased
  <2>1. UNCHANGED service /\ Stage = "erase" /\ Stage' = "erase"
    BY <1>8, NextErasedAt DEF NextErased, StopEnds, stored
  <2> QED
    BY <2>1 DEF OfService, OnService
<1>9. CASE Moved
  <2>1. Stage = "moved" /\ Stage' = "health" /\ alarm'.svc = service'
    BY <1>9, MovedAt
  <2> QED
    BY <1>9, <2>1, ServiceEffect DEF OfService, OnService
<1>10. CASE Unhealthy
  <2>1. Stage = "health" /\ Stage' = "rollback" /\ alarm'.svc = alarm.svc
    BY <1>10, UnhealthyAt
  <2>2. SameRelease(service)
    BY <1>10, SameService DEF Unhealthy
  <2> QED
    BY <2>1, <2>2 DEF OfService, OnService, SameRelease
<1>11. CASE Healthy
  <2>1. CASE UNCHANGED service
    <3>2. CASE Stage' = "record"
      BY <1>11, <2>1, <3>2, HealthyAt DEF OfService, OnService
    <3>3. CASE Stage' = "rerouted"
      <4>1. alarm'.svc = service' /\ Reroutes
        BY <1>11, <3>3, HealthyAt DEF Reroutes
      <4> QED
        BY <3>3, <4>1, ServiceEffect DEF OfService, OnService
    <3> QED
      BY <1>11, <3>2, <3>3, HealthyAt
  <2>2. CASE ~UNCHANGED service
    <3>1. Stage' = "rerouted" /\ alarm'.svc = service' /\ Reroutes
      BY <1>11, <2>2, HealthyAt DEF Reroutes
    <3> QED
      BY <3>1, ServiceEffect DEF OfService, OnService
  <2> QED
    BY <2>1, <2>2
<1>12. CASE Rerouted
  <2>1. Stage = "rerouted" /\ Stage' = "record" /\ UNCHANGED service
        /\ alarm'.svc = [Cleared(alarm.svc) EXCEPT !.address = alarm.svc.promoted]
    BY <1>12, ReroutedAt DEF Rerouted, stored
  <2>2. alarm'.svc.current = alarm.svc.current /\ alarm'.svc.status = alarm.svc.status
        /\ alarm'.svc.promotion = None
    BY <2>1, ClearedEffect
  <2> QED
    BY <2>1, <2>2 DEF OfService, OnService
<1>13. CASE ReconcileDomains
  <2>1. Stage' = "probe" /\ domain = "pending"
    BY <1>13, ReconcileDomainsAt
  <2> QED
    BY <1>1, <2>1 DEF OfService, OnService
<1> QED
  BY <1>2, <1>3, <1>4, <1>5, <1>6, <1>7, <1>8, <1>9, <1>10, <1>11, <1>12, <1>13 DEF Begins

LEMMA OfServiceKept ==
  ASSUME MaxEdits = 0, OwnerInv, [Next]_vars
  PROVE  OfService'
<1> USE OwnerParts
<1>1. CASE Away \/ Resumes \/ AlarmStarts
  <2>1. Stage' \in {"idle", "domains", "work"}
    BY <1>1, AtRest
  <2> QED
    BY <2>1 DEF OfService, OnService
<1>2. ASSUME alarm'.svc = alarm.svc, alarm'.d = alarm.d, Stage' = Stage,
             UNCHANGED service \/ removeService
      PROVE  OfService'
  <2>1. domain # "none" => domain' # "none"
    BY DomainKept
  <2>2. CASE UNCHANGED service
    BY <1>2, <2>1, <2>2 DEF OfService
  <2>3. CASE removeService
    <3>1. SameRelease(service) /\ service'.status = "deleting"
      BY <2>3, SameService DEF removeService, Service
    <3>2. Stage \notin {"candidate", "failed"}
      <4>1. Stage \in {"candidate", "failed"} =>
              alarm.d \in DOMAIN alarm.work /\ alarm.work[alarm.d].phase = "failure_cleanup"
        BY DEF Holds, OnDeployment, PhaseAt
      <4> QED
        BY <2>3, <4>1, HeldIsStored, InProgress DEF Undecided, Same
    <3> QED
      BY <1>2, <2>1, <3>1, <3>2 DEF OfService, SameRelease
  <2> QED
    BY <1>2, <2>2, <2>3
<1>3. CASE UNCHANGED alarm /\ (UNCHANGED service \/ User)
  <2>1. Stage' = Stage
    BY <1>3 DEF Stage
  <2>2. UNCHANGED service \/ removeService
    BY <1>3, NoEdits DEF User, Deploy, Rollback
  <2> QED
    BY <1>2, <1>3, <2>1, <2>2
<1>4. CASE Inner /\ UNCHANGED service
  BY <1>2, <1>4 DEF Inner
<1> QED
  BY <1>1, <1>3, <1>4, AlarmSteps, OfServiceBegun

LEMMA InitRelease ==
  ASSUME Init
  PROVE  /\ alarm = Idle /\ Stage = "idle" /\ edit = NoService /\ alarm.svc = NoService
         /\ service.status \in {"healthy", "not_deployed"} /\ service.current \in {None, 1}
         /\ service.promotion = None /\ service.promoted = Nowhere
         /\ service.address = IF service.current = 1 THEN <<1, 0>> ELSE Nowhere
         /\ \A d \in Dep : IF service.current = d
              THEN deps[d].phase = "done" /\ deps[d].address = <<1, 0>> /\ deps[d].placed
                   /\ deps[d].status = "healthy" /\ ~deps[d].built
              ELSE deps[d] = NoDoc
<1>1. PICK start \in Start :
        /\ service = IF start[1] THEN [NoService EXCEPT !.status = "healthy",
                                         !.current = 1, !.address = <<1, 0>>]
                     ELSE [NoService EXCEPT !.status = "not_deployed"]
        /\ deps = [d \in Dep |-> IF start[1] /\ d = 1
             THEN [NoDoc EXCEPT !.status = "healthy", !.placed = TRUE,
                                !.address = <<1, 0>>]
             ELSE NoDoc]
  BY DEF Init
<1>2. alarm = Idle /\ edit = NoService /\ Idle.at = "idle" /\ Idle.svc = NoService
  BY IdleFields DEF Init
<1>3. Stage = "idle"
  BY <1>2 DEF Stage, InRefresh
<1>4. None \notin Dep
  BY DeploymentAssumption DEF Dep, None
<1>5. CASE start[1]
  BY <1>1, <1>2, <1>3, <1>4, <1>5 DEF NoService, NoDoc, None, Nowhere
<1>6. CASE ~start[1]
  BY <1>1, <1>2, <1>3, <1>4, <1>6 DEF NoService, NoDoc, None, Nowhere
<1> QED
  BY <1>5, <1>6

LEMMA InitOwner == Init => OwnerInv
<1> SUFFICES ASSUME Init PROVE OwnerInv
  OBVIOUS
<1> USE InitRelease
<1>1. ActiveInv /\ edit = NoService
  BY InitActive
<1>2. None \notin Dep /\ 1 \in Dep
  BY DeploymentAssumption DEF Dep, None
<1>3. Owner
  BY <1>2 DEF Owner, Reserved, NoService, None, Nowhere
<1>4. OfService
  BY DEF OfService, OnService
<1>5. Removal
  BY DEF Removal
<1>6. Unfinished
  <2>1. \A d \in Dep : deps[d].status = "failed" => deps[d].phase = "done"
    BY DEF NoDoc
  <2>2. DOMAIN alarm.work = {}
    BY IdleTyped
  <2> QED
    BY <2>1, <2>2 DEF Unfinished
<1> QED
  BY <1>1, <1>3, <1>4, <1>5, <1>6 DEF OwnerInv

LEMMA OwnerInvKept ==
  ASSUME MaxEdits = 0
  PROVE  OwnerInv /\ [Next]_vars => OwnerInv'
<1> SUFFICES ASSUME OwnerInv, [Next]_vars PROVE OwnerInv'
  OBVIOUS
<1>1. ActiveInv' /\ edit' = NoService
  BY OwnerParts, ActiveKept, NoEdits
<1> QED
  BY <1>1, OwnerKept, OfServiceKept, RemovalKept, UnfinishedKept DEF OwnerInv

\* One deployment at a time owns a service and its promotion, and the owner still
\* works on it, unless a PUT saves a service document that it read before
\* (deploy.ts, observeApplication and failureCleanup; runtime.ts, reconcileRuntime).
THEOREM OwnerAlways ==
  ASSUME MaxEdits = 0
  PROVE  Spec => []OneOwner
<1>1. OwnerInv => OneOwner
  BY DEF OwnerInv, ActiveInv, Latest, Owner, OneOwner, OneActive, PromotionHasOwner
<1>2. OwnerInv /\ [Next]_vars => OwnerInv'
  BY OwnerInvKept
<1> QED
  BY <1>1, <1>2, InitOwner, PTL DEF Spec
-----------------------------------------------------------------------------
(* The route: the tunnel's configuration is the service's, when it matters. *)

LEMMA RouteParts ==
  ASSUME RouteInv
  PROVE  /\ OwnerInv /\ Refreshing /\ Routing /\ Outside
         /\ tunnel \in [hash : Address, config : Address, live : Address, acked : BOOLEAN]
BY OwnerParts, TypedParts DEF RouteInv, Outside

LEMMA ThrowLeaves ==
  ASSUME OwnerInv, alarm.at \in InRefresh, NEW kind, Throw(kind)
  PROVE  Away \/ Resumes
<1>1. alarm.back \in {"promote", "candidate"} => alarm.d \in DOMAIN alarm.work
  BY OwnerParts DEF Holds, Stage, OnDeployment
<1> QED
  BY <1>1, OwnerParts, ThrowAlarm DEF Away, Resumes

LEMMA ApplyAt ==
  ASSUME RouteInv, Apply
  PROVE  /\ alarm.at = "apply" /\ alarm.target = Upstream /\ domain # "none" /\ UNCHANGED domain
         /\ tunnel'.live = tunnel.live
         /\ \/ /\ UNCHANGED <<tunnel, service, deps>> /\ tunnel.hash = Upstream
               /\ alarm'.at = "ack" /\ alarm'.target = Upstream
               /\ Stage' = Stage
            \/ /\ tunnel.hash # Upstream /\ tunnel'.hash = Upstream /\ tunnel'.config = Upstream
               /\ ~tunnel'.acked /\ UNCHANGED <<service, deps>>
               /\ alarm'.at = "ack" /\ alarm'.target = Upstream /\ Stage' = Stage
            \/ /\ tunnel.hash # Upstream /\ tunnel'.hash = tunnel.hash
               /\ tunnel'.config = Upstream /\ tunnel'.acked = tunnel.acked
               /\ Away \/ Resumes
               /\ Fault("put")
            \/ UNCHANGED tunnel /\ (Away \/ Resumes)
<1> USE OwnerParts, RouteParts
<1>1. alarm.at = "apply" /\ alarm.target = Upstream /\ domain # "none" /\ UNCHANGED domain
  BY DEF Apply, Refreshing
<1>2. ASSUME alarm' = [alarm EXCEPT !.at = "ack"]
      PROVE  alarm'.at = "ack" /\ alarm'.target = Upstream /\ Stage' = Stage
  BY <1>1, <1>2 DEF Alarms, Stage, InRefresh
<1>3. \A kind : Throw(kind) => Away \/ Resumes
  BY <1>1, ThrowLeaves DEF InRefresh
<1>4. ASSUME tunnel' = [tunnel EXCEPT !.hash = Upstream, !.config = Upstream, !.acked = FALSE]
      PROVE  /\ tunnel'.hash = Upstream /\ tunnel'.config = Upstream /\ ~tunnel'.acked
             /\ tunnel'.live = tunnel.live
  BY <1>4
<1>5. ASSUME tunnel' = [tunnel EXCEPT !.config = Upstream]
      PROVE  /\ tunnel'.hash = tunnel.hash /\ tunnel'.config = Upstream
             /\ tunnel'.acked = tunnel.acked /\ tunnel'.live = tunnel.live
  BY <1>5
<1> QED
  BY <1>1, <1>2, <1>3, <1>4, <1>5 DEF Apply

LEMMA TunnelSteps ==
  ASSUME [Next]_vars
  PROVE  UNCHANGED tunnel \/ Connect \/ Apply
<1>1. ASSUME NEW d \in Dep, Phase(d) PROVE UNCHANGED tunnel
  BY <1>1
  DEF Phase, DeadlineExceeded, Interrupted, Rejected, Prepare, SubmitBuild, BuildEnds,
      PrepareApp, SubmitApp, NotYet, observeApplication, Route, StartCleanup, StartFailure,
      ensureJob, outside
<1> QED
  BY <1>1
  DEF Next, vars, outside, User, Deploy, Rollback, removeService, EditRead, EditSave, Evicted,
      Alarm, AlarmStarts, Configure, Ack, Promote, StopWorks, StopFails, StopEnds,
      CleanupNext, Retire, Cleaned, StopCandidate, Failed, ListServices, ReconcileService,
      Erase, Moved, Unhealthy, AutomaticRollback, Healthy, Rerouted, RecordHealth, HealthFails,
      ReconcileDomains, Probe, Environment, Place, Nomad, Exit, Move, Deadline

LEMMA ConnectAt ==
  ASSUME RouteInv, Connect
  PROVE  /\ UNCHANGED <<service, deps, created, alarm, domain, stops>>
         /\ tunnel'.hash = tunnel.hash /\ tunnel'.config = tunnel.config
         /\ tunnel'.live = tunnel.config /\ tunnel'.acked
BY RouteParts DEF Connect, stored

\* While the alarm refreshes the route, only the refresh moves it.
LEMMA RefreshSteps ==
  ASSUME [Next]_vars, alarm.at \in InRefresh
  PROVE  \/ UNCHANGED alarm \/ Configure \/ Apply \/ Ack \/ Away
<1>1. ASSUME NEW d \in Dep PROVE ~Phase(d)
  BY <1>1
  DEF Phase, DeadlineExceeded, Interrupted, Rejected, Prepare, SubmitBuild, BuildEnds,
      PrepareApp, SubmitApp, NotYet, observeApplication, Route, StartCleanup, StartFailure,
      Turn, Listed, InRefresh
<1> QED
  BY <1>1
  DEF Next, vars, InRefresh, Away, User, Deploy, Rollback, removeService, EditRead, EditSave,
      Evicted, Alarm, AlarmStarts, Promote, StopWorks, StopFails, StopEnds,
      CleanupNext, Retire, Cleaned, StopCandidate, Failed, ListServices, ReconcileService,
      Erase, Moved, Unhealthy, AutomaticRollback, Healthy, Rerouted, RecordHealth, HealthFails,
      ReconcileDomains, Probe, Environment, Place, Nomad, Exit, Move, Connect, Deadline

LEMMA RefreshingKept ==
  ASSUME MaxEdits = 0, RouteInv, [Next]_vars
  PROVE  Refreshing'
<1> USE OwnerParts, RouteParts
<1> DEFINE Holding ==   \* the alarm is where the route has been refreshed
      alarm.at \notin InRefresh
      /\ (Stage = "promote"
          \/ (Stage \in {"candidate", "failed"} /\ alarm.work[alarm.d].address # Nowhere))
<1>1. CASE Away \/ Resumes \/ AlarmStarts
  <2>1. Stage' \in {"idle", "domains", "work"} /\ alarm'.at \in {"idle", "domains", "work"}
    BY <1>1, AtRest
  <2> QED
    BY <2>1 DEF Refreshing
<1>2. CASE Configure /\ ~Away /\ ~Resumes
  <2>1. \/ domain = "none" /\ alarm' = [alarm EXCEPT !.at = alarm.back]
        \/ /\ domain # "none" /\ Upstream # Nowhere /\ UNCHANGED service
           /\ alarm' = [alarm EXCEPT !.at = "apply", !.target = Upstream]
    BY <1>2, ThrowLeaves DEF Configure, InRefresh
  <2>2. UNCHANGED domain /\ alarm.back \in ByRefresh
    BY <1>2 DEF Configure, Holds, InRefresh
  <2>3. CASE domain = "none" /\ alarm' = [alarm EXCEPT !.at = alarm.back]
    <3>1. alarm'.at \notin InRefresh
      BY <2>2, <2>3 DEF Alarms, InRefresh, ByRefresh
    <3> QED
      BY <2>2, <2>3, <3>1 DEF Refreshing, InRefresh
  <2>4. CASE /\ domain # "none" /\ Upstream # Nowhere /\ UNCHANGED service
             /\ alarm' = [alarm EXCEPT !.at = "apply", !.target = Upstream]
    <3>1. alarm'.at = "apply" /\ alarm'.target = Upstream /\ Upstream' = Upstream
      BY <2>4 DEF Alarms, Upstream
    <3> QED
      BY <2>2, <2>4, <3>1 DEF Refreshing, InRefresh
  <2> QED
    BY <2>1, <2>3, <2>4
<1>3. CASE Apply /\ ~Away /\ ~Resumes
  <2>1. /\ alarm'.at = "ack" /\ alarm'.target = Upstream /\ tunnel'.hash = Upstream
        /\ UNCHANGED <<service, domain>> /\ domain # "none" /\ Upstream # Nowhere
    BY <1>3, ApplyAt DEF Refreshing
  <2>2. Upstream' = Upstream
    BY <2>1 DEF Upstream
  <2> QED
    BY <2>1, <2>2 DEF Refreshing, InRefresh
<1>4. CASE Ack /\ ~Away /\ ~Resumes
  <2>1. /\ alarm' = [alarm EXCEPT !.at = alarm.back] /\ UNCHANGED <<service, tunnel>>
        /\ alarm.at = "ack" /\ tunnel.acked
    BY <1>4, ThrowLeaves DEF Ack, InRefresh, Acknowledged, outside
  <2>2. alarm'.at \notin InRefresh /\ Upstream' = Upstream
    BY <2>1 DEF Alarms, Holds, InRefresh, ByRefresh, Upstream
  <2>3. tunnel.hash = Upstream /\ Upstream # Nowhere
    BY <2>1 DEF Refreshing
  <2> QED
    BY <2>1, <2>2, <2>3 DEF Refreshing, InRefresh
<1>5. ASSUME SameRelease(service), UNCHANGED tunnel \/ Connect,
             alarm'.at \in {"apply", "ack"} => UNCHANGED alarm, Holding' => Holding
      PROVE  Refreshing'
  <2>1. Upstream' = Upstream
    BY <1>5 DEF Upstream, SameRelease
  <2>2. tunnel'.hash = tunnel.hash /\ (tunnel.acked => tunnel'.acked)
    BY <1>5, ConnectAt
  <2> QED
    BY <1>5, <2>1, <2>2, DomainKept DEF Refreshing
<1>6. CASE UNCHANGED alarm /\ ~Apply /\ (UNCHANGED service \/ User)
  <2>1. SameRelease(service)
    BY <1>6, NoEdits, SameService DEF User, Deploy, Rollback, removeService
  <2>2. Stage' = Stage
    BY <1>6 DEF Stage
  <2> QED
    BY <1>5, <1>6, <2>1, <2>2, TunnelSteps
<1>7. CASE Inner /\ UNCHANGED service /\ alarm.at = "stop"
  <2>1. UNCHANGED tunnel \/ Connect
    BY <1>7, TunnelSteps DEF Apply
  <2> QED
    BY <1>5, <1>7, <2>1, SameService DEF Inner, InRefresh
<1>8. CASE Begins /\ ~Away /\ ~Resumes
  <2>1. ASSUME alarm'.at \notin {"apply", "ack"}, ~Holding'
        PROVE  Refreshing'
    BY <2>1 DEF Refreshing
  <2>2. ASSUME NEW d \in Dep, Route(d) \/ StartCleanup(d) PROVE Refreshing'
    BY <2>1, <2>2, BeginsAt DEF InRefresh
  <2>3. ASSUME NEW d \in Dep, StartFailure(d) PROVE Refreshing'
    <3>1. /\ alarm'.d = d /\ alarm'.work = alarm.work /\ alarm'.at \in {"refresh", "candidate"}
      BY <1>8, <2>3, BeginsAt
    <3>2. CASE alarm'.at = "refresh"
      BY <2>1, <3>2 DEF InRefresh
    <3>3. CASE alarm'.at = "candidate" /\ domain = "none"
      BY <3>3, DomainKept DEF Refreshing
    <3>4. CASE alarm'.at = "candidate" /\ domain # "none"
      <4>1. alarm.work[d].address = Nowhere
        <5> DEFINE here == [alarm EXCEPT !.d = d, !.svc = service]
        <5>1. /\ Refresh(here, "candidate").at = "refresh"
              /\ Refresh([here EXCEPT !.svc = Cleared(service)], "candidate").at = "refresh"
          BY DEF Refresh, Alarms
        <5>2. \/ service.current = d
              \/ alarm' = Refresh([here EXCEPT !.svc = Cleared(service)], "candidate")
              \/ alarm' = IF alarm.work[d].address # Nowhere /\ domain # "none"
                          THEN Refresh(here, "candidate") ELSE [here EXCEPT !.at = "candidate"]
          BY <2>3 DEF StartFailure
        <5>3. service.current # d
          BY <1>8, <2>3, BeginsAt
        <5> HIDE DEF here
        <5> QED
          BY <3>4, <5>1, <5>2, <5>3
      <4> QED
        BY <2>1, <3>1, <3>4, <4>1, BeginsAt, <1>8, <2>3
    <3> QED
      BY <3>1, <3>2, <3>3, <3>4
  <2>4. CASE StopCandidate
    <3>1. /\ Stage = "candidate" /\ alarm.at = "candidate" /\ alarm'.at = "stop" /\ Stage' = "failed"
          /\ alarm'.d = alarm.d /\ alarm'.work = alarm.work /\ UNCHANGED <<service, tunnel>>
      BY <2>4, BeginsAt DEF StopCandidate, stored, outside
    <3> QED
      BY <1>5, <3>1, SameService DEF InRefresh
  <2> QED
    BY <1>8, <2>1, <2>2, <2>3, <2>4, CleanupNextAt, RetireAt, ListServicesAt,
       ReconcileServiceAt, NextErasedAt, MovedAt, UnhealthyAt, HealthyAt, ReroutedAt,
       ReconcileDomainsAt DEF Begins, InRefresh
<1> QED
  BY <1>1, <1>2, <1>3, <1>4, <1>6, <1>7, <1>8, AlarmSteps, RefreshSteps DEF Inner

LEMMA InAddress ==
  ASSUME NEW x \in Address, x # Nowhere PROVE x[1] \in Dep /\ x[1] # None
BY DeploymentAssumption DEF Address, Dep, None

\* Where the ingress is computed to lead is a release that has been observed.
LEMMA UpstreamRouted ==
  ASSUME OwnerInv, Upstream # Nowhere
  PROVE  /\ Upstream \in Address /\ Routed(Upstream)
         /\ service.promotion \notin {None, service.current} => Upstream = service.promoted
         /\ Upstream[1] \in {service.current, service.promotion}
<1> USE OwnerParts
<1>1. service.address \in Address /\ service.promoted \in Address
      /\ service.promotion \in Dep \union {None} /\ service.current \in Dep \union {None}
  BY InService
<1>2. CASE service.promoted # Nowhere
  <2>1. Upstream = service.promoted
    BY <1>2 DEF Upstream
  <2>2. service.promotion # None /\ service.promoted[1] = service.promotion
    BY <1>2 DEF Owner, Reserved
  <2>3. Upstream # Nowhere => deps[service.promotion].address # Nowhere
    BY <2>1, <2>2 DEF Owner
  <2> QED
    BY <1>1, <2>1, <2>2, <2>3 DEF Routed
<1>3. CASE service.promoted = Nowhere
  <2>1. Upstream = service.address
    BY <1>3 DEF Upstream
  <2>2. service.address[1] = service.current /\ service.current # None
    BY <1>1, <2>1, InAddress DEF Owner, Reserved
  <2>3. service.promotion = None
    BY <1>3 DEF Owner, Reserved
  <2>4. deps[service.current].address # Nowhere
    BY <2>2 DEF Owner
  <2> QED
    BY <1>1, <2>1, <2>2, <2>3, <2>4 DEF Routed
<1> QED
  BY <1>2, <1>3

LEMMA AddressKept ==
  ASSUME MaxEdits = 0, RouteInv, [Next]_vars, NEW e \in Dep
  PROVE  /\ ~Erase /\ deps[e].address # Nowhere => deps'[e].address # Nowhere
         /\ deps'[e].phase \in Short => deps'[e].address = Nowhere
<1> USE OwnerParts, RouteParts
<1> DEFINE Goal == /\ ~Erase /\ deps[e].address # Nowhere => deps'[e].address # Nowhere
                   /\ deps'[e].phase \in Short => deps'[e].address = Nowhere
<1>1. deps[e].phase \in Short => deps[e].address = Nowhere
  BY DEF Routing
<1>2. CASE UNCHANGED deps
  BY <1>1, <1>2
<1>3. CASE Advances
  BY <1>1, <1>3, AdvancesEffect DEF Elsewhere, Short
<1>4. ASSUME NEW d \in Dep, observeApplication(d) PROVE Goal
  BY <1>1, <1>4, ObserveEffect, Placed DEF Elsewhere, Short
<1>5. CASE Promoted \/ Failed
  BY <1>1, <1>5, PromotedEffect, FailedEffect DEF Elsewhere, SameDoc, Short
<1>6. CASE Queues
  BY <1>1, <1>6, QueuesEffect DEF Elsewhere, NoDoc
<1>7. CASE Retire
  BY <1>1, <1>7, RetireEffect DEF SameDoc
<1>8. CASE Erase
  BY <1>8, EraseEffect DEF NoDoc
<1> QED
  BY <1>2, <1>3, <1>4, <1>5, <1>6, <1>7, <1>8, KindsOf, ServiceEffect DEF Kinds, Freed, FromSvc

LEMMA RoutedKept ==
  ASSUME MaxEdits = 0, RouteInv, [Next]_vars, ~Erase
  PROVE  \A x \in Address : Routed(x) => x = Nowhere \/ deps'[x[1]].address # Nowhere
BY InAddress, AddressKept DEF Routed

\* The reservation of a promotion changes to one that is routed already, if any.
LEMMA PromotionFrom ==
  ASSUME MaxEdits = 0, OwnerInv, [Next]_vars,
         service'.promotion \notin {None, service'.current}
  PROVE  \/ SameRelease(service)
         \/ \E d \in Dep : observeApplication(d) /\ service'.promotion = d
                           /\ service'.promoted = Where(d)
<1>1. ~Promoted /\ ~Erase /\ ~FromSvc /\ ~Moved /\ ~Reroutes /\ ~Records
      /\ \A d \in Dep : ~Freed(d)
  BY PromotedEffect, EraseEffect, FromSvcEffect, ServiceEffect DEF NoService
<1> QED
  BY <1>1, KindsOf, ObserveEffect, FailedEffect, RetireEffect, SameService DEF Kinds

LEMMA RoutingKept ==
  ASSUME MaxEdits = 0, RouteInv, [Next]_vars
  PROVE  Routing'
<1> USE OwnerParts, RouteParts
<1>1. domain = "none" <=> domain' = "none"
  BY DomainKept
<1>2. domain' = "none" => tunnel'.hash = Nowhere /\ tunnel'.config = Nowhere /\ tunnel'.live = Nowhere
  BY <1>1, TunnelSteps, ConnectAt, ApplyAt DEF Routing
<1>3. tunnel'.acked /\ tunnel'.config = tunnel'.hash => tunnel'.live = tunnel'.config
  BY TunnelSteps, ConnectAt, ApplyAt DEF Routing
<1>4. ASSUME NEW x \in {tunnel'.hash, tunnel'.config, tunnel'.live}
      PROVE  x = Nowhere \/ deps'[x[1]].address # Nowhere
  <2>1. CASE Erase
    <3>1. domain = "none"
      BY <2>1, EraseEffect DEF OfService, Removal
    <3> QED
      BY <1>1, <1>2, <3>1
  <2>2. CASE ~Erase
    <3>1. x \in {tunnel.hash, tunnel.config, tunnel.live, Upstream}
      BY TunnelSteps, ConnectAt, ApplyAt
    <3>2. x \in Address /\ Routed(x)
      BY <3>1, UpstreamRouted DEF Routing, Routed, Address
    <3> QED
      BY <2>2, <3>2, RoutedKept
  <2> QED
    BY <2>1, <2>2
<1>5. ASSUME service'.promotion \notin {None, service'.current}, tunnel'.hash = service'.promoted
      PROVE  tunnel'.config = tunnel'.hash
  <2>1. CASE SameRelease(service)
    <3>1. service.promotion \notin {None, service.current} /\ tunnel'.hash = service.promoted
      BY <1>5, <2>1 DEF SameRelease
    <3>2. service.promoted # Nowhere
      BY <3>1 DEF Owner, Reserved
    <3>3. Upstream = service.promoted
      BY <3>2 DEF Upstream
    <3> QED
      BY <3>1, <3>3, TunnelSteps, ConnectAt, ApplyAt DEF Routing
  <2>2. ASSUME NEW d \in Dep, observeApplication(d), service'.promoted = Where(d)
        PROVE  FALSE
    <3>1. deps[d].address = Nowhere /\ UNCHANGED tunnel
      BY <2>2, ObserveEffect DEF Routing, Short, observeApplication, outside
    <3>2. Where(d) # Nowhere /\ Where(d)[1] = d
      BY Placed
    <3> QED
      BY <1>5, <2>2, <3>1, <3>2 DEF Routing, Routed
  <2> QED
    BY <1>5, <2>1, <2>2, PromotionFrom
<1>6. \A d \in Dep : deps'[d].phase \in Short => deps'[d].address = Nowhere
  BY AddressKept
<1> QED
  BY <1>1, <1>2, <1>3, <1>4, <1>5, <1>6 DEF Routing, Routed

LEMMA RouteInvKept ==
  ASSUME MaxEdits = 0
  PROVE  RouteInv /\ [Next]_vars => RouteInv'
BY OwnerInvKept, RefreshingKept, RoutingKept, RouteParts DEF RouteInv

LEMMA InitRoute == Init => RouteInv
<1> SUFFICES ASSUME Init PROVE RouteInv
  OBVIOUS
<1> USE InitRelease
<1>1. OwnerInv
  BY InitOwner
<1>2. alarm.at = "idle"
  BY IdleFields
<1>3. Refreshing
  BY <1>2 DEF Refreshing
<1>4. PICK start \in Start :
        /\ domain = start[2] /\ tunnel = [hash |-> IF start[2] = "healthy" THEN <<1, 0>> ELSE Nowhere,
             config |-> IF start[2] = "healthy" THEN <<1, 0>> ELSE Nowhere,
             live |-> IF start[2] = "healthy" THEN <<1, 0>> ELSE Nowhere, acked |-> TRUE]
        /\ start[1] => service.current = 1
  BY DEF Init, NoService
<1>5. start[2] = "healthy" => start[1]
  <2>1. start \in BOOLEAN \X {"none", "pending", "healthy"} /\ <<FALSE, "healthy">> \notin Start
    BY DeploymentAssumption
  <2>2. start = <<start[1], start[2]>> /\ start[1] \in BOOLEAN
    BY <2>1
  <2> QED
    BY <2>1, <2>2
<1>6. Routing
  <2>1. 1 \in Dep
    BY DeploymentAssumption DEF Dep
  <2>2. tunnel.hash \in {Nowhere, <<1, 0>>} /\ tunnel.config = tunnel.hash
        /\ tunnel.live = tunnel.hash /\ (domain = "none" => tunnel.hash = Nowhere)
        /\ (tunnel.hash = <<1, 0>> => service.current = 1)
    BY <1>4, <1>5 DEF Nowhere
  <2>3. \A d \in Dep : deps[d].phase \in Short => deps[d].address = Nowhere
    BY DEF NoDoc, Short
  <2>4. Routed(tunnel.hash)
    <3>1. service.current = 1 => deps[1].address # Nowhere
      BY <2>1 DEF Nowhere
    <3> QED
      BY <2>2, <3>1 DEF Routed
  <2> QED
    BY <2>2, <2>3, <2>4 DEF Routing
<1> QED
  BY <1>1, <1>3, <1>6 DEF RouteInv

\* The current release changes only to the owner of the promotion, recorded as
\* healthy, when the connectors serve its address: neither a lost answer of
\* Cloudflare nor a late alarm promotes a release that visitors do not reach
\* (deploy.ts, routeDeployment; integrations.ts, refreshServiceDomains).
THEOREM CurrentAfterRoutingAlways ==
  ASSUME MaxEdits = 0
  PROVE  Spec => CurrentAfterRouting
<1>1. ASSUME RouteInv, [Next]_vars, service'.current # service.current, service' # NoService
      PROVE  /\ service.promotion = service'.current
             /\ deps'[service'.current].status = "healthy"
             /\ domain # "none" => tunnel.live = service'.address
  <2> USE OwnerParts, RouteParts, <1>1
  <2>1. Promoted
    <3>1. Moved => alarm.svc.current = service.current
      BY ServiceEffect DEF OfService, OnService
    <3> QED
      BY <3>1, KindsOf, ObserveEffect, FailedEffect, RetireEffect, EraseEffect, FromSvcEffect,
         ServiceEffect DEF Kinds, SameRelease
  <2>2. /\ alarm.at = "promote" /\ service.promotion = alarm.d /\ service'.current = alarm.d
        /\ alarm.d # None /\ alarm.d # service.current /\ deps'[alarm.d].status = "healthy"
        /\ service'.address = deps[alarm.d].address
    BY <2>1, PromotedEffect, HeldIsStored
  <2>3. service.promoted # Nowhere /\ deps[alarm.d].address = service.promoted
    BY <2>2 DEF Owner, Reserved
  <2>4. domain # "none" => tunnel.live = service.promoted
    <3>1. Upstream = service.promoted
      BY <2>3 DEF Upstream
    <3>2. Stage = "promote" /\ alarm.at \notin InRefresh
      BY <2>2 DEF Stage, InRefresh
    <3> QED
      BY <2>2, <3>1, <3>2 DEF Refreshing, Routing
  <2> QED
    BY <2>2, <2>3, <2>4
<1>2. RouteInv /\ [Next]_vars => [service'.current # service.current /\ service' # NoService =>
       /\ service.promotion = service'.current
       /\ deps'[service'.current].status = "healthy"
       /\ domain # "none" => tunnel.live = service'.address]_vars
  BY <1>1
<1>3. RouteInv /\ [Next]_vars => RouteInv'
  BY RouteInvKept
<1> QED
  BY <1>2, <1>3, InitRoute, PTL DEF Spec, CurrentAfterRouting
-----------------------------------------------------------------------------
(* Stops: begun for releases that are over, of jobs nobody is served by.   *)

LEMMA StopsSteps ==
  ASSUME [Next]_vars PROVE UNCHANGED stops \/ StopWorks
<1>1. ASSUME NEW d \in Dep, Phase(d) PROVE UNCHANGED stops
  BY <1>1
  DEF Phase, DeadlineExceeded, Interrupted, Rejected, Prepare, SubmitBuild, BuildEnds,
      PrepareApp, SubmitApp, NotYet, observeApplication, Route, StartCleanup, StartFailure,
      ensureJob
<1> QED
  BY <1>1
  DEF Next, vars, outside, User, Deploy, Rollback, removeService, EditRead, EditSave, Evicted,
      Alarm, AlarmStarts, Configure, Apply, Ack, Promote, StopFails, StopEnds,
      CleanupNext, Retire, Cleaned, StopCandidate, Failed, ListServices, ReconcileService,
      Erase, Moved, Unhealthy, AutomaticRollback, Healthy, Rerouted, RecordHealth, HealthFails,
      ReconcileDomains, Probe, Environment, Place, Nomad, Exit, Move, Connect, Deadline

LEMMA StopWorksAt ==
  ASSUME OwnerInv, StopWorks
  PROVE  /\ alarm.at = "stop" /\ alarm.jobs \in Seq(Job) /\ 1 \in DOMAIN alarm.jobs
         /\ J = alarm.jobs[1] /\ J \in Job
         /\ UNCHANGED <<service, deps, created, domain, tunnel>>
         /\ \A j \in Job : j # J => stops'[j] = stops[j]
         /\ \/ UNCHANGED alarm \/ Away \/ Resumes
            \/ stops[J].phase = "done" /\ alarm' = [alarm EXCEPT !.jobs = Tail(@)]
<1> USE OwnerParts
<1>1. alarm.at = "stop" /\ alarm.jobs # <<>> /\ alarm.jobs \in Seq(Job)
  BY DEF StopWorks, Alarms
<1>2. 1 \in DOMAIN alarm.jobs /\ J = alarm.jobs[1] /\ J \in Job
  BY <1>1 DEF J
<1>3. StopThrows => Away \/ Resumes
  BY <1>1 DEF StopThrows, Away, Resumes, Holds, Stage, OnDeployment, ByStop
<1>4. stops \in [Job -> [phase : {"none", "stop", "observe", "done"}, of : {-1} \union Allocation]]
  BY TypedParts DEF Outside
<1>5. \A j \in Job : j # J => stops'[j] = stops[j]
  BY <1>4 DEF StopWorks, StopStep
<1>6. UNCHANGED <<service, deps, created, domain, tunnel>>
  BY DEF StopWorks, stored
<1>7. \/ UNCHANGED alarm \/ StopThrows
      \/ stops[J].phase = "done" /\ alarm' = [alarm EXCEPT !.jobs = Tail(@)]
  BY DEF StopWorks, StopStep
<1> QED
  BY <1>1, <1>2, <1>3, <1>5, <1>6, <1>7

LEMMA JobPairs ==
  /\ \A j \in Job : j[1] \in {"app", "build"} /\ j[2] \in Dep /\ j = <<j[1], j[2]>>
  /\ \A d \in Dep : <<"app", d>> \in Job /\ <<"build", d>> \in Job
BY DEF Job

LEMMA ListedJobs ==
  ASSUME NEW doc, NEW d
  PROVE  /\ \A i \in DOMAIN Apps(doc, d) : doc.placed /\ Apps(doc, d)[i] = <<"app", d>>
         /\ \A i \in DOMAIN Builds(doc, d) : doc.built /\ Builds(doc, d)[i] = <<"build", d>>
         /\ \A i \in DOMAIN (Apps(doc, d) \o Builds(doc, d)) :
              LET j == (Apps(doc, d) \o Builds(doc, d))[i] IN
              \/ j = <<"app", d>> /\ doc.placed
              \/ j = <<"build", d>> /\ doc.built
<1>1. CASE doc.placed /\ doc.built
  BY <1>1 DEF Apps, Builds
<1>2. CASE doc.placed /\ ~doc.built
  BY <1>2 DEF Apps, Builds
<1>3. CASE ~doc.placed /\ doc.built
  BY <1>3 DEF Apps, Builds
<1>4. CASE ~doc.placed /\ ~doc.built
  BY <1>4 DEF Apps, Builds
<1> QED
  BY <1>1, <1>2, <1>3, <1>4

LEMMA Tailed ==
  ASSUME NEW s \in Seq(Job), s # <<>>
  PROVE  /\ Tail(s) \in Seq(Job)
         /\ \A i \in DOMAIN Tail(s) : i + 1 \in DOMAIN s /\ Tail(s)[i] = s[i + 1]
OBVIOUS

\* What is over stays over.
LEMMA OverKept ==
  ASSUME MaxEdits = 0, OwnerInv, [Next]_vars, NEW e \in Dep, Over(e)
  PROVE  Over(e)'
<1> USE OwnerParts
<1>1. e <= created' /\ e <= created /\ created \in Nat
  <2>1. created <= created' /\ created' \in 0..MaxDeployments
    BY LatestDeps, DepsTyped
  <2>2. e \in Nat /\ created \in Nat /\ created' \in Nat
    BY <2>1, DeploymentAssumption DEF Dep
  <2> QED
    BY <2>1, <2>2 DEF Over
<1>2. deps[e].phase \in {"cleanup", "done", "failure_cleanup"}
  BY DEF Over
<1> DEFINE Past == deps'[e].phase \in {"cleanup", "done", "failure_cleanup"}
<1>3. Past
  <2>1. CASE UNCHANGED deps
    BY <1>2, <2>1
  <2>2. CASE Advances
    BY <1>2, <2>2, AdvancesEffect DEF Elsewhere, Short
  <2>3. ASSUME NEW d \in Dep, observeApplication(d) PROVE Past
    BY <1>2, <2>3, ObserveEffect DEF Elsewhere
  <2>4. CASE Promoted \/ Failed
    BY <1>2, <2>4, PromotedEffect, FailedEffect DEF Elsewhere
  <2>5. CASE Queues
    <3>1. e # created + 1
      BY <1>1, DeploymentAssumption DEF Dep
    <3> QED
      BY <1>2, <2>5, <3>1, QueuesEffect DEF Elsewhere
  <2>6. CASE Retire \/ Erase
    BY <1>2, <2>6, RetireEffect, EraseEffect DEF NoDoc
  <2> QED
    BY <2>1, <2>2, <2>3, <2>4, <2>5, <2>6, KindsOf, ServiceEffect DEF Kinds, Freed, FromSvc
<1> QED
  BY <1>1, <1>3 DEF Over

\* A release that is over, and not of a deployment in progress.
LEMMA OverWhen ==
  ASSUME OwnerInv, NEW d \in Dep,
         \/ d < created /\ (deps[d].placed \/ deps[d].built)
         \/ service.status \in {"gone", "deleting"} /\ (deps[d].placed \/ deps[d].built)
  PROVE  Over(d) /\ deps[d].phase \in {"cleanup", "done"}
<1> USE OwnerParts
<1>1. deps[d].status \notin ACTIVE
  <2>1. created \in Nat /\ d \in Nat
    BY DeploymentAssumption DEF Dep
  <2> QED
    BY <2>1 DEF Latest, Removal
<1>2. deps[d].phase \in {"cleanup", "done"}
  BY <1>1 DEF Documents, PhaseOf, Undecided, Doc
<1>3. d <= created
  <2>1. created \in Nat /\ d \in Nat
    BY DeploymentAssumption DEF Dep
  <2>2. d > created => deps[d] = NoDoc
    BY DEF Documents
  <2>3. ~NoDoc.placed /\ ~NoDoc.built
    BY DEF NoDoc
  <2> QED
    BY <2>1, <2>2, <2>3
<1> QED
  BY <1>2, <1>3 DEF Over

\* While the alarm stops jobs, only their stopping moves it.
LEMMA StopMoves ==
  ASSUME [Next]_vars, alarm.at = "stop"
  PROVE  \/ UNCHANGED alarm /\ (UNCHANGED service \/ User)
         \/ StopWorks \/ StopFails \/ StopEnds \/ Away
<1>1. ASSUME NEW d \in Dep PROVE ~Phase(d)
  BY <1>1
  DEF Phase, DeadlineExceeded, Interrupted, Rejected, Prepare, SubmitBuild, BuildEnds,
      PrepareApp, SubmitApp, NotYet, observeApplication, Route, StartCleanup, StartFailure,
      Turn, Listed
<1> QED
  BY <1>1
  DEF Next, vars, stored, Away, User, Deploy, Rollback, removeService, EditRead, EditSave,
      Evicted, Alarm, AlarmStarts, Configure, Apply, Ack, Promote,
      CleanupNext, Retire, Cleaned, StopCandidate, Failed, ListServices, ReconcileService,
      Erase, Moved, Unhealthy, AutomaticRollback, Healthy, Rerouted, RecordHealth, HealthFails,
      ReconcileDomains, Probe, Environment, Place, Nomad, Exit, Move, Connect, Deadline

LEMMA MayStopKept ==
  ASSUME MaxEdits = 0, OwnerInv, [Next]_vars, SameRelease(service),
         alarm'.back = alarm.back, alarm'.next = alarm.next, alarm'.d = alarm.d,
         NEW j \in Job, MayStop(j)
  PROVE  MayStop(j)'
<1>1. j[2] \in Dep
  BY JobPairs
<1>2. Over(j[2])'
  BY <1>1, OverKept DEF MayStop
<1> QED
  BY <1>2 DEF MayStop, SameRelease

\* The jobs of a release that a removal has come to.
LEMMA ErasedMayStop ==
  ASSUME MaxEdits = 0, OwnerInv, [Next]_vars, NEW d \in Dep, service.status = "deleting",
         alarm'.back = "erase", alarm'.jobs = JobsOf(d)
  PROVE  Stopping'
<1>1. ASSUME NEW j \in Job, NEW i \in DOMAIN alarm'.jobs, alarm'.jobs[i] = j
      PROVE  Over(j[2])'
  <2>1. j[2] = d /\ (deps[d].placed \/ deps[d].built)
    BY <1>1, ListedJobs DEF JobsOf
  <2>2. Over(d)
    BY <2>1, OverWhen
  <2> QED
    BY <2>1, <2>2, OverKept
<1> QED
  BY <1>1 DEF Stopping, ToStop, MayStop

LEMMA StoppingKept ==
  ASSUME MaxEdits = 0, OwnerInv, StopsInv, [Next]_vars
  PROVE  Stopping'
<1> USE OwnerParts
<1>1. alarm.jobs \in Seq(Job)
  BY DEF Alarms
<1>2. CASE Away \/ Resumes \/ AlarmStarts
  BY <1>2, AtRest DEF Stopping, ToStop
<1>3. CASE UNCHANGED alarm /\ (UNCHANGED service \/ User)
  <2>1. SameRelease(service)
    BY <1>3, NoEdits, SameService DEF User, Deploy, Rollback, removeService
  <2> QED
    BY <1>3, <2>1, MayStopKept DEF StopsInv, Stopping, ToStop
<1>4. CASE alarm.at = "stop" /\ ~Away /\ ~Resumes
  <2>1. CASE alarm' = [alarm EXCEPT !.jobs = Tail(@)] /\ StopWorks
    <3>1. /\ alarm'.jobs = Tail(alarm.jobs) /\ alarm'.back = alarm.back /\ alarm'.next = alarm.next
          /\ alarm'.d = alarm.d
      BY <2>1 DEF Alarms
    <3>2. alarm.jobs # <<>> /\ SameRelease(service)
      BY <2>1, SameService DEF StopWorks, stored
    <3>3. ASSUME NEW j \in Job, NEW i \in DOMAIN alarm'.jobs, alarm'.jobs[i] = j
          PROVE  MayStop(j)'
      <4>1. i + 1 \in DOMAIN alarm.jobs /\ alarm.jobs[i + 1] = j
        BY <1>1, <3>1, <3>2, <3>3, Tailed
      <4>2. MayStop(j)
        BY <1>4, <4>1 DEF StopsInv, Stopping, ToStop
      <4> QED
        BY <3>1, <3>2, <4>2, MayStopKept
    <3> QED
      BY <3>3 DEF Stopping, ToStop
  <2>2. CASE StopEnds /\ ~NextErased
    <3>1. alarm' = [alarm EXCEPT !.at = alarm.back]
      BY <2>2 DEF StopEnds, NextErased
    <3>2. alarm'.at # "stop"
      BY <1>4, <3>1 DEF Alarms, Holds, ByStop
    <3> QED
      BY <3>2 DEF Stopping, ToStop
  <2>3. CASE NextErased
    <3>1. service.status = "deleting"
      BY <2>3, NextErasedAt DEF OfService
    <3>2. alarm.next + 1 \in Dep
      BY <2>3, NextErasedAt
    <3> QED
      BY <2>3, <3>1, <3>2, NextErasedAt, ErasedMayStop
  <2>4. CASE StopFails
    BY <1>4, <2>4 DEF StopFails, StopThrows, Away, Resumes, Holds, Stage, OnDeployment, ByStop
  <2>5. CASE StopWorks /\ UNCHANGED alarm
    BY <1>3, <2>5, StopWorksAt
  <2> QED
    BY <1>3, <1>4, <2>1, <2>2, <2>3, <2>4, <2>5, StopMoves, StopWorksAt
<1>5. CASE Inner /\ alarm.at # "stop"
  BY <1>5 DEF Inner, Stopping, ToStop, Holds, ByRefresh, InRefresh
<1>6. CASE StopCandidate
  <2>1. /\ Stage = "candidate" /\ alarm'.back = "failed" /\ alarm'.d = alarm.d
        /\ UNCHANGED <<service, deps, created>> /\ alarm.d \in DOMAIN alarm.work
        /\ alarm'.jobs = Apps(alarm.work[alarm.d], alarm.d) \o Builds(alarm.work[alarm.d], alarm.d)
    BY <1>6, BeginsAt DEF StopCandidate, stored, Stop, Alarms, Holds, OnDeployment
  <2>2. PICK e \in Dep : e = alarm.d
    BY <2>1
  <2>3. Over(e)' /\ e \notin {service'.current, service'.promotion}
    <3>1. deps[e].phase = "failure_cleanup"
      BY <2>1, <2>2, HeldIsStored DEF Holds, OnDeployment, PhaseAt, Same
    <3>2. e <= created
      BY <3>1, DeploymentAssumption DEF Documents, NoDoc, Dep
    <3> QED
      BY <2>1, <2>2, <3>1, <3>2 DEF Over, OfService
  <2>4. \A i \in DOMAIN alarm'.jobs : alarm'.jobs[i][2] = e
    BY <2>1, <2>2, ListedJobs
  <2> QED
    BY <2>1, <2>2, <2>3, <2>4 DEF Stopping, ToStop, MayStop
<1>7. CASE CleanupNext
  <2>1. Stage = "cleanup" /\ UNCHANGED <<service, deps, created>> /\ alarm.d \in DOMAIN alarm.work
        /\ alarm.work[alarm.d].phase = "cleanup"
    BY <1>7, CleanupNextAt DEF CleanupNext, stored, Holds, OnDeployment, PhaseAt
  <2>2. PICK e \in Dep : e = alarm.d /\ deps[e].phase = "cleanup" /\ e <= created
    <3>1. alarm.d \in Dep /\ deps[alarm.d].phase = "cleanup"
      BY <2>1, HeldIsStored DEF Same
    <3> QED
      BY <3>1, DeploymentAssumption DEF Documents, NoDoc, Dep
  <2>3. CASE alarm'.at = "cleanup"
    BY <2>3 DEF Stopping, ToStop
  <2>4. CASE /\ alarm'.back = "retire" /\ alarm'.next = alarm.next /\ ~InUse(alarm.next)
             /\ alarm.next # None /\ alarm'.jobs = Apps(deps[alarm.next], alarm.next)
    <3>1. PICK p \in Dep : p = alarm.next /\ p < created
      <4>1. alarm.next \in Dep
        BY <2>4 DEF Alarms
      <4> QED
        BY <2>1, <2>2, <4>1, DeploymentAssumption DEF Latest, Dep
    <3>2. ASSUME NEW i \in DOMAIN alarm'.jobs
          PROVE  Over(p)' /\ alarm'.jobs[i][2] = p
      <4>1. alarm'.jobs[i] = <<"app", p>> /\ deps[p].placed
        BY <2>4, <3>1, <3>2, ListedJobs
      <4> QED
        BY <3>1, <4>1, OverWhen, OverKept
    <3>3. p \notin {service'.current, service'.promotion}
      BY <2>1, <2>4, <3>1 DEF InUse
    <3> QED
      BY <2>4, <3>1, <3>2, <3>3 DEF Stopping, ToStop, MayStop
  <2>5. CASE alarm'.back = "cleaned" /\ alarm'.jobs = Builds(alarm.work[alarm.d], alarm.d)
    <3>1. \A i \in DOMAIN alarm'.jobs : alarm'.jobs[i] = <<"build", e>>
      BY <2>2, <2>5, ListedJobs
    <3>2. Over(e)'
      BY <2>1, <2>2 DEF Over
    <3> QED
      BY <3>1, <3>2 DEF Stopping, ToStop, MayStop
  <2> QED
    BY <1>7, <2>3, <2>4, <2>5, CleanupNextAt
<1>8. CASE ReconcileService
  <2>1. CASE /\ alarm.svc.status = "deleting" /\ alarm'.back = "erase" /\ alarm'.jobs = JobsOf(1)
    <3>1. Stage = "service"
      BY <1>8, ReconcileServiceAt
    <3>2. service.status = "deleting" /\ 1 \in Dep
      BY <2>1, <3>1, DeploymentAssumption DEF OfService, Dep
    <3> QED
      BY <2>1, <3>2, ErasedMayStop
  <2>2. CASE alarm'.at # "stop"
    BY <2>2 DEF Stopping, ToStop
  <2> QED
    BY <1>2, <1>8, <2>1, <2>2, ReconcileServiceAt
<1>9. CASE NextErased
  BY <1>2, <1>4, <1>9 DEF NextErased, StopEnds
<1>10. CASE Begins /\ alarm'.at # "stop"
  BY <1>10 DEF Stopping, ToStop
<1> QED
  BY <1>2, <1>3, <1>4, <1>5, <1>6, <1>7, <1>8, <1>9, <1>10, AlarmSteps, BeginsAt, RetireAt,
     ListServicesAt, MovedAt, UnhealthyAt, HealthyAt, ReroutedAt, ReconcileDomainsAt
  DEF Begins, InRefresh

LEMMA RemovingKept ==
  ASSUME MaxEdits = 0, OwnerInv, [Next]_vars, NEW d \in Dep, Removing(d)
  PROVE  Erase \/ Removing(d)'
<1> USE OwnerParts
<1>1. /\ d = service.current /\ service.status = "deleting"
      /\ Stage \in OnService => Stage = "service" /\ alarm.svc.status = "deleting"
  BY DEF Removing
<1>2. Erase \/ (service'.current = d /\ service'.status = "deleting")
  <2>1. ASSUME NEW e \in Dep PROVE ~observeApplication(e) /\ ~Freed(e)
    <3>1. observeApplication(e) \/ Freed(e) => deps[e].phase \in Undecided
      BY ObserveEffect, ServiceEffect DEF Undecided, Short
    <3> QED
      BY <1>1, <3>1, InProgress
  <2>2. ~Promoted /\ ~Failed
    <3>1. Promoted \/ Failed => alarm.d \in Dep /\ deps[alarm.d].phase \in Undecided
      BY PromotedEffect, FailedEffect DEF Undecided
    <3> QED
      BY <1>1, <3>1, InProgress
  <2>3. ~FromSvc /\ ~Moved /\ ~Reroutes /\ ~Records
    BY <1>1, ServiceEffect DEF FromSvc, OnService
  <2>4. removeService => service'.status = "deleting"
    BY DEF removeService, Service
  <2>5. Retire => UNCHANGED service
    BY RetireEffect
  <2> QED
    BY <1>1, <2>1, <2>2, <2>3, <2>4, <2>5, KindsOf DEF Kinds, SameRelease, Superseded
<1>3. Stage' \in OnService => Stage' = "service" /\ alarm'.svc.status = "deleting"
  <2>1. CASE Away \/ Resumes \/ AlarmStarts
    BY <2>1, AtRest DEF OnService
  <2>2. CASE UNCHANGED alarm \/ Inner
    BY <1>1, <2>2 DEF Inner, Stage
  <2>3. CASE Begins /\ ~Away /\ ~Resumes
    <3>1. CASE ListServices
      BY <1>1, <3>1, ListServicesAt DEF OnService
    <3>2. CASE ReconcileService
      BY <1>1, <2>3, <3>2, ReconcileServiceAt DEF OnService
    <3>3. ASSUME NEW e \in Dep, Route(e) \/ StartCleanup(e) \/ StartFailure(e)
          PROVE  Stage' \notin OnService
      BY <2>3, <3>3, BeginsAt DEF OnService
    <3> QED
      BY <1>1, <2>3, <3>1, <3>2, <3>3, BeginsAt, CleanupNextAt, RetireAt, NextErasedAt, MovedAt,
         UnhealthyAt, HealthyAt, ReroutedAt, ReconcileDomainsAt DEF Begins, OnService
  <2> QED
    BY <2>1, <2>2, <2>3, AlarmSteps
<1> QED
  BY <1>2, <1>3 DEF Removing

\* A release that is over and is not served is not served afterwards.
LEMMA UnservedKept ==
  ASSUME MaxEdits = 0, OwnerInv, [Next]_vars, NEW d \in Dep, Over(d),
         d \notin {service.current, service.promotion}
  PROVE  d \notin {service'.current, service'.promotion}
<1> USE OwnerParts
<1>1. d # None
  BY DeploymentAssumption DEF Dep, None
<1>2. deps[d].phase \in {"cleanup", "done", "failure_cleanup"}
  BY DEF Over
<1>3. ASSUME NEW e \in Dep, observeApplication(e) \/ Freed(e)
      PROVE  d \notin {service'.current, service'.promotion}
  BY <1>1, <1>2, <1>3, ObserveEffect, ServiceEffect
<1>4. CASE Promoted
  BY <1>1, <1>2, <1>4, PromotedEffect
<1>5. CASE SameRelease(service)
  BY <1>5 DEF SameRelease
<1>6. CASE Failed \/ Retire \/ UNCHANGED service
  BY <1>5, <1>6, FailedEffect, RetireEffect
<1>7. CASE Erase
  BY <1>1, <1>7, EraseEffect DEF NoService
<1>8. CASE FromSvc \/ Moved \/ Reroutes \/ Records
  <2>1. Moved => alarm.svc.current = service.current
    BY ServiceEffect DEF OfService, OnService
  <2> QED
    BY <1>1, <1>8, <2>1, FromSvcEffect, ServiceEffect
<1> QED
  BY <1>3, <1>4, <1>5, <1>6, <1>7, <1>8, KindsOf DEF Kinds

LEMMA StopsInvKept ==
  ASSUME MaxEdits = 0
  PROVE  OwnerInv /\ StopsInv /\ [Next]_vars => StopsInv'
<1> SUFFICES ASSUME OwnerInv, StopsInv, [Next]_vars PROVE StopsInv'
  OBVIOUS
<1> USE OwnerParts
<1>1. ASSUME NEW j \in Job, Begun(j)'
      PROVE  Begun(j) \/ (StopWorks /\ j = J /\ MayStop(j))
  <2>1. CASE UNCHANGED stops
    BY <1>1, <2>1 DEF Begun
  <2>2. CASE StopWorks
    BY <1>1, <2>2, StopWorksAt DEF Begun, StopsInv, Stopping, ToStop
  <2> QED
    BY <2>1, <2>2, StopsSteps
<1>2. ASSUME NEW j \in Job, Begun(j)' PROVE Over(j[2])'
  BY <1>1, <1>2, OverKept, JobPairs DEF StopsInv, MayStop
<1>3. ASSUME NEW d \in Dep, Begun(<<"app", d>>)'
      PROVE  d \notin {service'.current, service'.promotion} \/ Removing(d)'
  <2>1. <<"app", d>> \in Job
    BY JobPairs
  <2>2. CASE Begun(<<"app", d>>)
    <3>1. Over(d)
      BY <2>1, <2>2 DEF StopsInv
    <3>2. CASE d \notin {service.current, service.promotion}
      BY <3>1, <3>2, UnservedKept
    <3>3. CASE Removing(d)
      <4>1. d # None
        BY DeploymentAssumption DEF Dep, None
      <4> QED
        BY <3>3, <4>1, RemovingKept, EraseEffect DEF NoService
    <3> QED
      BY <2>2, <3>2, <3>3 DEF StopsInv
  <2>3. CASE StopWorks /\ J = <<"app", d>> /\ MayStop(<<"app", d>>)
    <3>1. UNCHANGED service /\ alarm.at = "stop" /\ Over(d)
      BY <2>3, StopWorksAt DEF MayStop
    <3>2. CASE alarm.back # "erase"
      BY <2>3, <3>1, <3>2 DEF MayStop
    <3>3. CASE alarm.back = "erase"
      <4>1. Stage = "erase" /\ service.status = "deleting"
        BY <3>1, <3>3 DEF Stage, OfService, InRefresh
      <4>2. d # service.current => d # service.promotion
        <5>1. d = service.promotion /\ d # service.current /\ d # None => deps[d].phase \in Undecided
          BY DEF Owner, Undecided
        <5>2. d # None
          BY DeploymentAssumption DEF Dep, None
        <5> QED
          BY <4>1, <5>1, <5>2, InProgress
      <4>3. d = service.current => Removing(d)
        BY <4>1 DEF Removing, OnService
      <4>4. ~Erase
        BY <3>1 DEF Erase
      <4> QED
        BY <3>1, <4>2, <4>3, <4>4, RemovingKept
    <3> QED
      BY <3>2, <3>3
  <2> QED
    BY <1>1, <1>3, <2>1, <2>2, <2>3
<1> QED
  BY <1>2, <1>3, StoppingKept DEF StopsInv

LEMMA InitStops == Init => StopsInv
<1> SUFFICES ASSUME Init PROVE StopsInv
  OBVIOUS
<1>1. \A j \in Job : ~Begun(j)
  BY DEF Init, Begun
<1>2. alarm.at = "idle"
  BY IdleFields, InitRelease
<1>3. \A d \in Dep : <<"app", d>> \in Job
  BY JobPairs
<1> QED
  BY <1>1, <1>2, <1>3 DEF StopsInv, Stopping, ToStop

\* Housekeeping never stops the current release of a service, whichever
\* requests fail and wherever the alarm is interrupted (deploy.ts, cleanup and
\* failureCleanup; runtime.ts, deleteServiceJobs).
THEOREM CurrentKept ==
  ASSUME MaxEdits = 0
  PROVE  Spec => []CurrentKeepsRunning
<1>1. OwnerInv /\ StopsInv => CurrentKeepsRunning
  <2> SUFFICES ASSUME OwnerInv, StopsInv, service.status \notin {"gone", "deleting"},
                      service.current # None
               PROVE  stops[<<"app", service.current>>].phase = "none"
    BY DEF CurrentKeepsRunning, Kept
  <2>1. service.current \in Dep
    BY OwnerParts, InService
  <2> QED
    BY <2>1 DEF StopsInv, Begun, Removing
<1>2. OwnerInv /\ StopsInv /\ [Next]_vars => OwnerInv' /\ StopsInv'
  BY OwnerInvKept, StopsInvKept
<1> QED
  BY <1>1, <1>2, InitOwner, InitStops, PTL DEF Spec
-----------------------------------------------------------------------------
(* Visitors: the tunnel and its connectors lead to a release that is served *)
(* or goes back.  A lost answer of Cloudflare hides what the tunnel has.    *)

LEMMA ReachingParts ==
  ASSUME "put" \notin Failures, RouteInv, [Next]_vars
  PROVE  /\ \/ /\ tunnel'.hash = tunnel.hash /\ tunnel'.config = tunnel.config
               /\ tunnel'.live \in {tunnel.live, tunnel.config}
            \/ /\ tunnel'.hash = Upstream /\ tunnel'.config = Upstream
               /\ tunnel'.live = tunnel.live /\ UNCHANGED <<service, deps>> /\ domain # "none"
               /\ Upstream # Nowhere
         /\ tunnel'.live \in {tunnel.live, tunnel.config}
<1> USE RouteParts
<1>1. CASE UNCHANGED tunnel
  BY <1>1
<1>2. CASE Connect
  BY <1>2, ConnectAt
<1>3. CASE Apply
  <2>1. ~Fault("put")
    BY DEF Fault
  <2> QED
    BY <1>3, <2>1, ApplyAt DEF Refreshing
<1> QED
  BY <1>1, <1>2, <1>3, TunnelSteps

\* When the alarm is where the route was refreshed, all lead upstream.
LEMMA AllUpstream ==
  ASSUME RouteInv, Reaching, NEW x \in {tunnel.config, tunnel.live}, x # Nowhere,
         alarm.at \notin InRefresh,
         \/ Stage = "promote"
         \/ Stage \in {"candidate", "failed"} /\ x[1] = alarm.d /\ alarm.d \in DOMAIN alarm.work
  PROVE  x = Upstream /\ Upstream # Nowhere /\ domain # "none"
<1> USE OwnerParts, RouteParts
<1>1. domain # "none"
  BY DEF Routing
<1>2. Stage \in {"candidate", "failed"} => alarm.work[alarm.d].address # Nowhere
  BY HeldIsStored DEF Routing, Routed, Same
<1>3. Upstream # Nowhere /\ tunnel.hash = Upstream /\ tunnel.acked
  BY <1>1, <1>2 DEF Refreshing
<1> QED
  BY <1>1, <1>3 DEF Reaching, Routing

\* What is reached stays reached, or nothing leads there any more.
LEMMA ReachedKept ==
  ASSUME MaxEdits = 0, RouteInv, Reaching, [Next]_vars,
         NEW x \in {tunnel.config, tunnel.live}
  PROVE  \/ x = Nowhere \/ x[1] \in {service'.current, service'.promotion}
         \/ deps'[x[1]].phase = "failure_cleanup"
<1> SUFFICES ASSUME x # Nowhere
             PROVE  \/ x[1] \in {service'.current, service'.promotion}
                    \/ deps'[x[1]].phase = "failure_cleanup"
  OBVIOUS
<1> USE OwnerParts, RouteParts
<1> DEFINE e == x[1]
           Goal == e \in {service'.current, service'.promotion}
                   \/ deps'[e].phase = "failure_cleanup"
<1>1. e \in Dep /\ e # None
  BY InAddress DEF Address
<1>2. e \in {service.current, service.promotion} \/ deps[e].phase = "failure_cleanup"
  BY DEF Reaching, Reached
<1>3. CASE UNCHANGED deps /\ SameRelease(service)
  BY <1>2, <1>3 DEF SameRelease
<1>4. CASE Advances /\ UNCHANGED service
  BY <1>1, <1>2, <1>4, AdvancesEffect DEF Elsewhere, Short
<1>5. ASSUME NEW d \in Dep, observeApplication(d) PROVE Goal
  <2>1. deps[d].phase = "observing" /\ Elsewhere(d)
    BY <1>5, ObserveEffect
  <2>2. e = service.promotion => e = service.current
    <3>1. ASSUME e = service.promotion, e # service.current PROVE FALSE
      <4>1. deps[e].phase \in {"routing", "failure_cleanup"}
        BY <1>1, <3>1 DEF Owner
      <4>2. deps[e].status \in ACTIVE /\ deps[d].status \in ACTIVE
        BY <1>1, <2>1, <4>1 DEF Documents, PhaseOf, Undecided, Short
      <4> QED
        BY <1>1, <2>1, <4>1, <4>2 DEF Latest
    <3> QED
      BY <3>1
  <2> QED
    BY <1>1, <1>2, <1>5, <2>1, <2>2, ObserveEffect DEF Elsewhere
<1>6. CASE Promoted
  <2>1. alarm.at = "promote" /\ service.promotion = alarm.d /\ service'.current = alarm.d
        /\ alarm.d # None /\ alarm.d # service.current
    BY <1>6, PromotedEffect, HeldIsStored
  <2>2. x = Upstream /\ Upstream # Nowhere
    BY <2>1, AllUpstream DEF Stage, InRefresh
  <2>3. Upstream = service.promoted /\ service.promoted[1] = alarm.d
    BY <2>1, <2>2, UpstreamRouted DEF Owner, Reserved
  <2> QED
    BY <2>1, <2>2, <2>3
<1>7. CASE Failed
  <2>1. /\ alarm.at = "failed" /\ alarm.d \in DOMAIN alarm.work /\ Elsewhere(alarm.d)
        /\ SameRelease(service) /\ alarm.d \notin {service.current, service.promotion}
    BY <1>7, FailedEffect DEF OfService, Stage, InRefresh
  <2>2. CASE e = alarm.d
    <3>1. x = Upstream /\ Upstream # Nowhere
      BY <2>1, <2>2, AllUpstream DEF Stage, InRefresh
    <3> QED
      BY <2>1, <2>2, <3>1, UpstreamRouted
  <2>3. CASE e # alarm.d
    BY <1>1, <1>2, <2>1, <2>3 DEF Elsewhere, SameRelease
  <2> QED
    BY <2>2, <2>3
<1>8. CASE Queues /\ UNCHANGED service
  BY <1>1, <1>2, <1>8, QueuesEffect DEF Elsewhere, NoDoc
<1>9. CASE Retire
  BY <1>1, <1>2, <1>9, RetireEffect
<1>10. CASE Erase
  <2>1. domain = "none"
    BY <1>10, EraseEffect DEF OfService, Removal
  <2> QED
    BY <2>1 DEF Routing
<1>11. ASSUME NEW d \in Dep, Freed(d) PROVE Goal
  <2>1. service.promotion = d
    BY <1>11 DEF Freed
  <2> QED
    BY <1>2, <1>11, <2>1, ServiceEffect
<1>12. CASE FromSvc
  BY <1>1, <1>2, <1>12, FromSvcEffect
<1>13. CASE Moved
  <2>1. alarm.svc.current = service.current /\ service.promotion = alarm.svc.current
    BY <1>13, ServiceEffect DEF OfService, OnService
  <2> QED
    BY <1>1, <1>2, <1>13, <2>1, ServiceEffect
<1>14. CASE Reroutes \/ Records
  <2>1. service.promotion \in {None, service.current}
    BY <1>14, ServiceEffect DEF OfService
  <2> QED
    BY <1>1, <1>2, <1>14, <2>1, ServiceEffect
<1> QED
  BY <1>3, <1>4, <1>5, <1>6, <1>7, <1>8, <1>9, <1>10, <1>11, <1>12, <1>13, <1>14, KindsOf
  DEF Kinds

LEMMA ReachingKept ==
  ASSUME MaxEdits = 0, "put" \notin Failures
  PROVE  RouteInv /\ Reaching /\ [Next]_vars => Reaching'
<1> SUFFICES ASSUME RouteInv, Reaching, [Next]_vars PROVE Reaching'
  OBVIOUS
<1> USE RouteParts
<1>1. tunnel'.config = tunnel'.hash
  BY ReachingParts DEF Reaching
<1>2. ASSUME NEW x \in {tunnel'.config, tunnel'.live}
      PROVE  \/ x = Nowhere \/ x[1] \in {service'.current, service'.promotion}
             \/ deps'[x[1]].phase = "failure_cleanup"
  <2>1. CASE x \in {tunnel.config, tunnel.live}
    BY <2>1, ReachedKept
  <2>2. CASE x = Upstream /\ UNCHANGED <<service, deps>>
    BY <2>2, UpstreamRouted
  <2> QED
    BY <2>1, <2>2, ReachingParts
<1> QED
  BY <1>1, <1>2 DEF Reaching, Reached

LEMMA RoutedStopsKept ==
  ASSUME MaxEdits = 0, "put" \notin Failures
  PROVE  RouteInv /\ Reaching /\ StopsInv /\ RoutedStops /\ [Next]_vars => RoutedStops'
<1> SUFFICES ASSUME RouteInv, Reaching, StopsInv, RoutedStops, [Next]_vars,
                    NEW d \in Dep, Begun(<<"app", d>>)', domain' # "none",
                    NEW x \in {tunnel'.config, tunnel'.live}, x # Nowhere, x[1] = d
             PROVE  FALSE
  BY DEF RoutedStops
<1> USE OwnerParts, RouteParts
<1>1. domain # "none" /\ <<"app", d>> \in Job
  BY DomainKept, JobPairs
<1>2. CASE Begun(<<"app", d>>)
  <2>1. x = Upstream
    BY <1>1, <1>2, ReachingParts DEF RoutedStops
  <2>2. d \in {service.current, service.promotion}
    BY <2>1, UpstreamRouted
  <2> QED
    BY <1>1, <1>2, <2>2 DEF StopsInv, Removing, Removal
<1>3. CASE ~Begun(<<"app", d>>)
  <2>1. /\ StopWorks /\ J = <<"app", d>> /\ MayStop(<<"app", d>>) /\ alarm.at = "stop"
        /\ UNCHANGED tunnel
    <3>1. ~UNCHANGED stops
      BY <1>3 DEF Begun
    <3>2. StopWorks
      BY <3>1, StopsSteps
    <3> QED
      BY <1>1, <1>3, <3>2, StopWorksAt DEF Begun, StopsInv, Stopping, ToStop
  <2>2. x \in {tunnel.config, tunnel.live} /\ Reached(x)
    BY <2>1 DEF Reaching
  <2>3. alarm.back # "erase"
    BY <1>1, <2>1 DEF OfService, Stage, Removal, InRefresh
  <2>4. /\ d \notin {service.current, service.promotion} /\ Stage = alarm.back
        /\ \/ alarm.back = "retire" /\ d = alarm.next
           \/ alarm.back = "failed" /\ d = alarm.d
    BY <2>1, <2>3 DEF MayStop, Holds, ByStop, Stage
  <2>5. CASE alarm.back = "failed" /\ d = alarm.d
    <3>1. x = Upstream /\ Upstream # Nowhere
      BY <2>1, <2>2, <2>4, <2>5, AllUpstream DEF Holds, OnDeployment, InRefresh
    <3> QED
      BY <2>4, <3>1, UpstreamRouted
  <2>6. CASE alarm.back = "retire" /\ d = alarm.next
    <3>1. deps[d].phase = "failure_cleanup"
      BY <2>2, <2>4 DEF Reached
    <3>2. d = created
      BY <3>1 DEF Documents, PhaseOf, Undecided, Latest
    <3>3. /\ alarm.next < alarm.d /\ alarm.d \in Dep
          /\ deps[alarm.d].phase = "cleanup"
      BY <2>4, <2>6, HeldIsStored DEF Latest, Holds, OnDeployment, PhaseAt, Same
    <3>4. alarm.d <= created
      BY <3>3, DeploymentAssumption DEF Documents, NoDoc, Dep
    <3> QED
      BY <2>6, <3>2, <3>3, <3>4, DeploymentAssumption DEF Dep
  <2> QED
    BY <2>4, <2>5, <2>6
<1> QED
  BY <1>2, <1>3

LEMMA InitReaching == Init => Reaching /\ RoutedStops
<1> SUFFICES ASSUME Init PROVE Reaching /\ RoutedStops
  OBVIOUS
<1>1. PICK a \in {<<1, 0>>, Nowhere} :
        /\ tunnel = [hash |-> a, config |-> a, live |-> a, acked |-> TRUE]
        /\ a = <<1, 0>> => service.current = 1
  <2>1. PICK start \in Start :
          /\ start[2] = "healthy" => tunnel = [hash |-> <<1, 0>>, config |-> <<1, 0>>,
                                               live |-> <<1, 0>>, acked |-> TRUE]
          /\ start[2] # "healthy" => tunnel = [hash |-> Nowhere, config |-> Nowhere,
                                               live |-> Nowhere, acked |-> TRUE]
          /\ start[1] => service.current = 1
    BY DEF Init, NoService
  <2>2. start[2] = "healthy" => start[1]
    <3>1. start \in BOOLEAN \X {"none", "pending", "healthy"} /\ <<FALSE, "healthy">> \notin Start
      BY DeploymentAssumption
    <3>2. start = <<start[1], start[2]>> /\ start[1] \in BOOLEAN
      BY <3>1
    <3> QED
      BY <3>1, <3>2
  <2> QED
    BY <2>1, <2>2 DEF Nowhere
<1>2. Reaching
  BY <1>1 DEF Reaching, Reached, Nowhere
<1>3. \A d \in Dep : ~Begun(<<"app", d>>)
  <2>1. \A j \in Job : ~Begun(j)
    BY DEF Init, Begun
  <2> QED
    BY <2>1, JobPairs
<1> QED
  BY <1>2, <1>3 DEF RoutedStops

\* Neither the release a service counts as its own nor the one that visitors
\* reach is ever stopped, whichever requests fail and wherever the alarm is
\* interrupted, unless the answer of Cloudflare to a change is lost (deploy.ts,
\* cleanup and failureCleanup; integrations.ts, refreshServiceDomains).
THEOREM ServedKept ==
  ASSUME MaxEdits = 0, "put" \notin Failures
  PROVE  Spec => []ServedKeepsRunning
<1> DEFINE Inv == RouteInv /\ StopsInv /\ Reaching /\ RoutedStops
<1>1. Inv => RoutedKeepsRunning
  <2> SUFFICES ASSUME Inv, domain # "none", NEW x \in {tunnel.live, tunnel.config}, x[1] # None
               PROVE  stops[<<"app", x[1]>>].phase = "none"
    BY DEF RoutedKeepsRunning, Kept
  <2>1. x \in Address /\ x # Nowhere
    BY RouteParts DEF Nowhere, None
  <2> QED
    BY <2>1, InAddress DEF RoutedStops, Begun
<1>2. Inv => CurrentKeepsRunning
  <2> SUFFICES ASSUME Inv, service.status \notin {"gone", "deleting"}, service.current # None
               PROVE  stops[<<"app", service.current>>].phase = "none"
    BY DEF CurrentKeepsRunning, Kept
  <2>1. service.current \in Dep
    BY RouteParts, OwnerParts, InService
  <2> QED
    BY <2>1 DEF StopsInv, Begun, Removing
<1>3. Inv /\ [Next]_vars => Inv'
  BY RouteInvKept, StopsInvKept, ReachingKept, RoutedStopsKept, RouteParts
<1>4. Init => Inv
  BY InitRoute, InitStops, InitReaching
<1> QED
  BY <1>1, <1>2, <1>3, <1>4, PTL DEF Spec, ServedKeepsRunning
-----------------------------------------------------------------------------
(* Jobs: what was submitted is noted, and a stop that is done has seen the  *)
(* end of its job.  A move of the job meanwhile would hide that it runs.    *)

LEMMA NotedKept ==
  ASSUME MaxEdits = 0, OwnerInv, [Next]_vars, NEW e \in Dep, Noted(deps[e])
  PROVE  /\ Noted(deps'[e])
         /\ ~Erase => (deps[e].placed => deps'[e].placed) /\ (deps[e].built => deps'[e].built)
<1> USE OwnerParts
<1> DEFINE Goal ==
      /\ Noted(deps'[e])
      /\ ~Erase => (deps[e].placed => deps'[e].placed) /\ (deps[e].built => deps'[e].built)
<1>1. CASE UNCHANGED deps
  BY <1>1
<1>2. CASE Advances
  BY <1>2, AdvancesEffect DEF Elsewhere
<1>3. ASSUME NEW d \in Dep, observeApplication(d) PROVE Goal
  BY <1>3, ObserveEffect DEF Elsewhere, Noted, Short
<1>4. CASE Promoted \/ Failed
  BY <1>4, PromotedEffect, FailedEffect DEF Elsewhere, SameDoc, Noted, Short
<1>5. CASE Queues
  BY <1>5, QueuesEffect DEF Elsewhere, Noted, NoDoc
<1>6. CASE Retire
  BY <1>6, RetireEffect DEF SameDoc, Noted
<1>7. CASE Erase
  BY <1>7, EraseEffect DEF NoDoc, Noted, Short
<1> QED
  BY <1>1, <1>2, <1>3, <1>4, <1>5, <1>6, <1>7, KindsOf, ServiceEffect DEF Kinds, Freed, FromSvc

Submits(d) == SubmitBuild(d) \/ SubmitApp(d)

LEMMA JobsSteps ==
  ASSUME Typed, [Next]_vars
  PROVE  UNCHANGED jobs \/ Place \/ Nomad \/ Exit \/ Move \/ StopWorks \/ \E d \in Dep : Submits(d)
<1>1. ASSUME NEW d \in Dep, Phase(d) PROVE UNCHANGED jobs \/ Submits(d)
  BY <1>1
  DEF Phase, DeadlineExceeded, Interrupted, Rejected, Prepare, BuildEnds,
      PrepareApp, NotYet, observeApplication, Route, StartCleanup, StartFailure,
      outside, Submits
<1> QED
  BY <1>1
  DEF Next, vars, outside, User, Deploy, Rollback, removeService, EditRead, EditSave, Evicted,
      Alarm, AlarmStarts, Configure, Apply, Ack, Promote, StopFails, StopEnds,
      CleanupNext, Retire, Cleaned, StopCandidate, Failed, ListServices, ReconcileService,
      Erase, Moved, Unhealthy, AutomaticRollback, Healthy, Rerouted, RecordHealth, HealthFails,
      ReconcileDomains, Probe, Environment, Connect, Deadline

\* A submission is of a job that is noted, of a deployment that is active.
LEMMA SubmitsAt ==
  ASSUME OwnerInv, JobsInv, NEW d \in Dep, Submits(d)
  PROVE  \E j \in Job :
           /\ j[2] = d /\ Submitted(j) /\ deps[d].phase \in Short /\ d \in DOMAIN alarm.work
           /\ \A i \in Job : i # j => jobs'[i] = jobs[i]
           /\ jobs'[j].gen = jobs[j].gen
           /\ jobs'[j].state = IF jobs[j].state = "absent" THEN "pending" ELSE jobs[j].state
           /\ UNCHANGED <<stops, service, created>> /\ Resumes
<1> USE OwnerParts
<1>1. PICK kind, next :
        /\ kind \in {"app", "build"}
        /\ ensureJob(d, kind, next) /\ Turn(d, IF kind = "app" THEN "app_submit" ELSE "build_submit")
  BY DEF Submits, SubmitBuild, SubmitApp
<1> DEFINE j == <<kind, d>>
<1>2. j \in Job /\ j[1] = kind /\ j[2] = d
  BY <1>1 DEF Job
<1>3. d \in DOMAIN alarm.work
      /\ alarm.work[d].phase = IF kind = "app" THEN "app_submit" ELSE "build_submit"
  BY <1>1, TurnListed
<1>4. deps[d].phase = IF kind = "app" THEN "app_submit" ELSE "build_submit"
  BY <1>3, HeldIsStored DEF Same
<1>5. deps[d].phase \in Short /\ Submitted(j)
  BY <1>2, <1>4 DEF JobsInv, Noted, Short, Submitted
<1>6. jobs \in [Job -> [state : JobStates, gen : Allocation]]
  BY TypedParts DEF Outside, JobStates
<1>7. jobs' = [jobs EXCEPT ![j].state = IF @ = "absent" THEN "pending" ELSE @]
      /\ UNCHANGED <<stops, service, created>>
  BY <1>1 DEF ensureJob
<1>8. Resumes
  BY <1>1, <1>3 DEF ensureJob, Resumes, Save, Skip
<1> HIDE DEF j
<1>9. /\ \A i \in Job : i # j => jobs'[i] = jobs[i]
      /\ jobs'[j].gen = jobs[j].gen
      /\ jobs'[j].state = IF jobs[j].state = "absent" THEN "pending" ELSE jobs[j].state
  BY <1>2, <1>6, <1>7
<1> QED
  BY <1>2, <1>3, <1>5, <1>7, <1>8, <1>9

LEMMA StopStepAt ==
  ASSUME OwnerInv, StopWorks
  PROVE  /\ \A j \in Job : j # J => jobs'[j] = jobs[j]
         /\ jobs'[J].gen = jobs[J].gen
         /\ \/ /\ stops[J].phase = "none" /\ stops'[J].phase = "stop"
               /\ stops'[J].of = IF Alive(J) THEN jobs[J].gen ELSE -1
               /\ UNCHANGED jobs
            \/ /\ stops[J].phase = "stop" /\ stops'[J].phase = "observe"
               /\ stops'[J].of = stops[J].of
               /\ jobs'[J].state = IF Finite(J) \/ jobs[J].state = "pending" THEN "gone"
                                   ELSE IF Alive(J) THEN "exiting" ELSE jobs[J].state
            \/ /\ stops[J].phase = "observe" /\ stops'[J].phase = "done" /\ UNCHANGED jobs
               /\ stops'[J].of = stops[J].of
               /\ ~(jobs[J].state = "exiting" /\ stops[J].of = jobs[J].gen)
            \/ UNCHANGED <<stops, jobs>>
<1> USE OwnerParts
<1> DEFINE j == J
<1>1. j \in Job /\ StopStep(j)
  BY StopWorksAt DEF StopWorks
<1>2. jobs \in [Job -> [state : JobStates, gen : Allocation]]
  BY TypedParts DEF Outside, JobStates
<1>3. stops \in [Job -> [phase : {"none", "stop", "observe", "done"}, of : {-1} \union Allocation]]
  BY TypedParts DEF Outside
<1> HIDE DEF j
<1>4. CASE stops[j].phase = "none"
  BY <1>1, <1>2, <1>3, <1>4 DEF StopStep, j
<1>5. CASE stops[j].phase = "stop"
  BY <1>1, <1>2, <1>3, <1>5 DEF StopStep, j
<1>6. CASE stops[j].phase = "observe"
  BY <1>1, <1>2, <1>3, <1>6 DEF StopStep, j
<1>7. CASE stops[j].phase = "done"
  BY <1>1, <1>2, <1>3, <1>7 DEF StopStep, j
<1> QED
  BY <1>1, <1>3, <1>4, <1>5, <1>6, <1>7

LEMMA StopOfKept ==
  ASSUME OwnerInv, StopsInv, JobsInv, [Next]_vars, NEW j \in Job
  PROVE  /\ StopOf(j)'
         /\ ~Stopped(j)' => ~Stopped(j) \/ (Submitted(j) /\ deps[j[2]].phase \in Short)
         /\ stops[j].phase = "done" => stops'[j].phase = "done"
<1> USE OwnerParts
<1>1. StopOf(j)
  BY DEF JobsInv
<1>2. jobs[j].state \in JobStates
  BY TypedParts DEF Outside, JobStates
<1>3. CASE jobs'[j] = jobs[j] /\ stops'[j] = stops[j]
  BY <1>1, <1>3 DEF StopOf, Registered, Stopped
<1>4. CASE Place \/ Nomad \/ Exit \/ Move
  <2>1. UNCHANGED stops
    BY <1>4 DEF Place, Nomad, Exit, Move
  <2>2. CASE Place \/ Nomad
    <3>1. PICK i \in Job, new \in {"starting", "up", "down"} :
            Registered(i) /\ jobs' = [jobs EXCEPT ![i].state = new]
      BY <2>2 DEF Place, Nomad, Registered
    <3>2. i = j => Registered(j) /\ jobs'[j].state \in {"starting", "up", "down"}
      BY <3>1, TypedParts DEF Outside
    <3>3. i # j => jobs'[j] = jobs[j]
      BY <3>1, TypedParts DEF Outside
    <3> QED
      BY <1>1, <1>3, <2>1, <3>2, <3>3 DEF StopOf, Registered, Stopped
  <2>3. CASE Exit
    <3>1. PICK i \in Job : jobs[i].state = "exiting" /\ jobs' = [jobs EXCEPT ![i].state = "gone"]
      BY <2>3 DEF Exit
    <3>2. i = j => jobs[j].state = "exiting" /\ jobs'[j].state = "gone"
      BY <3>1, TypedParts DEF Outside
    <3>3. i # j => jobs'[j] = jobs[j]
      BY <3>1, TypedParts DEF Outside
    <3> QED
      BY <1>1, <1>3, <2>1, <3>2, <3>3 DEF StopOf, Registered, Stopped
  <2>4. CASE Move
    <3>1. PICK d \in Dep : Running(d) /\ jobs' = [jobs EXCEPT ![<<"app", d>>].gen = moves + 1]
      BY <2>4 DEF Move
    <3>2. <<"app", d>> = j => Registered(j) /\ jobs'[j].state = jobs[j].state
      BY <3>1, TypedParts DEF Outside, Running, Registered
    <3>3. <<"app", d>> # j => jobs'[j] = jobs[j]
      BY <3>1, TypedParts DEF Outside
    <3> QED
      BY <1>1, <1>3, <2>1, <3>2, <3>3 DEF StopOf, Registered, Stopped
  <2> QED
    BY <1>4, <2>2, <2>3, <2>4
<1>5. ASSUME NEW d \in Dep, Submits(d)
      PROVE  /\ StopOf(j)'
             /\ ~Stopped(j)' => ~Stopped(j) \/ (Submitted(j) /\ deps[j[2]].phase \in Short)
             /\ stops[j].phase = "done" => stops'[j].phase = "done"
  <2>1. PICK i \in Job :
           /\ i[2] = d /\ Submitted(i) /\ deps[d].phase \in Short
           /\ i # j => jobs'[j] = jobs[j]
           /\ jobs'[i].gen = jobs[i].gen
           /\ jobs'[i].state = IF jobs[i].state = "absent" THEN "pending" ELSE jobs[i].state
           /\ UNCHANGED stops
    BY <1>5, SubmitsAt
  <2>2. CASE i = j
    <3>1. stops[j].phase = "none"
      BY <2>1, <2>2 DEF StopsInv, Begun, Over, Short
    <3> QED
      BY <1>1, <2>1, <2>2, <3>1 DEF StopOf, Registered, Stopped
  <2> QED
    BY <1>3, <2>1, <2>2
<1>6. CASE StopWorks
  <2>1. CASE j # J
    BY <1>3, <1>6, <2>1, StopWorksAt, StopStepAt
  <2>2. CASE j = J
    <3>1. jobs'[j].gen = jobs[j].gen
      BY <1>6, <2>2, StopStepAt
    <3>2. CASE stops[j].phase = "none" /\ stops'[j].phase = "stop" /\ UNCHANGED jobs
      BY <1>1, <1>2, <3>2 DEF StopOf, Registered, Stopped, JobStates
    <3>3. CASE /\ stops[j].phase = "stop" /\ stops'[j].phase = "observe"
               /\ jobs'[j].state = IF Finite(j) \/ jobs[j].state = "pending" THEN "gone"
                                   ELSE IF Alive(j) THEN "exiting" ELSE jobs[j].state
      BY <1>1, <1>2, <3>3 DEF StopOf, Registered, Stopped, Alive, Finite, JobStates
    <3>4. CASE /\ stops[j].phase = "observe" /\ stops'[j].phase = "done" /\ UNCHANGED jobs
               /\ stops'[j].of = stops[j].of
               /\ ~(jobs[j].state = "exiting" /\ stops[j].of = jobs[j].gen)
      BY <1>1, <3>4 DEF StopOf, Registered, Stopped
    <3> QED
      BY <1>3, <1>6, <2>2, <3>1, <3>2, <3>3, <3>4, StopStepAt
  <2> QED
    BY <2>1, <2>2
<1> QED
  BY <1>3, <1>4, <1>5, <1>6, JobsSteps, StopsSteps

LEMMA ListsAll ==
  ASSUME NEW doc, NEW d \in Dep, NEW j \in Job, j[2] = d,
         IF j[1] = "app" THEN doc.placed ELSE doc.built
  PROVE  \E i \in DOMAIN (Apps(doc, d) \o Builds(doc, d)) : (Apps(doc, d) \o Builds(doc, d))[i] = j
<1>1. (j = <<"app", d>> /\ doc.placed) \/ (j = <<"build", d>> /\ doc.built)
  BY JobPairs
<1>2. CASE doc.placed /\ doc.built
  <2> DEFINE both == Apps(doc, d) \o Builds(doc, d)
  <2>1. 1 \in DOMAIN both /\ both[1] = <<"app", d>>
    BY <1>2 DEF Apps, Builds
  <2>2. 2 \in DOMAIN both /\ both[2] = <<"build", d>>
    BY <1>2 DEF Apps, Builds
  <2> HIDE DEF both
  <2>3. \E i \in DOMAIN both : both[i] = j
    BY <1>1, <2>1, <2>2
  <2> QED
    BY <2>3 DEF both
<1>3. CASE doc.placed /\ ~doc.built
  <2>1. Apps(doc, d) \o Builds(doc, d) = << <<"app", d>> >>
    BY <1>3 DEF Apps, Builds
  <2> QED
    BY <1>1, <1>3, <2>1
<1>4. CASE ~doc.placed /\ doc.built
  <2>1. Apps(doc, d) \o Builds(doc, d) = << <<"build", d>> >>
    BY <1>4 DEF Apps, Builds
  <2> QED
    BY <1>1, <1>4, <2>1
<1>5. CASE ~doc.placed /\ ~doc.built
  BY <1>1, <1>5
<1> QED
  BY <1>2, <1>3, <1>4, <1>5

\* How the alarm comes to a stage that follows stops, and goes on in it.
StopStarted == /\ StopCandidate /\ Stage' = "failed" /\ alarm'.at = "stop" /\ alarm'.d = alarm.d
               /\ alarm.d \in DOMAIN alarm.work
               /\ alarm'.jobs = Apps(alarm.work[alarm.d], alarm.d)
                                \o Builds(alarm.work[alarm.d], alarm.d)
EraseStarted == /\ Stage' = "erase" /\ alarm'.at = "stop" /\ alarm'.next = 1
                /\ alarm'.jobs = JobsOf(1)
StopMoved == /\ Stage' = Stage /\ alarm'.d = alarm.d /\ alarm'.next = alarm.next
             /\ \/ UNCHANGED alarm
                \/ /\ StopWorks /\ alarm.at = "stop" /\ alarm'.at = "stop"
                   /\ stops[J].phase = "done" /\ alarm'.jobs = Tail(alarm.jobs)
                \/ /\ alarm.at = "stop" /\ alarm.jobs = <<>> /\ alarm'.at = Stage
                   /\ Stage = "erase" => ~(alarm.next < created)

LEMMA StopStages ==
  ASSUME MaxEdits = 0, OwnerInv, [Next]_vars, Stage' \in {"failed", "erase"}
  PROVE  /\ UNCHANGED <<deps, created>>
         /\ StopStarted \/ EraseStarted \/ NextErased \/ StopMoved
<1> USE OwnerParts
<1>1. ~Away /\ ~Resumes /\ ~AlarmStarts
  BY AtRest
<1>2. CASE StopCandidate
  <2>1. StopStarted
    BY <1>2, BeginsAt DEF StopStarted, StopCandidate, Stop, Alarms, Holds, OnDeployment
  <2> QED
    BY <1>2, <2>1 DEF StopCandidate, stored
<1>3. CASE ReconcileService
  <2>1. EraseStarted
    BY <1>1, <1>3, ReconcileServiceAt DEF EraseStarted
  <2> QED
    BY <1>3, <2>1 DEF ReconcileService, stored
<1>4. CASE NextErased
  BY <1>4 DEF NextErased, StopEnds, stored
<1>5. CASE alarm.at = "stop" /\ ~NextErased /\ ~UNCHANGED alarm
  <2>1. CASE StopWorks
    <3>1. stops[J].phase = "done" /\ alarm' = [alarm EXCEPT !.jobs = Tail(@)]
          /\ UNCHANGED <<deps, created>>
      BY <1>1, <1>5, <2>1, StopWorksAt
    <3>2. StopMoved
      BY <1>5, <2>1, <3>1 DEF StopMoved, Stage, Alarms
    <3> QED
      BY <3>1, <3>2
  <2>2. CASE StopEnds
    <3>1. /\ alarm' = [alarm EXCEPT !.at = alarm.back] /\ alarm.jobs = <<>>
          /\ UNCHANGED <<deps, created>> /\ (alarm.back = "erase" => ~(alarm.next < created))
      BY <1>5, <2>2 DEF StopEnds, NextErased, stored
    <3>2. StopMoved
      BY <1>5, <3>1 DEF StopMoved, Stage, Alarms, Holds, ByStop, InRefresh
    <3> QED
      BY <3>1, <3>2
  <2>3. ~StopFails
    BY <1>1, <1>5 DEF StopFails, StopThrows, Away, Resumes, Holds, Stage, OnDeployment, ByStop
  <2> QED
    BY <1>1, <1>5, <2>1, <2>2, <2>3, StopMoves
<1>6. CASE UNCHANGED alarm
  <2>1. Stage = Stage' /\ StopMoved
    BY <1>6 DEF Stage, StopMoved
  <2>2. ~Queues
    <3>1. CASE Stage = "failed"
      <4>1. alarm.d \in Dep /\ deps[alarm.d].phase \in Undecided
        BY <3>1, HeldIsStored DEF Holds, OnDeployment, PhaseAt, Same, Undecided
      <4> QED
        BY <4>1, InProgress DEF Queues
    <3>2. CASE Stage = "erase"
      BY <3>2 DEF OfService, Queues, MayQueue
    <3> QED
      BY <2>1, <3>1, <3>2
  <2>3. ~Advances /\ ~Promoted /\ ~Failed /\ \A d \in Dep : ~observeApplication(d)
    BY <1>1, PromotedEffect, FailedEffect, ObserveEffect DEF Advances, Save, Resumes
  <2>4. ~Retire /\ ~Erase
    BY <1>1, <2>1, RetireAt, EraseEffect
  <2> QED
    BY <2>1, <2>2, <2>3, <2>4, KindsOf, ServiceEffect DEF Kinds, Freed, FromSvc
<1>7. CASE Inner /\ alarm.at # "stop"
  BY <1>7 DEF Inner, Holds, Stage, ByRefresh, InRefresh
<1>8. CASE Begins
  <2>1. ~(CleanupNext \/ Retire \/ ListServices \/ Moved \/ Unhealthy \/ Healthy \/ Rerouted
          \/ ReconcileDomains)
    BY <1>1, CleanupNextAt, RetireAt, ListServicesAt, MovedAt, UnhealthyAt, HealthyAt, ReroutedAt,
       ReconcileDomainsAt
  <2>2. \A d \in Dep : ~(Route(d) \/ StartCleanup(d) \/ StartFailure(d))
    BY <1>1, BeginsAt
  <2> QED
    BY <1>2, <1>3, <1>4, <1>8, <2>1, <2>2 DEF Begins
<1> QED
  BY <1>1, <1>2, <1>3, <1>4, <1>5, <1>6, <1>7, <1>8, AlarmSteps DEF Inner

LEMMA DealtKept ==
  ASSUME OwnerInv, StopsInv, JobsInv, [Next]_vars, NEW j \in Job,
         Dealt(j), StopMoved \/ (NextErased /\ alarm.jobs = <<>>)
  PROVE  Dealt(j)'
<1>1. stops[j].phase = "done" => Dealt(j)'
  BY StopOfKept DEF Dealt
<1>2. ASSUME ToStop(j) PROVE Dealt(j)'
  <2>1. CASE UNCHANGED alarm
    BY <1>2, <2>1 DEF Dealt, ToStop
  <2>2. CASE /\ StopWorks /\ alarm.at = "stop" /\ alarm'.at = "stop"
             /\ stops[J].phase = "done" /\ alarm'.jobs = Tail(alarm.jobs)
    <3>1. PICK i \in DOMAIN alarm.jobs : alarm.jobs[i] = j
      BY <1>2 DEF ToStop
    <3>2. CASE i = 1
      BY <1>1, <2>2, <3>1, <3>2, StopWorksAt
    <3>3. CASE i # 1
      <4>1. alarm.jobs \in Seq(Job)
        BY <2>2, StopWorksAt
      <4>2. i - 1 \in DOMAIN Tail(alarm.jobs) /\ Tail(alarm.jobs)[i - 1] = alarm.jobs[i]
        BY <3>3, <4>1
      <4> QED
        BY <2>2, <3>1, <4>2 DEF Dealt, ToStop
    <3> QED
      BY <3>2, <3>3
  <2>3. alarm.jobs # <<>>
    BY <1>2 DEF ToStop
  <2> QED
    BY <2>1, <2>2, <2>3 DEF StopMoved
<1> QED
  BY <1>1, <1>2 DEF Dealt

LEMMA StopsAllKept ==
  ASSUME MaxEdits = 0, OwnerInv, StopsInv, JobsInv, [Next]_vars
  PROVE  StopsAll'
<1> USE OwnerParts
<1>1. ASSUME NEW j \in Job, UNCHANGED deps, Submitted(j)' PROVE Submitted(j)
  BY <1>1 DEF Submitted
<1>2. ASSUME NEW j \in Job, NEW d \in Dep, j[2] = d, Submitted(j), alarm'.at = "stop",
             NEW doc, alarm'.jobs = Apps(doc, d) \o Builds(doc, d), Same(doc, deps[d])
      PROVE  Dealt(j)'
  <2>1. IF j[1] = "app" THEN doc.placed ELSE doc.built
    BY <1>2 DEF Submitted, Same
  <2> QED
    BY <1>2, <2>1, ListsAll DEF Dealt, ToStop
<1>3. NextErased => alarm.jobs = <<>>
  BY DEF NextErased, StopEnds
<1>4. ASSUME Stage' = "failed", NEW j \in Job, j[2] = alarm'.d, Submitted(j)'
      PROVE  Dealt(j)'
  <2>1. Submitted(j)
    BY <1>1, <1>4, StopStages
  <2>2. CASE StopStarted
    <3>1. alarm.d \in Dep /\ j[2] = alarm.d /\ Same(alarm.work[alarm.d], deps[alarm.d])
      BY <1>4, <2>2, HeldIsStored DEF StopStarted
    <3> QED
      BY <1>2, <2>1, <2>2, <3>1 DEF StopStarted
  <2>3. CASE StopMoved
    BY <1>4, <2>1, <2>3, DealtKept DEF StopMoved, JobsInv, StopsAll
  <2> QED
    BY <1>4, <2>2, <2>3, StopStages, NextErasedAt DEF EraseStarted
<1>5. ASSUME Stage' = "erase", NEW j \in Job, j[2] <= alarm'.next, Submitted(j)'
      PROVE  Dealt(j)'
  <2>1. Submitted(j)
    BY <1>1, <1>5, StopStages
  <2>2. j[2] \in Dep /\ Same(deps[j[2]], deps[j[2]])
    BY JobPairs DEF Same
  <2>3. CASE EraseStarted
    <3>1. j[2] = 1
      BY <1>5, <2>2, <2>3, DeploymentAssumption DEF EraseStarted, Dep
    <3> QED
      BY <1>2, <2>1, <2>2, <2>3, <3>1 DEF EraseStarted, JobsOf
  <2>4. CASE NextErased
    <3>1. /\ Stage = "erase" /\ alarm'.at = "stop" /\ alarm'.next = alarm.next + 1
          /\ alarm'.next \in Dep /\ alarm'.jobs = JobsOf(alarm.next + 1)
      BY <2>4, NextErasedAt
    <3>2. CASE j[2] = alarm.next + 1
      BY <1>2, <2>1, <2>2, <3>1, <3>2 DEF JobsOf
    <3>3. CASE j[2] # alarm.next + 1
      <4>1. alarm.next \in Nat
        <5>1. alarm.next \in Dep \union {None}
          BY DEF Alarms
        <5> QED
          BY <5>1, DeploymentAssumption DEF Dep, None
      <4>2. j[2] <= alarm.next
        BY <1>5, <2>2, <3>1, <3>3, <4>1, DeploymentAssumption DEF Dep
      <4> QED
        BY <1>3, <2>1, <2>4, <3>1, <4>2, DealtKept DEF JobsInv, StopsAll
    <3> QED
      BY <3>2, <3>3
  <2>5. CASE StopMoved
    BY <1>5, <2>1, <2>5, DealtKept DEF StopMoved, JobsInv, StopsAll
  <2> QED
    BY <1>5, <2>3, <2>4, <2>5, StopStages DEF StopStarted
<1>6. ASSUME alarm'.at = "erase" PROVE alarm'.next >= created'
  <2>1. Stage' = "erase"
    BY <1>6 DEF Stage, InRefresh
  <2>2. StopMoved /\ UNCHANGED created
    BY <1>6, <2>1, StopStages, NextErasedAt DEF StopStarted, EraseStarted
  <2>3. alarm.at = "erase" \/ ~(alarm.next < created)
    BY <1>6, <2>1, <2>2 DEF StopMoved
  <2>4. alarm.next \in Dep \union {None}
    BY DEF Alarms
  <2>5. alarm.next \in Int /\ created \in Int
    BY <2>4, DeploymentAssumption DEF Dep, None
  <2> QED
    BY <2>2, <2>3, <2>5 DEF StopMoved, JobsInv, StopsAll
<1> QED
  BY <1>4, <1>5, <1>6 DEF StopsAll

LEMMA FailedFrom ==
  ASSUME MaxEdits = 0, OwnerInv, [Next]_vars, NEW d \in Dep, deps'[d].status = "failed"
  PROVE  \/ deps[d].status = "failed" /\ deps[d].phase = "done"
         \/ Failed /\ d = alarm.d /\ alarm.at = "failed"
<1> USE OwnerParts
<1>1. deps[d].status = "failed" => deps[d].phase = "done"
  BY DEF Unfinished
<1>2. CASE UNCHANGED deps
  BY <1>1, <1>2
<1>3. CASE Advances
  BY <1>1, <1>3, AdvancesEffect DEF Elsewhere
<1>4. ASSUME NEW e \in Dep, observeApplication(e)
      PROVE  deps[d].status = "failed"
  BY <1>4, ObserveEffect DEF Elsewhere
<1>5. CASE Promoted \/ Failed
  BY <1>1, <1>5, PromotedEffect, FailedEffect DEF Elsewhere
<1>6. CASE Queues \/ Retire \/ Erase
  BY <1>1, <1>6, QueuesEffect, RetireEffect, EraseEffect DEF Elsewhere, NoDoc
<1> QED
  BY <1>1, <1>2, <1>3, <1>4, <1>5, <1>6, KindsOf, ServiceEffect DEF Kinds, Freed, FromSvc

LEMMA GoneFrom ==
  ASSUME MaxEdits = 0, OwnerInv, [Next]_vars, service'.status = "gone"
  PROVE  service.status = "gone" \/ Erase
<1> USE OwnerParts
<1>1. removeService => service'.status = "deleting"
  BY DEF removeService, Service
<1>2. Moved => service'.status # "gone"
  BY ServiceEffect DEF OfService, OnService
<1> QED
  BY <1>1, <1>2, KindsOf, ObserveEffect, PromotedEffect, FailedEffect, RetireEffect, FromSvcEffect,
     ServiceEffect DEF Kinds

\* What the stage after the stops finds: nothing that was submitted runs.
LEMMA AllDealt ==
  ASSUME OwnerInv, JobsInv, NEW j \in Job, alarm.at # "stop"
  PROVE  /\ Stage = "failed" /\ j[2] = alarm.d => Stopped(j)
         /\ alarm.at = "erase" => Stopped(j)
<1> USE OwnerParts
<1>1. Dealt(j) => Stopped(j)
  BY DEF JobsInv, StopOf, Dealt, ToStop
<1>2. ~Submitted(j) => Stopped(j)
  BY DEF JobsInv
<1>3. ASSUME alarm.at = "erase", Submitted(j) PROVE Dealt(j)
  <2>1. Stage = "erase" /\ alarm.next >= created /\ j[2] \in Dep
    BY <1>3, JobPairs DEF Stage, InRefresh, JobsInv, StopsAll
  <2>2. ~(j[2] > created)
    BY <1>3, <2>1 DEF Documents, NoDoc, Submitted
  <2>3. alarm.next \in Dep \union {None}
    BY DEF Alarms
  <2>4. j[2] <= alarm.next
    BY <2>1, <2>2, <2>3, DeploymentAssumption DEF Dep, None
  <2> QED
    BY <1>3, <2>1, <2>4 DEF JobsInv, StopsAll
<1> QED
  BY <1>1, <1>2, <1>3 DEF JobsInv, StopsAll

LEMMA JobsInvKept ==
  ASSUME MaxEdits = 0
  PROVE  OwnerInv /\ StopsInv /\ JobsInv /\ [Next]_vars => JobsInv'
<1> SUFFICES ASSUME OwnerInv, StopsInv, JobsInv, [Next]_vars PROVE JobsInv'
  OBVIOUS
<1> USE OwnerParts
<1>1. ASSUME NEW j \in Job, ~Stopped(j)' PROVE ~Stopped(j) \/ (Submitted(j) /\ deps[j[2]].phase \in Short)
  BY <1>1, StopOfKept
<1>2. ASSUME NEW j \in Job, ~Stopped(j)' PROVE Submitted(j) /\ ~Erase
  <2>1. Submitted(j)
    BY <1>1, <1>2 DEF JobsInv
  <2>2. CASE Erase
    <3>1. alarm.at = "erase" /\ Stage = "erase" /\ j[2] \in Dep
      BY <2>2, EraseEffect, JobPairs DEF Erase
    <3>2. Stopped(j)
      BY <3>1, AllDealt
    <3>3. deps[j[2]].phase \notin Short
      <4>1. service.status = "deleting"
        BY <3>1 DEF OfService
      <4> QED
        BY <3>1, <4>1, InProgress DEF Undecided
    <3> QED
      BY <1>1, <1>2, <3>2, <3>3
  <2> QED
    BY <2>1, <2>2
<1>3. ASSUME NEW j \in Job PROVE StopOf(j)' /\ (~Stopped(j)' => Submitted(j)')
  <2>1. j[2] \in Dep /\ Noted(deps[j[2]])
    BY JobPairs DEF JobsInv
  <2> QED
    BY <1>2, <2>1, StopOfKept, NotedKept DEF Submitted
<1>4. \A d \in Dep : Noted(deps'[d])
  BY NotedKept DEF JobsInv
<1>5. ASSUME NEW d \in Dep, deps'[d].status = "failed", NEW j \in Job, j[2] = d
      PROVE  Stopped(j)'
  <2>1. CASE deps[d].status = "failed" /\ deps[d].phase = "done"
    <3>1. Stopped(j)
      BY <1>5, <2>1, JobPairs DEF JobsInv, EndedIsStopped, FailedIsStopped
    <3> QED
      BY <1>1, <1>5, <2>1, <3>1 DEF Short
  <2>2. CASE Failed /\ d = alarm.d /\ alarm.at = "failed"
    <3>1. Stopped(j) /\ deps[d].phase = "failure_cleanup"
      BY <1>5, <2>2, AllDealt, FailedEffect DEF Stage, InRefresh
    <3> QED
      BY <1>1, <1>5, <3>1 DEF Short
  <2> QED
    BY <1>5, <2>1, <2>2, FailedFrom
<1>6. ASSUME service'.status = "gone", NEW j \in Job PROVE Stopped(j)'
  <2>1. j[2] \in Dep
    BY JobPairs
  <2>2. CASE service.status = "gone"
    <3>1. Stopped(j)
      BY <2>2 DEF JobsInv, EndedIsStopped, RemovedIsStopped
    <3>2. deps[j[2]].phase \notin Short
      BY <2>1, <2>2, InProgress DEF Undecided
    <3> QED
      BY <1>1, <3>1, <3>2
  <2> QED
    BY <1>2, <1>6, <2>2, GoneFrom
<1>7. FailedIsStopped'
  <2> SUFFICES ASSUME NEW d \in Dep, deps'[d].status = "failed"
               PROVE  Stopped(<<"app", d>>)' /\ Stopped(<<"build", d>>)'
    BY DEF FailedIsStopped
  <2>1. <<"app", d>> \in Job /\ <<"build", d>> \in Job
    BY JobPairs
  <2> QED
    BY <1>5, <2>1
<1>8. RemovedIsStopped'
  BY <1>6 DEF RemovedIsStopped
<1> QED
  BY <1>3, <1>4, <1>7, <1>8, StopsAllKept DEF JobsInv, EndedIsStopped

LEMMA InitJobs == Init => JobsInv
<1> SUFFICES ASSUME Init PROVE JobsInv
  OBVIOUS
<1> USE InitRelease
<1>1. alarm.at = "idle"
  BY IdleFields
<1>2. \A j \in Job : stops[j].phase = "none"
  BY DEF Init
<1>3. PICK start \in Start :
        /\ service = IF start[1] THEN [NoService EXCEPT !.status = "healthy",
                                         !.current = 1, !.address = <<1, 0>>]
                     ELSE [NoService EXCEPT !.status = "not_deployed"]
        /\ jobs = [j \in Job |->
             [state |-> IF start[1] /\ j = <<"app", 1>> THEN "up" ELSE "absent", gen |-> 0]]
  BY DEF Init
<1>4. \A j \in Job : jobs[j].state = IF start[1] /\ j = <<"app", 1>> THEN "up" ELSE "absent"
  BY <1>3
<1>5. start[1] => service.current = 1
  BY <1>3 DEF NoService
<1>6. \A j \in Job : ~Stopped(j) => Submitted(j)
  <2>1. 1 \in Dep
    BY DeploymentAssumption DEF Dep
  <2> QED
    BY <1>4, <1>5, <2>1 DEF Registered, Stopped, Submitted
<1>7. \A j \in Job : StopOf(j)
  BY <1>2, <1>4 DEF StopOf
<1>8. \A d \in Dep : Noted(deps[d]) /\ deps[d].status # "failed"
  BY DEF Noted, NoDoc, Short
<1>9. StopsAll
  BY <1>1 DEF StopsAll
<1>10. EndedIsStopped
  BY <1>8 DEF EndedIsStopped, FailedIsStopped, RemovedIsStopped
<1> QED
  BY <1>6, <1>7, <1>8, <1>9, <1>10 DEF JobsInv

\* What is reported as over, a failed deployment or a removed service, has no
\* job left that nobody would stop, whichever requests and answers are lost,
\* wherever the alarm is interrupted, and whenever Nomad places a job or moves
\* it (common.ts, stopJob; deploy.ts, failureCleanup; runtime.ts,
\* deleteServiceJobs).
THEOREM EndedAlways ==
  ASSUME MaxEdits = 0
  PROVE  Spec => []EndedIsStopped
<1> DEFINE Inv == OwnerInv /\ StopsInv /\ JobsInv
<1>1. Inv => EndedIsStopped
  BY DEF JobsInv
<1>2. Inv /\ [Next]_vars => Inv'
  BY OwnerInvKept, StopsInvKept, JobsInvKept
<1>3. Init => Inv
  BY InitOwner, InitStops, InitJobs
<1> QED
  BY <1>1, <1>2, <1>3, PTL DEF Spec
=============================================================================
