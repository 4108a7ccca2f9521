---------------------------- MODULE MCHostedWork -----------------------------
(***************************************************************************)
(* Small instances of the work a workspace has done by others, checked     *)
(* together.  The parts share nothing: in a behaviour one of them moves,   *)
(* the one that focus names, and the others stay in their initial states.  *)
(***************************************************************************)
EXTENDS Integers, TLC

CONSTANTS Job, Limit, JobFaults, Delivery, Handler, PushFaults, Asker,
  MaxTokens, TokenFaults, Caller, Key, Mutation, MaxCommands, MaxFaults,
  EXPIRY, RECLAIM, GET_FRESH, MUT_FRESH, PRUNE

VARIABLES
  focus,  \* the part that moves in a behaviour
  apple_jobs, project, allocation, stops, helper, request, artifacts, round,
  lost, record, handler, webhooks, push_requests, service, deploying, queued,
  timer, run, upsets, github_token, expired, lock, good, spent, issued,
  member, grant, work, mishaps, commands, created, caller, agent, posts, ran,
  faults

A == INSTANCE AppleJobs
P == INSTANCE Pushes
S == INSTANCE SourceTokens WITH Request <- Asker
R == INSTANCE CommandRelay WITH SealYields <- TRUE
Q == INSTANCE CommandRelay WITH SealYields <- FALSE

ASSUME WorkAssumption ==
  /\ R!RelayAssumption /\ Key # {}
  /\ JobFaults \in Nat /\ PushFaults \in Nat
  /\ S!Free \notin Asker

appleVars == <<apple_jobs, project, allocation, stops, helper, request,
               artifacts, round, lost>>
pushesVars == <<record, handler, webhooks, push_requests, service, deploying,
                queued, timer, run, upsets>>
tokensVars == <<github_token, expired, lock, good, spent, issued, member,
                grant, work, mishaps>>
relayVars == <<commands, created, caller, agent, posts, ran, faults>>

\* The mailbox moves in two ways: other requests may run while a command is
\* encrypted ("relay"), or, as in the runtime, may not ("mailbox").
Init ==
  /\ focus \in {"apple", "pushes", "tokens", "relay", "mailbox"}
  /\ A!Init /\ P!Init /\ S!Init /\ R!Init

Next ==
  \/ /\ focus = "apple" /\ A!Next
     /\ UNCHANGED <<focus, pushesVars, tokensVars, relayVars>>
  \/ /\ focus = "pushes" /\ P!Next
     /\ UNCHANGED <<focus, appleVars, tokensVars, relayVars>>
  \/ /\ focus = "tokens" /\ S!Next
     /\ UNCHANGED <<focus, appleVars, pushesVars, relayVars>>
  \/ /\ focus = "relay" /\ R!Next
     /\ UNCHANGED <<focus, appleVars, pushesVars, tokensVars>>
  \/ /\ focus = "mailbox" /\ Q!Next
     /\ UNCHANGED <<focus, appleVars, pushesVars, tokensVars>>

Spec == Init /\ [][Next]_<<focus, appleVars, pushesVars, tokensVars, relayVars>>

\* Bounds: of the builds one gets as far as a Mac; where other requests run while a
\* command is encrypted, no message is lost as well.
Bounded ==
  /\ \A i, j \in Job : helper[i].pc # "none" /\ helper[j].pc # "none" => i = j
  /\ focus = "relay" => faults = 0

Symmetry == Permutations(Job) \cup Permutations(Caller)
-----------------------------------------------------------------------------
(* Properties.  What each conjunct says, and of which code, is written     *)
(* where it is defined.                                                    *)

\* The documents and rows of every part have the shape their handlers give them.
TypeOK == A!TypeOK /\ P!TypeOK /\ S!TypeOK /\ R!TypeOK

\* Work that was accepted is neither lost nor done twice, and is told to have been
\* done only if it was: pushes, the tokens that refresh each other, the commands of
\* a machine, builds and their artifacts (github.ts:145-180 and 515-545,
\* workspace.ts:193-231, 354-400 and 442-461, fleet.ts:429-484,
\* apple-jobs.ts:136-156, apple-nomad.ts:88-137).
DoneOnce ==
  /\ P!PushKept /\ P!DeployedOnce /\ S!TokenKept /\ A!EndIsTrue /\ A!ArtifactsMatch
  /\ R!MutationRunsOnce
  /\ focus = "mailbox" => Q!UnknownHolds

\* A build has its project, and a workspace an installation only of a member, wherever
\* the one goes while the other begins (apple-jobs.ts:229-258, runtime.ts:205-215,
\* github.ts:290-308).
OwnersExist == A!ActiveHasProject /\ S!GrantsOfMembers

\* Credentials are released only under the authority of that moment, although it
\* was checked before calls that take long: to a build that still runs, to a
\* workspace that still has the installation, and never after disconnecting
\* (apple-jobs.ts:95-134, github.ts:161-171 and 358-366).
ReleasesHold == A!TokenForRunning /\ S!ReleasedUnderGrant /\ S!DisconnectHolds

\* Late answers change nothing that was decided: neither the outcome of a command
\* or of a build, nor the order of commands (fleet.ts:429-484, apple-nomad.ts:110-111).
OutcomesHold == R!OutcomesHold /\ A!EndIsFinal
=============================================================================
