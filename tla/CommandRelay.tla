---------------------------- MODULE CommandRelay ----------------------------
(***************************************************************************)
(* The command mailbox between the control plane and a fleet server.  A    *)
(* caller of requestNomad() finds or creates a command; the agent of the   *)
(* machine polls for it, runs it against its local Nomad and posts the     *)
(* result; the caller polls the command until it is completed.             *)
(*                                                                         *)
(* Every HTTP exchange between agent and control plane may lose its        *)
(* request or its reply, the agent may restart, and Nomad may have run a   *)
(* request that the agent reports as failed.  One machine, one agent       *)
(* process with one request at a time.  Commands are numbered in insertion *)
(* order; times are ages in ticks.                                         *)
(***************************************************************************)
EXTENDS Integers, FiniteSets

CONSTANTS
  Caller,        \* concurrent callers of requestNomad()
  Key,           \* hashes of (machine, method, path, payload)
  Mutation,      \* the keys whose method is not GET
  MaxCommands,   \* bound: commands ever created
  MaxFaults,     \* bound: lost messages and agent restarts
  EXPIRY,        \* age at which a command is no longer handed out (120 s)
  RECLAIM,       \* age of a claim above which a GET is handed out again (60 s)
  GET_FRESH,     \* age up to which the result of a GET is shared (5 s)
  MUT_FRESH,     \* the same for a mutation (60 s)
  PRUNE,         \* age at which the alarm deletes a command (1 h)
  SealYields     \* TRUE: other events run while a new command is encrypted

ASSUME RelayAssumption ==
  /\ Mutation \subseteq Key
  /\ MaxCommands \in Nat /\ MaxFaults \in Nat
  /\ {EXPIRY, GET_FRESH, MUT_FRESH, PRUNE} \subseteq Nat \ {0} /\ RECLAIM \in Nat
  /\ RECLAIM < EXPIRY /\ EXPIRY < PRUNE
  /\ SealYields \in BOOLEAN

VARIABLES
  commands,   \* the "commands" documents
  created,    \* number of commands ever created
  caller,     \* each call of requestNomad() in progress
  agent,      \* the relay loop of the agent
  posts,      \* result requests that the control plane is handling
  ran,        \* how often Nomad carried out each command
  faults

vars == <<commands, created, caller, agent, posts, ran, faults>>

Cmd   == 1..MaxCommands
Never == -1     \* an age that has not begun: not claimed, not completed

\* Ages beyond PRUNE are not told apart.
Older(age) == IF age = Never \/ age >= PRUNE THEN age ELSE age + 1

Absent == [stored |-> FALSE, key |-> CHOOSE k \in Key : TRUE, age |-> 0,
           claimed |-> Never, completed |-> Never, ok |-> FALSE]
IdleCaller == [at |-> "idle", key |-> CHOOSE k \in Key : TRUE, cmd |-> 0,
               answer |-> "none"]
IdleAgent  == [at |-> "idle", cmd |-> 0, ok |-> FALSE]

Init ==
  /\ commands = [c \in Cmd |-> Absent] /\ created = 0
  /\ caller = [p \in Caller |-> IdleCaller]
  /\ agent = IdleAgent /\ posts = {}
  /\ ran = [c \in Cmd |-> 0]
  /\ faults = 0

IsMutation(c) == commands[c].key \in Mutation
Claimed(c)    == commands[c].claimed # Never
Completed(c)  == commands[c].completed # Never
Expired(c)    == commands[c].age >= EXPIRY
-----------------------------------------------------------------------------
(* Callers.                                                                *)

BugReusable(c, k) ==   \* an expired command is never joined
  /\ commands[c].stored /\ commands[c].key = k /\ ~Expired(c)
  /\ ~Completed(c) \/ commands[c].completed <
                        (IF k \in Mutation THEN MUT_FRESH ELSE GET_FRESH)

\* A command that a new call with the same key joins instead of creating one.
Reusable(c, k) ==
  /\ commands[c].stored /\ commands[c].key = k
  /\ \/ ~Completed(c) /\ Claimed(c) /\ k \in Mutation
     \/ /\ ~Expired(c)
        /\ ~Completed(c) \/ commands[c].completed <
                              (IF k \in Mutation THEN MUT_FRESH ELSE GET_FRESH)

OutcomeUnknown(c) == Claimed(c) /\ ~Completed(c) /\ Expired(c)

At(p, place) == caller' = [caller EXCEPT ![p].at = place]
Answer(p, what) ==
  caller' = [caller EXCEPT ![p].at = "idle", ![p].answer = what]
Pending(p) == caller' = [caller EXCEPT ![p] = [IdleCaller EXCEPT !.answer = "pending"]]

NewCommand(k) == [Absent EXCEPT !.stored = TRUE, !.key = k]

Insert(p, k) ==
  /\ created < MaxCommands
  /\ created' = created + 1
  /\ commands' = [commands EXCEPT ![created + 1] = NewCommand(k)]
  /\ caller' = [caller EXCEPT ![p] =
       [at |-> "wait", key |-> k, cmd |-> created + 1, answer |-> "none"]]

Call(p, k) ==   \* from the lookup by key to the command that is waited for
  /\ caller[p].at = "idle"
  /\ LET found == {c \in Cmd : Reusable(c, k)}
         first == CHOOSE c \in found : \A d \in found : c <= d IN
     \/ /\ found # {} /\ OutcomeUnknown(first)
        /\ Pending(p)
        /\ UNCHANGED <<commands, created>>
     \/ /\ found # {} /\ ~OutcomeUnknown(first)
        /\ caller' = [caller EXCEPT ![p] =
             [at |-> "wait", key |-> k, cmd |-> first, answer |-> "none"]]
        /\ UNCHANGED <<commands, created>>
     \/ found = {} /\ ~SealYields /\ Insert(p, k)
     \/ /\ found = {} /\ SealYields
        /\ caller' = [caller EXCEPT ![p] =
             [at |-> "seal", key |-> k, cmd |-> 0, answer |-> "none"]]
        /\ UNCHANGED <<commands, created>>
  /\ UNCHANGED <<agent, posts, ran, faults>>

Sealed(p) ==   \* the put after the encryption of the request
  /\ caller[p].at = "seal"
  /\ Insert(p, caller[p].key)
  /\ UNCHANGED <<agent, posts, ran, faults>>

Observe(p) ==   \* the poll that sees the command completed
  /\ caller[p].at = "wait" /\ Completed(caller[p].cmd)
  /\ Answer(p, IF commands[caller[p].cmd].ok THEN "ok" ELSE "failed")
  /\ UNCHANGED <<commands, created, agent, posts, ran, faults>>

GiveUp(p) ==   \* forty polls, then NomadPending
  /\ caller[p].at = "wait" /\ ~Completed(caller[p].cmd)
  /\ Pending(p)
  /\ UNCHANGED <<commands, created, agent, posts, ran, faults>>
-----------------------------------------------------------------------------
(* The mailbox endpoints of the agent.                                     *)

BugClaimable(c) ==   \* Bug*: a plausible bug in the definition that follows it
  /\ commands[c].stored /\ ~Completed(c) /\ ~Expired(c)
  /\ Claimed(c) => commands[c].claimed > RECLAIM

Claimable(c) ==
  /\ commands[c].stored /\ ~Completed(c) /\ ~Expired(c)
  /\ Claimed(c) => ~IsMutation(c) /\ commands[c].claimed > RECLAIM

BugPoll ==   \* any claimable command
  /\ agent.at = "idle"
  /\ \E c \in Cmd : /\ Claimable(c)
                    /\ commands' = [commands EXCEPT ![c].claimed = 0]
                    /\ agent' = [at |-> "sent", cmd |-> c, ok |-> FALSE]
  /\ UNCHANGED <<created, caller, posts, ran, faults>>

Poll ==   \* GET .../commands: the first claimable command is claimed and sent
  /\ agent.at = "idle"
  /\ \E c \in Cmd : /\ Claimable(c) /\ \A d \in Cmd : Claimable(d) => c <= d
                    /\ commands' = [commands EXCEPT ![c].claimed = 0]
                    /\ agent' = [at |-> "sent", cmd |-> c, ok |-> FALSE]
  /\ UNCHANGED <<created, caller, posts, ran, faults>>

\* POST .../commands/<id>: the document is read, then the body is awaited.
ReadForResult ==
  /\ agent.at = "report"
  /\ posts' = posts \union {[cmd |-> agent.cmd, ok |-> agent.ok,
                             read |-> commands[agent.cmd]]}
  /\ agent' = [agent EXCEPT !.at = "posted"]
  /\ UNCHANGED <<commands, created, caller, ran, faults>>

BugAcceptable(q) == TRUE   \* an unclaimed or deleted command too

Acceptable(q) ==
  q.read.stored /\ q.read.claimed # Never /\ q.read.completed = Never

StoreResult(q) ==   \* the check and the put, on the document read before
  /\ q \in posts
  /\ posts' = posts \ {q}
  /\ commands' = IF Acceptable(q)
                 THEN [commands EXCEPT ![q.cmd] =
                         [q.read EXCEPT !.completed = 0, !.ok = q.ok]]
                 ELSE commands
  /\ agent' = IF agent.at = "posted" /\ agent.cmd = q.cmd
              THEN IdleAgent ELSE agent
  /\ UNCHANGED <<created, caller, ran, faults>>
-----------------------------------------------------------------------------
(* The agent.                                                              *)

Receive ==
  /\ agent.at = "sent"
  /\ agent' = [agent EXCEPT !.at = "run"]
  /\ UNCHANGED <<commands, created, caller, posts, ran, faults>>

BugRun ==   \* an unreachable Nomad counts as success
  /\ agent.at = "run"
  /\ \E times \in {0, 1} : ran' = [ran EXCEPT ![agent.cmd] = @ + times]
  /\ agent' = [agent EXCEPT !.at = "report", !.ok = TRUE]
  /\ UNCHANGED <<commands, created, caller, posts, faults>>

Run ==   \* Nomad carries the request out, and its answer may be lost
  /\ agent.at = "run"
  /\ \/ /\ ran' = [ran EXCEPT ![agent.cmd] = @ + 1]
        /\ \E ok \in BOOLEAN :
             agent' = [agent EXCEPT !.at = "report", !.ok = ok]
     \/ /\ agent' = [agent EXCEPT !.at = "report", !.ok = FALSE]
        /\ UNCHANGED ran
  /\ UNCHANGED <<commands, created, caller, posts, faults>>

\* The exchange with the control plane breaks off (15 s) or the agent
\* restarts: it polls again, whatever it was doing.  A result request that
\* has reached the control plane is still handled.
AgentLoses ==
  /\ faults < MaxFaults /\ agent.at # "idle"
  /\ faults' = faults + 1
  /\ agent' = IdleAgent
  /\ UNCHANGED <<commands, created, caller, posts, ran>>
-----------------------------------------------------------------------------
(* Time and cleanup.                                                       *)

BugPrune ==   \* deletes completed commands only
  /\ \E c \in Cmd : commands[c].completed >= PRUNE
  /\ commands' = [c \in Cmd |-> IF commands[c].completed >= PRUNE
                                THEN [Absent EXCEPT !.key = commands[c].key]
                                ELSE commands[c]]
  /\ UNCHANGED <<created, caller, agent, posts, ran, faults>>

Outdated(c) == commands[c].stored /\ commands[c].age >= PRUNE

\* The alarm: commands created more than an hour ago.  (The key of a deleted
\* command is kept for the properties only.)
Prune ==
  /\ \E c \in Cmd : Outdated(c)
  /\ commands' = [c \in Cmd |-> IF Outdated(c)
                                THEN [Absent EXCEPT !.key = commands[c].key]
                                ELSE commands[c]]
  /\ UNCHANGED <<created, caller, agent, posts, ran, faults>>

Aged(c) == [c EXCEPT !.age = Older(@), !.claimed = Older(@),
                     !.completed = Older(@)]

\* A call gives up after 20 seconds, long before its command is deleted.
Tick ==
  /\ \E c \in Cmd : commands[c].stored /\ commands[c].age < PRUNE
  /\ \A p \in Caller : caller[p].at = "wait" =>
                         commands[caller[p].cmd].age < PRUNE - 1
  /\ commands' = [c \in Cmd |-> IF commands[c].stored THEN Aged(commands[c])
                                ELSE commands[c]]
  /\ posts' = {[q EXCEPT !.read = Aged(@)] : q \in posts}
  /\ UNCHANGED <<created, caller, agent, ran, faults>>

Agent == Poll \/ ReadForResult \/ Receive \/ Run
Handling == \E q \in posts : StoreResult(q)

Next ==
  \/ \E p \in Caller : (\E k \in Key : Call(p, k)) \/ Sealed(p) \/ Observe(p)
                       \/ GiveUp(p)
  \/ Agent \/ Handling \/ AgentLoses \/ Prune \/ Tick

\* The agent keeps polling, the alarm keeps running (every heartbeat arms it)
\* and time passes; callers need not call again.
Fairness ==
  /\ WF_vars(Agent) /\ WF_vars(Handling) /\ WF_vars(Prune) /\ WF_vars(Tick)
  /\ \A p \in Caller : WF_vars(Sealed(p) \/ Observe(p) \/ GiveUp(p))

Spec     == Init /\ [][Next]_vars
FairSpec == Spec /\ Fairness
-----------------------------------------------------------------------------
(* Properties.                                                             *)

Age == {Never} \union 0..PRUNE
Document == [stored : BOOLEAN, key : Key, age : 0..PRUNE, claimed : Age,
             completed : Age, ok : BOOLEAN]

\* The shape of the documents and processes; a command is claimed after it is
\* created and completed after it is claimed.
TypeOK ==
  /\ commands \in [Cmd -> Document]
  /\ \A c \in Cmd : /\ commands[c].completed <= commands[c].claimed
                    /\ commands[c].claimed <= commands[c].age
  /\ created \in 0..MaxCommands
  /\ caller \in [Caller -> [at : {"idle", "seal", "wait"}, key : Key,
                            cmd : 0..MaxCommands,
                            answer : {"none", "pending", "ok", "failed"}]]
  /\ agent \in [at : {"idle", "sent", "run", "report", "posted"},
                cmd : 0..MaxCommands, ok : BOOLEAN]
  /\ posts \in SUBSET [cmd : Cmd, ok : BOOLEAN, read : Document]
  /\ ran \in [Cmd -> Nat]
  /\ faults \in 0..MaxFaults

\* A mutation is carried out at most once per command, whatever messages are
\* lost and however late the agent is.
MutationRunsOnce == \A c \in Cmd : IsMutation(c) => ran[c] <= 1

\* "Runtime mutation outcome is unknown": while a mutation may have been
\* carried out and nobody knows, no other command repeats it.
UnknownNotRepeated ==
  \A c, d \in Cmd :
    /\ commands[c].stored /\ Claimed(c) /\ ~Completed(c)
    /\ commands[d].stored /\ Claimed(d) /\ ~Completed(d)
    /\ commands[c].key = commands[d].key /\ IsMutation(c)
    => c = d

\* A caller that is told of success got it from a run of its own request.
SuccessIsReal ==
  \A p \in Caller : caller[p].answer = "ok" =>
    ran[caller[p].cmd] > 0 /\ commands[caller[p].cmd].key = caller[p].key

\* What a caller may rely on once an outcome is unknown: no repetition, no false success
\* (workspace.ts:376-407, provision.rs:366-372).
UnknownHolds == UnknownNotRepeated /\ SuccessIsReal

\* Nomad sees the mutations of a machine in the order in which they were
\* requested: a start never overtakes the stop before it.
MutationsInOrder ==
  [][\A c, d \in Cmd :
       ran'[c] > ran[c] /\ c < d /\ IsMutation(c) /\ IsMutation(d)
         => ran[d] = 0]_vars

\* The recorded outcome of a mutation is never replaced by another one.
OutcomeIsFinal ==
  [][\A c \in Cmd : commands[c].stored /\ IsMutation(c) /\ Completed(c)
       => \/ ~commands'[c].stored
          \/ Completed(c)' /\ commands'[c].ok = commands[c].ok]_vars

\* What was done to a machine happened in order and is remembered
\* (fleet.ts:429-483).
OutcomesHold == MutationsInOrder /\ OutcomeIsFinal

\* An unknown outcome blocks its mutation for a while, not forever.
Blocked(k) == \E c \in Cmd : Reusable(c, k) /\ OutcomeUnknown(c)
EventuallyUnblocked == \A k \in Mutation : Blocked(k) ~> ~Blocked(k)
=============================================================================
