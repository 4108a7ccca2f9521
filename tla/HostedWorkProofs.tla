-------------------------- MODULE HostedWorkProofs --------------------------
(***************************************************************************)
(* Theorems about the work a workspace has done by others, for any number  *)
(* of commands, builds, pushes, tokens, requests and faults.  Each part    *)
(* has its inductive invariant; as the parts share nothing, a step of one  *)
(* leaves those of the others alone.                                       *)
(***************************************************************************)
EXTENDS MCHostedWork, Sequences, TLAPS, WellFoundedInduction

(***************************************************************************)
(* The mailbox of a machine.  R and Q differ in when a new command is      *)
(* inserted; every other operator is the same in both.                     *)
(***************************************************************************)

Cmd == 1..MaxCommands
Mutates(c)    == commands[c].key \in Mutation
Stored(c)     == commands[c].stored
Claimed(c)    == commands[c].claimed # -1
Completed(c)  == commands[c].completed # -1
Waiting(c)    == Stored(c) /\ ~Claimed(c) /\ ~Completed(c) /\ ~(commands[c].age >= EXPIRY)
Holding(c)    == agent.at # "idle" /\ agent.cmd = c
Running(c)    == agent.at \in {"sent", "run"} /\ agent.cmd = c

Ordered(doc) == doc.completed <= doc.claimed /\ doc.claimed <= doc.age
MailTyped == R!TypeOK /\ \A q \in posts : Ordered(q.read)

\* Commands get their numbers in order, and keep their keys.
Numbered ==
  /\ \A c \in Cmd : c > created => commands[c] = R!Absent /\ ran[c] = 0
  /\ agent.at # "idle" => agent.cmd \in 1..created
  /\ \A q \in posts : q.cmd <= created /\ q.read.key = commands[q.cmd].key

\* A mutation is handed out once: before that nobody has it, until the agent has
\* run it it did not run, and until the agent has reported it has no outcome.
HandedOnce == \A c \in Cmd : Mutates(c) =>
  /\ Stored(c) /\ ~Claimed(c) => ran[c] = 0 /\ ~Holding(c) /\ \A q \in posts : q.cmd # c
  /\ Running(c) => ran[c] = 0
  /\ Holding(c) /\ agent.at # "posted" =>
       (\A q \in posts : q.cmd # c) /\ ~(Stored(c) /\ Completed(c))
  /\ ran[c] <= 1

\* A mutation has one report.
ReportedOnce == \A q \in posts : Mutates(q.cmd) =>
  /\ ~(Stored(q.cmd) /\ Completed(q.cmd))
  /\ \A r \in posts : r.cmd = q.cmd => r = q

\* A caller waits for a command of its key, and is told of success if it has run.
Told(w) ==
  /\ w.at = "wait" \/ w.answer = "ok" => w.cmd \in 1..created /\ commands[w.cmd].key = w.key
  /\ w.answer = "ok" => ran[w.cmd] > 0

\* What is said to have run has run.
Real ==
  /\ agent.at \in {"report", "posted"} /\ agent.ok => ran[agent.cmd] > 0
  /\ \A q \in posts : q.ok => ran[q.cmd] > 0
  /\ \A c \in Cmd : Completed(c) /\ commands[c].ok => ran[c] > 0
  /\ \A p \in Caller : Told(caller[p])

\* While a mutation may still be handed out, or is, no later one has run.
InTurn == \A c, d \in Cmd : Mutates(c) /\ Mutates(d) /\ c < d =>
  /\ Waiting(c) => ran[d] = 0 /\ ~Running(d)
  /\ Running(c) => ran[d] = 0

MailInv == MailTyped /\ Numbered /\ HandedOnce /\ ReportedOnce /\ Real /\ InTurn

\* Only one command of a mutation may still be carried out or have been carried
\* out unnoticed, if the lookup and the insertion are one step.
Open(c) == Stored(c) /\ ~Completed(c) /\ (Claimed(c) \/ commands[c].age < EXPIRY)
OneOpen ==
  /\ \A c, d \in Cmd :
       Open(c) /\ Open(d) /\ commands[c].key = commands[d].key /\ Mutates(c) => c = d
  /\ \A p \in Caller : caller[p].at # "seal"
-----------------------------------------------------------------------------
(* The steps of the mailbox.                                               *)

Doc   == R!Document
Call  == [at : {"idle", "seal", "wait"}, key : Key, cmd : 0..MaxCommands,
          answer : {"none", "pending", "ok", "failed"}]
Agent == [at : {"idle", "sent", "run", "report", "posted"}, cmd : 0..MaxCommands, ok : BOOLEAN]
Post  == [cmd : Cmd, ok : BOOLEAN, read : Doc]

Inserts(p, k) == R!Insert(p, k) /\ UNCHANGED <<agent, posts, ran, faults>>
Alone(k)      == \A c \in Cmd : ~R!Reusable(c, k)
Asks(places)  ==
  /\ \E p \in Caller, w \in Call :
       caller' = [caller EXCEPT ![p] = w] /\ Told(w) /\ w.at \in places
  /\ UNCHANGED <<commands, created, agent, posts, ran, faults>>
Others == R!Poll \/ R!ReadForResult \/ R!Receive \/ R!Run \/ R!Handling \/ R!AgentLoses
          \/ R!Prune \/ R!Tick

LEMMA MailTypes ==
  R!TypeOK <=>
    /\ commands \in [Cmd -> Doc] /\ \A c \in Cmd : Ordered(commands[c])
    /\ created \in 0..MaxCommands /\ caller \in [Caller -> Call] /\ agent \in Agent
    /\ posts \in SUBSET Post /\ ran \in [Cmd -> Nat] /\ faults \in 0..MaxFaults
BY DEF R!TypeOK, R!Cmd, Cmd, Doc, Call, Agent, Post, Ordered

LEMMA MailNumbers ==
  /\ MaxCommands \in Nat /\ MaxFaults \in Nat /\ Mutation \subseteq Key
  /\ EXPIRY \in Nat \ {0} /\ PRUNE \in Nat \ {0} /\ EXPIRY < PRUNE
BY WorkAssumption DEF R!RelayAssumption

LEMMA MailRecords ==
  /\ R!Absent \in Doc /\ Ordered(R!Absent) /\ R!IdleCaller \in Call /\ R!IdleAgent \in Agent
  /\ ~R!Absent.stored /\ R!Absent.claimed = -1 /\ R!Absent.completed = -1
<1>1. (CHOOSE k \in Key : TRUE) \in Key
  BY WorkAssumption
<1> QED
  BY <1>1, MailNumbers DEF R!Absent, R!IdleCaller, R!IdleAgent, R!Never, Doc,
     R!Document, R!Age, Ordered, Call, Agent

LEMMA NewDoc ==
  ASSUME NEW k \in Key
  PROVE  /\ R!NewCommand(k) \in Doc /\ Ordered(R!NewCommand(k))
         /\ R!NewCommand(k).stored /\ R!NewCommand(k).key = k /\ R!NewCommand(k).age = 0
         /\ R!NewCommand(k).claimed = -1 /\ R!NewCommand(k).completed = -1
<1> DEFINE a == R!Absent
<1>1. a \in Doc /\ Ordered(a) /\ a.claimed = -1 /\ a.completed = -1
  BY MailRecords
<1>2. a.age = 0
  BY DEF R!Absent
<1>3. R!NewCommand(k) = [a EXCEPT !.stored = TRUE, !.key = k]
  BY DEF R!NewCommand
<1> HIDE DEF a
<1> QED
  BY <1>1, <1>2, <1>3 DEF Doc, R!Document, Ordered

LEMMA Ages ==
  /\ 0 \in R!Age /\ -1 \in R!Age
  /\ \A age \in R!Age : /\ R!Older(age) \in R!Age /\ R!Older(age) >= age
                        /\ R!Older(age) = -1 <=> age = -1
                        /\ \A other \in R!Age : age <= other => R!Older(age) <= R!Older(other)
  /\ \A age \in 0..PRUNE : age \in R!Age /\ R!Older(age) \in 0..PRUNE
  /\ \A age \in R!Age : age \in Int /\ (age # -1 => age >= 0)
BY MailNumbers DEF R!Age, R!Older, R!Never

LEMMA OldDoc ==
  ASSUME NEW doc \in Doc, Ordered(doc)
  PROVE  /\ R!Aged(doc) \in Doc /\ Ordered(R!Aged(doc))
         /\ R!Aged(doc).stored = doc.stored /\ R!Aged(doc).key = doc.key
         /\ R!Aged(doc).ok = doc.ok /\ R!Aged(doc).age >= doc.age
         /\ (R!Aged(doc).claimed = -1 <=> doc.claimed = -1)
         /\ (R!Aged(doc).completed = -1 <=> doc.completed = -1)
<1> DEFINE a == R!Older(doc.age)
           b == R!Older(doc.claimed)
           c == R!Older(doc.completed)
           new == [doc EXCEPT !.age = a, !.claimed = b, !.completed = c]
<1>1. doc.age \in 0..PRUNE /\ doc.claimed \in R!Age /\ doc.completed \in R!Age
  BY DEF Doc, R!Document
<1>2. /\ a \in 0..PRUNE /\ b \in R!Age /\ c \in R!Age /\ a >= doc.age
      /\ (b = -1 <=> doc.claimed = -1) /\ (c = -1 <=> doc.completed = -1)
  BY <1>1, Ages
<1>3. c <= b /\ b <= a
  BY <1>1, Ages DEF Ordered
<1>4. R!Aged(doc) = new
  BY DEF R!Aged
<1> HIDE DEF a, b, c
<1>5. /\ new \in Doc /\ new.stored = doc.stored /\ new.key = doc.key /\ new.ok = doc.ok
      /\ new.age = a /\ new.claimed = b /\ new.completed = c
  BY <1>2 DEF Doc, R!Document
<1> HIDE DEF new
<1> QED
  BY <1>2, <1>3, <1>4, <1>5 DEF Ordered

LEMMA ClaimedDoc ==
  ASSUME NEW doc \in Doc, Ordered(doc), doc.completed = -1
  PROVE  LET new == [doc EXCEPT !.claimed = 0]
         IN  /\ new \in Doc /\ Ordered(new)
             /\ new.stored = doc.stored /\ new.key = doc.key /\ new.ok = doc.ok
             /\ new.completed = -1 /\ new.claimed = 0 /\ new.age = doc.age
<1>1. doc.age >= 0
  BY MailNumbers DEF Doc, R!Document
<1> QED
  BY <1>1, Ages DEF Doc, R!Document, Ordered

LEMMA DoneDoc ==
  ASSUME NEW doc \in Doc, Ordered(doc), doc.claimed # -1, NEW ok \in BOOLEAN
  PROVE  LET new == [doc EXCEPT !.completed = 0, !.ok = ok]
         IN  /\ new \in Doc /\ Ordered(new)
             /\ new.stored = doc.stored /\ new.key = doc.key /\ new.ok = ok
             /\ new.completed = 0 /\ new.claimed = doc.claimed /\ new.age = doc.age
<1> DEFINE new == [doc EXCEPT !.completed = 0, !.ok = ok]
<1>1. doc.claimed >= 0
  BY Ages DEF Doc, R!Document
<1>2. /\ new \in Doc /\ new.stored = doc.stored /\ new.key = doc.key /\ new.ok = ok
      /\ new.completed = 0 /\ new.claimed = doc.claimed /\ new.age = doc.age
  BY Ages DEF Doc, R!Document
<1> HIDE DEF new
<1> QED
  BY <1>1, <1>2 DEF Ordered, new

LEMMA GoneDoc ==
  ASSUME NEW k \in Key
  PROVE  LET new == [R!Absent EXCEPT !.key = k]
         IN  /\ new \in Doc /\ Ordered(new) /\ ~new.stored /\ new.key = k
             /\ new.claimed = -1 /\ new.completed = -1
<1> DEFINE a == R!Absent
<1>1. a \in Doc /\ Ordered(a) /\ ~a.stored /\ a.claimed = -1 /\ a.completed = -1
  BY MailRecords
<1> HIDE DEF a
<1>2. LET new == [a EXCEPT !.key = k]
      IN  /\ new \in Doc /\ Ordered(new) /\ ~new.stored /\ new.key = k
          /\ new.claimed = -1 /\ new.completed = -1
  BY <1>1 DEF Doc, R!Document, Ordered
<1> QED
  BY <1>2 DEF a

\* What is found first has been found.
LEMMA Least ==
  ASSUME NEW found \in SUBSET Nat, found # {}
  PROVE  (CHOOSE c \in found : \A d \in found : c <= d) \in found
<1>1. PICK c \in found : \A d \in found : <<d, c>> \notin OpToRel(<, Nat)
  BY NatLessThanWellFounded, WFMin
<1>2. \A d \in found : c <= d
  <2>1. \A d \in found : ~(d < c)
    BY <1>1, Zenon DEF OpToRel
  <2> QED
    BY <2>1
<1> QED
  BY <1>2

LEMMA Found ==
  ASSUME NEW found \in SUBSET Cmd, found # {}
  PROVE  (CHOOSE c \in found : \A d \in found : c <= d) \in found
<1>1. found \in SUBSET Nat
  BY MailNumbers DEF Cmd
<1> QED
  BY <1>1, Least

LEMMA SameOperators ==
  /\ \A c, k : Q!Reusable(c, k) <=> R!Reusable(c, k)
  /\ \A p, k : Q!Insert(p, k) <=> R!Insert(p, k)
<1>1. \A c, k : Q!Reusable(c, k) <=> R!Reusable(c, k)
  BY DEF Q!Reusable, R!Reusable, Q!Completed, R!Completed, Q!Claimed, R!Claimed,
     Q!Expired, R!Expired, Q!Never, R!Never
<1>2. \A p, k : Q!Insert(p, k) <=> R!Insert(p, k)
  BY DEF Q!Insert, R!Insert, Q!NewCommand, R!NewCommand, Q!Absent, R!Absent, Q!Never, R!Never
<1> QED
  BY <1>1, <1>2

LEMMA SameSteps ==
  Q!Poll \/ Q!ReadForResult \/ Q!Receive \/ Q!Run \/ Q!Handling \/ Q!AgentLoses \/ Q!Prune \/ Q!Tick
    => Others
<1>1. Q!Poll => R!Poll
  BY DEF Q!Poll, R!Poll, Q!Cmd, R!Cmd, Q!Claimable, R!Claimable, Q!Completed, R!Completed,
     Q!Expired, R!Expired, Q!Claimed, R!Claimed, Q!IsMutation, R!IsMutation, Q!Never, R!Never
<1>2. (Q!ReadForResult => R!ReadForResult) /\ (Q!Receive => R!Receive) /\ (Q!Run => R!Run)
  BY DEF Q!ReadForResult, R!ReadForResult, Q!Receive, R!Receive, Q!Run, R!Run
<1>3. Q!Handling => R!Handling
  BY DEF Q!Handling, R!Handling, Q!StoreResult, R!StoreResult, Q!Acceptable, R!Acceptable,
     Q!Never, R!Never, Q!IdleAgent, R!IdleAgent
<1>4. Q!AgentLoses => R!AgentLoses
  BY DEF Q!AgentLoses, R!AgentLoses, Q!IdleAgent, R!IdleAgent
<1>5. Q!Prune => R!Prune
  BY DEF Q!Prune, R!Prune, Q!Outdated, R!Outdated, Q!Cmd, R!Cmd, Q!Absent, R!Absent, Q!Never, R!Never
<1>6. Q!Tick => R!Tick
  BY DEF Q!Tick, R!Tick, Q!Aged, R!Aged, Q!Older, R!Older, Q!Cmd, R!Cmd, Q!Never, R!Never
<1> QED
  BY <1>1, <1>2, <1>3, <1>4, <1>5, <1>6 DEF Others

\* A caller observes, gives up, or joins a command: it then knows its key.
LEMMA AskMoves ==
  ASSUME MailInv, NEW p \in Caller, NEW k \in Key,
         UNCHANGED <<commands, created, agent, posts, ran, faults>>
  PROVE  /\ R!Observe(p) \/ R!GiveUp(p) => Asks({"idle", "wait"})
         /\ R!Pending(p) => Asks({"idle", "wait"})
         /\ \A c \in Cmd : R!Reusable(c, k) /\ caller' = [caller EXCEPT ![p] =
                  [at |-> "wait", key |-> k, cmd |-> c, answer |-> "none"]]
              => Asks({"idle", "wait"})
         /\ caller' = [caller EXCEPT ![p] =
                  [at |-> "seal", key |-> k, cmd |-> 0, answer |-> "none"]]
              => Asks({"idle", "wait", "seal"})
<1> USE DEF MailInv, MailTyped
<1>1. caller[p] \in Call /\ Told(caller[p]) /\ created \in 0..MaxCommands
  BY MailTypes DEF Real
<1>2. R!Observe(p) => Asks({"idle", "wait"})
  <2> SUFFICES ASSUME R!Observe(p) PROVE Asks({"idle", "wait"})
    OBVIOUS
  <2> DEFINE w == [caller[p] EXCEPT !.at = "idle",
                     !.answer = IF commands[caller[p].cmd].ok THEN "ok" ELSE "failed"]
  <2>1. caller' = [caller EXCEPT ![p] = w] /\ caller[p].at = "wait"
        /\ R!Completed(caller[p].cmd)
    BY <1>1 DEF R!Observe, R!Answer, Call
  <2>2. w \in Call /\ w.at = "idle"
    BY <1>1 DEF Call
  <2>3. Told(w)
    <3>1. caller[p].cmd \in Cmd
      BY <1>1, <2>1, MailNumbers DEF Told, Cmd
    <3> QED
      BY <1>1, <2>1, <3>1 DEF Told, Real, Completed, R!Completed, R!Never, Call
  <2> QED
    BY <2>1, <2>2, <2>3 DEF Asks
<1>3. R!Pending(p) => Asks({"idle", "wait"})
  <2> DEFINE w == [R!IdleCaller EXCEPT !.answer = "pending"]
  <2>1. w \in Call /\ w.at = "idle" /\ w.answer = "pending"
    BY MailRecords DEF Call, R!IdleCaller
  <2> QED
    BY <2>1 DEF Asks, R!Pending, Told
<1>4. ASSUME NEW c \in Cmd, R!Reusable(c, k),
             caller' = [caller EXCEPT ![p] =
                          [at |-> "wait", key |-> k, cmd |-> c, answer |-> "none"]]
      PROVE  Asks({"idle", "wait"})
  <2> DEFINE w == [at |-> "wait", key |-> k, cmd |-> c, answer |-> "none"]
  <2>1. commands[c].stored /\ commands[c].key = k
    BY <1>4 DEF R!Reusable
  <2>2. c <= created
    <3>1. ~R!Absent.stored
      BY MailRecords
    <3> QED
      BY <1>1, <2>1, <3>1, MailNumbers DEF Numbered, Cmd
  <2>3. w \in Call /\ w.at = "wait" /\ Told(w)
    BY <2>1, <2>2, MailNumbers DEF Call, Told, Cmd
  <2> QED
    BY <1>4, <2>3 DEF Asks
<1>5. ASSUME caller' = [caller EXCEPT ![p] =
                          [at |-> "seal", key |-> k, cmd |-> 0, answer |-> "none"]]
      PROVE  Asks({"idle", "wait", "seal"})
  <2> DEFINE w == [at |-> "seal", key |-> k, cmd |-> 0, answer |-> "none"]
  <2>1. w \in Call /\ w.at = "seal" /\ Told(w)
    BY MailNumbers DEF Call, Told
  <2> QED
    BY <1>5, <2>1 DEF Asks
<1> QED
  BY <1>2, <1>3, <1>4, <1>5 DEF R!GiveUp

LEMMA RelayMoves ==
  ASSUME MailInv, R!Next
  PROVE  \/ \E p \in Caller, k \in Key : Inserts(p, k)
         \/ Asks({"idle", "wait", "seal"}) \/ Others
<1> USE DEF MailInv, MailTyped
<1>1. ASSUME NEW p \in Caller, NEW k \in Key, R!Call(p, k)
      PROVE  Asks({"idle", "wait", "seal"})
  <2> DEFINE found == {c \in R!Cmd : R!Reusable(c, k)}
             first == CHOOSE c \in found : \A d \in found : c <= d
  <2>1. found # {} => first \in found
    <3> HIDE DEF first
    <3>1. found \in SUBSET Cmd
      BY DEF Cmd, R!Cmd
    <3> HIDE DEF found
    <3> QED
      BY <3>1, Found DEF first
  <2> QED
    BY <1>1, <2>1, AskMoves DEF R!Call, Asks, Cmd, R!Cmd
<1>2. ASSUME NEW p \in Caller, R!Sealed(p)
      PROVE  Inserts(p, caller[p].key) /\ caller[p].key \in Key
  BY <1>2, MailTypes DEF R!Sealed, Inserts, Call
<1>3. ASSUME NEW p \in Caller, R!Observe(p) \/ R!GiveUp(p)
      PROVE  Asks({"idle", "wait", "seal"})
  <2>1. PICK k \in Key : TRUE
    BY WorkAssumption
  <2> QED
    BY <1>3, <2>1, AskMoves DEF R!Observe, R!GiveUp, Asks
<1> QED
  BY <1>1, <1>2, <1>3 DEF R!Next, R!Agent, Others

LEMMA MailboxMoves ==
  ASSUME MailInv, OneOpen, Q!Next
  PROVE  \/ \E p \in Caller, k \in Key : Inserts(p, k) /\ Alone(k)
         \/ Asks({"idle", "wait"}) \/ Others
<1>1. ASSUME NEW p \in Caller
      PROVE  /\ Q!Observe(p) => R!Observe(p)
             /\ Q!GiveUp(p) => R!GiveUp(p)
             /\ Q!Pending(p) => R!Pending(p)
  BY DEF Q!Observe, R!Observe, Q!GiveUp, R!GiveUp, Q!Pending, R!Pending, Q!Answer, R!Answer,
     Q!Completed, R!Completed, Q!Never, R!Never, Q!IdleCaller, R!IdleCaller
<1>2. ASSUME NEW p \in Caller, NEW k \in Key, Q!Call(p, k)
      PROVE  (Inserts(p, k) /\ Alone(k)) \/ Asks({"idle", "wait"})
  <2> DEFINE found == {c \in Q!Cmd : Q!Reusable(c, k)}
             first == CHOOSE c \in found : \A d \in found : c <= d
  <2>1. found # {} => first \in found
    <3> HIDE DEF first
    <3>1. found \in SUBSET Cmd
      BY DEF Cmd, Q!Cmd
    <3> HIDE DEF found
    <3> QED
      BY <3>1, Found DEF first
  <2>2. found = {c \in Cmd : R!Reusable(c, k)}
    BY SameOperators DEF Cmd, Q!Cmd
  <2> HIDE DEF first, found
  <2>3. UNCHANGED <<agent, posts, ran, faults>>
    BY <1>2 DEF Q!Call
  <2>4. CASE found = {}
    <3>1. Q!Insert(p, k)
      BY <1>2, <2>4 DEF Q!Call, found
    <3> QED
      BY <2>2, <2>3, <2>4, <3>1, SameOperators DEF Inserts, Alone
  <2>5. CASE found # {} /\ Q!Pending(p) /\ UNCHANGED <<commands, created>>
    BY <1>1, <2>3, <2>5, AskMoves
  <2>6. CASE /\ found # {} /\ UNCHANGED <<commands, created>>
             /\ caller' = [caller EXCEPT ![p] =
                  [at |-> "wait", key |-> k, cmd |-> first, answer |-> "none"]]
    <3>1. first \in Cmd /\ R!Reusable(first, k)
      BY <2>1, <2>2, <2>6
    <3> QED
      BY <2>3, <2>6, <3>1, AskMoves
  <2> QED
    BY <1>2, <2>4, <2>5, <2>6 DEF Q!Call, found, first
<1>3. ASSUME NEW p \in Caller, Q!Sealed(p) PROVE FALSE
  BY <1>3 DEF Q!Sealed, OneOpen
<1>4. ASSUME NEW p \in Caller, Q!Observe(p) \/ Q!GiveUp(p)
      PROVE  Asks({"idle", "wait"})
  <2>1. PICK k \in Key : TRUE
    BY WorkAssumption
  <2>2. UNCHANGED <<commands, created, agent, posts, ran, faults>>
    BY <1>4 DEF Q!Observe, Q!GiveUp
  <2> QED
    BY <1>1, <1>4, <2>1, <2>2, AskMoves
<1> QED
  BY <1>2, <1>3, <1>4, SameSteps DEF Q!Next, Q!Agent
-----------------------------------------------------------------------------
(* What the steps do, with the command they do it to.                      *)

Claims(c) ==
  /\ agent.at = "idle" /\ R!Claimable(c) /\ \A d \in Cmd : R!Claimable(d) => c <= d
  /\ commands' = [commands EXCEPT ![c].claimed = 0]
  /\ agent' = [at |-> "sent", cmd |-> c, ok |-> FALSE]
  /\ UNCHANGED <<created, caller, posts, ran, faults>>
Receives(c) ==
  /\ agent.at = "sent" /\ agent.cmd = c
  /\ agent'.at = "run" /\ agent'.cmd = c /\ agent' \in Agent
  /\ UNCHANGED <<commands, created, caller, posts, ran, faults>>
Runs(c, n, ok) ==
  /\ agent.at = "run" /\ agent.cmd = c /\ (ok => n = 1)
  /\ ran' = [ran EXCEPT ![c] = @ + n]
  /\ agent'.at = "report" /\ agent'.cmd = c /\ agent'.ok = ok /\ agent' \in Agent
  /\ UNCHANGED <<commands, created, caller, posts, faults>>
Reports(c, q) ==
  /\ agent.at = "report" /\ agent.cmd = c
  /\ q = [cmd |-> c, ok |-> agent.ok, read |-> commands[c]]
  /\ posts' = posts \cup {q}
  /\ agent' = [at |-> "posted", cmd |-> c, ok |-> agent.ok]
  /\ UNCHANGED <<commands, created, caller, ran, faults>>
Accepts(q) ==
  /\ posts' = posts \ {q}
  /\ q.read.stored /\ q.read.claimed # -1 /\ q.read.completed = -1
  /\ commands' = [commands EXCEPT ![q.cmd] = [q.read EXCEPT !.completed = 0, !.ok = q.ok]]
  /\ (agent' = agent \/ agent' = R!IdleAgent)
  /\ UNCHANGED <<created, caller, ran, faults>>
Refuses(q) ==
  /\ posts' = posts \ {q}
  /\ (agent' = agent \/ agent' = R!IdleAgent)
  /\ UNCHANGED <<commands, created, caller, ran, faults>>
Prunes ==
  /\ commands' = [c \in Cmd |-> IF R!Outdated(c) THEN [R!Absent EXCEPT !.key = commands[c].key]
                                ELSE commands[c]]
  /\ UNCHANGED <<created, caller, agent, posts, ran, faults>>
Ticks ==
  /\ commands' = [c \in Cmd |-> IF commands[c].stored THEN R!Aged(commands[c]) ELSE commands[c]]
  /\ posts' = {[q EXCEPT !.read = R!Aged(@)] : q \in posts}
  /\ UNCHANGED <<created, caller, agent, ran, faults>>

LEMMA MailFacts ==
  ASSUME MailInv
  PROVE  /\ commands \in [Cmd -> Doc] /\ \A c \in Cmd : Ordered(commands[c])
         /\ created \in 0..MaxCommands /\ caller \in [Caller -> Call] /\ agent \in Agent
         /\ posts \in SUBSET Post /\ ran \in [Cmd -> Nat] /\ faults \in 0..MaxFaults
         /\ \A q \in posts : Ordered(q.read)
         /\ agent.at # "idle" => agent.cmd \in Cmd /\ agent.cmd <= created
BY MailTypes, MailNumbers DEF MailInv, MailTyped, Numbered, Cmd

LEMMA Effects ==
  ASSUME MailInv, Others
  PROVE  \/ \E c \in Cmd : Claims(c) \/ Receives(c)
         \/ \E c \in Cmd, n \in {0, 1}, ok \in BOOLEAN : Runs(c, n, ok)
         \/ \E c \in Cmd, q \in Post : Reports(c, q)
         \/ \E q \in posts : Accepts(q) \/ Refuses(q)
         \/ Prunes \/ Ticks
         \/ agent' = R!IdleAgent /\ faults < MaxFaults /\ faults' = faults + 1
            /\ UNCHANGED <<commands, created, caller, posts, ran>>
<1>1. R!Poll => \E c \in Cmd : Claims(c)
  BY DEF R!Poll, Claims, Cmd, R!Cmd
<1>2. ASSUME R!Receive PROVE \E c \in Cmd : Receives(c)
  <2>1. agent.cmd \in Cmd
    BY <1>2, MailFacts DEF R!Receive
  <2>2. agent'.at = "run" /\ agent'.cmd = agent.cmd /\ agent' \in Agent
    BY <1>2, MailFacts DEF R!Receive, Agent
  <2> QED
    BY <1>2, <2>1, <2>2 DEF R!Receive, Receives
<1>3. ASSUME R!Run PROVE \E c \in Cmd, n \in {0, 1}, ok \in BOOLEAN : Runs(c, n, ok)
  <2>1. PICK c \in Cmd : c = agent.cmd
    BY <1>3, MailFacts DEF R!Run
  <2>2. \A ok \in BOOLEAN : LET new == [agent EXCEPT !.at = "report", !.ok = ok]
                            IN  new.at = "report" /\ new.cmd = c /\ new.ok = ok /\ new \in Agent
    BY <2>1, MailFacts DEF Agent
  <2>3. CASE ran' = [ran EXCEPT ![agent.cmd] = @ + 1]
             /\ \E ok \in BOOLEAN : agent' = [agent EXCEPT !.at = "report", !.ok = ok]
    <3>1. PICK ok \in BOOLEAN : agent' = [agent EXCEPT !.at = "report", !.ok = ok]
      BY <2>3
    <3>2. agent'.at = "report" /\ agent'.cmd = c /\ agent'.ok = ok /\ agent' \in Agent
      BY <2>2, <3>1
    <3>3. Runs(c, 1, ok)
      BY <1>3, <2>1, <2>3, <3>2 DEF R!Run, Runs
    <3> QED
      BY <3>3
  <2>4. CASE ran' = ran /\ agent' = [agent EXCEPT !.at = "report", !.ok = FALSE]
    <3>1. agent'.at = "report" /\ agent'.cmd = c /\ agent'.ok = FALSE /\ agent' \in Agent
      BY <2>2, <2>4
    <3>2. ran' = [ran EXCEPT ![c] = @ + 0]
      BY <2>4, MailFacts
    <3>3. Runs(c, 0, FALSE)
      BY <1>3, <2>1, <3>1, <3>2 DEF R!Run, Runs
    <3> QED
      BY <3>3
  <2> QED
    BY <1>3, <2>3, <2>4 DEF R!Run
<1>4. ASSUME R!ReadForResult PROVE \E c \in Cmd, q \in Post : Reports(c, q)
  <2>1. PICK c \in Cmd : c = agent.cmd
    BY <1>4, MailFacts DEF R!ReadForResult
  <2> DEFINE q == [cmd |-> c, ok |-> agent.ok, read |-> commands[c]]
  <2>2. q \in Post
    BY MailFacts DEF Post, Agent
  <2>3. agent' = [at |-> "posted", cmd |-> c, ok |-> agent.ok]
    BY <1>4, <2>1, MailFacts DEF R!ReadForResult, Agent
  <2> QED
    BY <1>4, <2>1, <2>2, <2>3 DEF R!ReadForResult, Reports
<1>5. ASSUME NEW q \in posts, R!StoreResult(q) PROVE Accepts(q) \/ Refuses(q)
  BY <1>5, Zenon DEF R!StoreResult, R!Acceptable, R!Never, Accepts, Refuses
<1>6. R!Prune => Prunes
  BY DEF R!Prune, Prunes, Cmd, R!Cmd
<1>7. R!Tick => Ticks
  BY DEF R!Tick, Ticks, Cmd, R!Cmd
<1> QED
  BY <1>1, <1>2, <1>3, <1>4, <1>5, <1>6, <1>7 DEF Others, R!Handling, R!AgentLoses

-----------------------------------------------------------------------------
(* Every step keeps the invariant.                                         *)

LEMMA StillTyped ==
  ASSUME commands' \in [Cmd -> Doc], \A c \in Cmd : Ordered(commands'[c]),
         created' \in 0..MaxCommands, caller' \in [Caller -> Call], agent' \in Agent,
         posts' \in SUBSET Post, \A q \in posts' : Ordered(q.read),
         ran' \in [Cmd -> Nat], faults' \in 0..MaxFaults
  PROVE  MailTyped'
BY DEF MailTyped, R!TypeOK, R!Cmd, Cmd, Doc, Call, Agent, Post, Ordered

LEMMA InsertKeeps ==
  ASSUME MailInv, NEW p \in Caller, NEW k \in Key, Inserts(p, k)
  PROVE  MailInv'
<1> DEFINE new == R!NewCommand(k)
           w   == [at |-> "wait", key |-> k, cmd |-> created + 1, answer |-> "none"]
<1>0. PICK n \in Cmd : n = created + 1
  BY MailFacts, MailNumbers DEF Inserts, R!Insert, Cmd
<1>1. /\ created' = n /\ n \in 0..MaxCommands /\ n > created
      /\ commands' = [commands EXCEPT ![n] = new]
      /\ caller' = [caller EXCEPT ![p] = w]
      /\ UNCHANGED <<agent, posts, ran, faults>>
  BY <1>0, MailFacts, MailNumbers DEF Inserts, R!Insert, Cmd
<1>2. /\ new \in Doc /\ Ordered(new) /\ new.stored /\ new.key = k
      /\ new.age = 0 /\ new.claimed = -1 /\ new.completed = -1
  BY NewDoc
<1>3. w \in Call /\ w.cmd = n /\ w.key = k /\ w.answer = "none"
  BY <1>0, <1>1 DEF Call
<1> HIDE DEF new, w
<1>4. /\ commands'[n] = new /\ \A c \in Cmd : c # n => commands'[c] = commands[c]
      /\ caller'[p] = w /\ \A o \in Caller : o # p => caller'[o] = caller[o]
  BY <1>1, MailFacts
<1>5. /\ ran[n] = 0 /\ ~Holding(n) /\ (agent.at # "idle" => agent.cmd < n)
      /\ \A q \in posts : q.cmd < n
      /\ \A c \in Cmd : c <= created => c < n /\ c # n
  <2>1. \A q \in posts : q.cmd \in Cmd
    BY MailFacts DEF Post
  <2> QED
    BY <1>0, <1>1, <2>1, MailFacts, MailNumbers DEF MailInv, Numbered, Holding, Cmd
<1>6. MailTyped'
  BY <1>1, <1>2, <1>3, MailFacts, StillTyped
<1>7. Numbered'
  <2>1. \A c \in Cmd : c > n => c > created /\ c # n
    BY <1>0, MailFacts, MailNumbers DEF Cmd
  <2> QED
    BY <1>0, <1>1, <1>4, <1>5, <2>1, MailFacts, MailNumbers DEF MailInv, Numbered, Cmd, Post
<1>8. HandedOnce'
  BY <1>1, <1>4, <1>5, <1>2, MailFacts
     DEF MailInv, HandedOnce, Mutates, Stored, Claimed, Completed, Holding, Running
<1>9. ReportedOnce'
  BY <1>1, <1>4, <1>5, <1>2, MailFacts DEF MailInv, ReportedOnce, Mutates, Stored, Completed, Post
<1>10. Real'
  <2>1. \A o \in Caller : Told(caller[o])
    BY DEF MailInv, Real
  <2>2. ASSUME NEW o \in Caller PROVE Told(caller[o])'
    <3>1. created \in Nat /\ \A d \in 1..created : d \in Cmd /\ d # n /\ d \in 1..n
      BY <1>0, MailFacts, MailNumbers DEF Cmd
    <3>2. CASE o = p
      BY <1>0, <1>1, <1>2, <1>3, <1>4, <3>2, MailNumbers DEF Told, Cmd
    <3>3. CASE o # p
      BY <1>1, <1>4, <2>1, <3>1, <3>3 DEF Told
    <3> QED
      BY <3>2, <3>3
  <2> QED
    BY <1>1, <1>2, <1>4, <2>2, MailFacts DEF MailInv, Real, Completed
<1>11. InTurn'
  <2>1. \A c \in Cmd : c > n => ran[c] = 0 /\ ~Running(c)
    BY <1>0, <1>5, MailFacts, MailNumbers DEF MailInv, Numbered, Running, Cmd
  <2> QED
    BY <1>0, <1>1, <1>2, <1>4, <1>5, <2>1, MailFacts
       DEF MailInv, InTurn, Mutates, Waiting, Stored, Claimed, Completed, Running, Holding
<1> QED
  BY <1>6, <1>7, <1>8, <1>9, <1>10, <1>11 DEF MailInv

LEMMA AskKeeps ==
  ASSUME MailInv, Asks({"idle", "wait", "seal"})
  PROVE  MailInv'
<1>1. PICK p \in Caller, w \in Call : caller' = [caller EXCEPT ![p] = w] /\ Told(w)
  BY DEF Asks
<1>2. UNCHANGED <<commands, created, agent, posts, ran, faults>>
  BY DEF Asks
<1>3. caller' \in [Caller -> Call] /\ \A o \in Caller : caller'[o] = caller[o] \/ caller'[o] = w
  BY <1>1, MailFacts
<1>4. MailTyped'
  BY <1>2, <1>3, MailFacts, StillTyped
<1>5. Real'
  BY <1>1, <1>2, <1>3 DEF MailInv, Real, Told, Completed
<1>6. Numbered' /\ HandedOnce' /\ ReportedOnce' /\ InTurn'
  BY <1>2 DEF MailInv, Numbered, HandedOnce, ReportedOnce, InTurn, Mutates, Stored, Claimed,
     Completed, Holding, Running, Waiting
<1> QED
  BY <1>4, <1>5, <1>6 DEF MailInv

LEMMA ClaimKeeps ==
  ASSUME MailInv, NEW c \in Cmd, Claims(c)
  PROVE  MailInv'
<1> DEFINE new == [commands[c] EXCEPT !.claimed = 0]
<1>1. /\ commands[c].stored /\ commands[c].completed = -1
      /\ Mutates(c) => Waiting(c)
      /\ \A d \in Cmd : Mutates(d) /\ Waiting(d) => c <= d
  BY DEF Claims, R!Claimable, R!Completed, R!Claimed, R!Expired, R!IsMutation, R!Never,
     Mutates, Waiting, Stored, Claimed, Completed
<1>2. commands[c] \in Doc /\ Ordered(commands[c])
  BY MailFacts
<1>3. /\ new \in Doc /\ Ordered(new)
      /\ new.stored /\ new.key = commands[c].key /\ new.completed = -1 /\ new.claimed = 0
      /\ new.ok = commands[c].ok
  BY <1>1, <1>2, ClaimedDoc
<1>4. commands' = [commands EXCEPT ![c] = new]
  BY DEF Claims
<1> HIDE DEF new
<1>5. commands'[c] = new /\ \A d \in Cmd : d # c => commands'[d] = commands[d]
  BY <1>4, MailFacts
<1>6. /\ agent.at = "idle" /\ agent'.at = "sent" /\ agent'.cmd = c /\ agent' \in Agent
      /\ UNCHANGED <<created, caller, posts, ran, faults>>
  BY MailNumbers DEF Claims, Agent, Cmd
<1>7. \A d \in Cmd : Mutates(d)' <=> Mutates(d)
  BY <1>3, <1>5 DEF Mutates
<1>8. created \in Nat /\ c <= created /\ c \in Nat /\ c >= 1
  <2>1. ~R!Absent.stored
    BY MailRecords
  <2> QED
    BY <1>1, <2>1, MailFacts, MailNumbers DEF MailInv, Numbered, Cmd
<1>9. MailTyped'
  BY <1>3, <1>4, <1>6, MailFacts, StillTyped
<1>10. Numbered'
  <2>1. \A q \in posts : q.cmd \in Cmd
    BY MailFacts DEF Post
  <2> QED
    BY <1>3, <1>5, <1>6, <1>8, <2>1, MailNumbers DEF MailInv, Numbered, Cmd
<1>11. HandedOnce'
  BY <1>1, <1>3, <1>5, <1>6, <1>7
     DEF MailInv, HandedOnce, Waiting, Stored, Claimed, Completed, Holding, Running
<1>12. ReportedOnce'
  <2>1. \A q \in posts : q.cmd \in Cmd
    BY MailFacts DEF Post
  <2> QED
    BY <1>3, <1>5, <1>6, <1>7, <2>1 DEF MailInv, ReportedOnce, Stored, Completed
<1>13. Real'
  <2>1. \A o \in Caller : Told(caller[o]) /\ caller[o] \in Call
    BY MailFacts DEF MailInv, Real
  <2>2. \A d \in 1..created : d \in Cmd
    BY MailFacts, MailNumbers DEF Cmd
  <2>3. \A o \in Caller : Told(caller[o])'
    BY <1>3, <1>5, <1>6, <2>1, <2>2 DEF Told
  <2> QED
    BY <1>3, <1>5, <1>6, <2>3 DEF MailInv, Real, Completed
<1>14. InTurn'
  <2>1. \A d \in Cmd : c < d /\ Mutates(d) /\ Mutates(c) => ran[d] = 0
    BY <1>1 DEF MailInv, InTurn
  <2>2. \A d \in Cmd : (d < c /\ Mutates(d) => ~Waiting(d)) /\ (Waiting(d)' => d # c /\ Waiting(d))
    BY <1>1, <1>3, <1>5, <1>8, MailNumbers DEF Waiting, Stored, Claimed, Completed, Cmd
  <2> QED
    BY <1>6, <1>7, <1>8, <2>1, <2>2, MailNumbers DEF MailInv, InTurn, Running, Cmd
<1> QED
  BY <1>9, <1>10, <1>11, <1>12, <1>13, <1>14 DEF MailInv

LEMMA StillTold ==
  ASSUME MailInv, caller' = caller, created' = created,
         \A c \in Cmd : commands'[c].key = commands[c].key /\ ran'[c] \in Nat /\ ran'[c] >= ran[c]
  PROVE  \A p \in Caller : Told(caller[p])'
<1>1. \A d \in 1..created : d \in Cmd
  BY MailFacts, MailNumbers DEF Cmd
<1>2. \A c \in Cmd : ran[c] \in Nat
  BY MailFacts
<1>3. \A c \in Cmd : ran[c] > 0 => ran'[c] > 0
  BY <1>2
<1> QED
  BY <1>1, <1>3 DEF MailInv, Real, Told

LEMMA PostFacts ==
  ASSUME MailInv, NEW q \in posts
  PROVE  /\ q.cmd \in Cmd /\ q.cmd <= created /\ q.read \in Doc /\ Ordered(q.read)
         /\ q.ok \in BOOLEAN /\ q.read.key = commands[q.cmd].key
BY MailFacts DEF Post, MailInv, Numbered

\* The agent does something with the command it holds, but does not run it.
LEMMA ReceiveKeeps ==
  ASSUME MailInv, NEW c \in Cmd, Receives(c)
  PROVE  MailInv'
<1>1. /\ agent.at = "sent" /\ agent.cmd = c /\ agent'.at = "run" /\ agent'.cmd = c
      /\ agent' \in Agent /\ UNCHANGED <<commands, created, caller, posts, ran, faults>>
  BY DEF Receives
<1>2. MailTyped'
  BY <1>1, MailFacts, StillTyped
<1>3. Real'
  BY <1>1 DEF MailInv, Real, Told, Completed
<1>4. Numbered' /\ ReportedOnce'
  BY <1>1 DEF MailInv, Numbered, ReportedOnce, Mutates, Stored, Completed
<1>5. HandedOnce' /\ InTurn'
  BY <1>1 DEF MailInv, HandedOnce, InTurn, Mutates, Stored, Claimed, Completed, Holding, Running,
     Waiting
<1> QED
  BY <1>2, <1>3, <1>4, <1>5 DEF MailInv

LEMMA LoseKeeps ==
  ASSUME MailInv, agent' = R!IdleAgent, faults' \in 0..MaxFaults,
         UNCHANGED <<commands, created, caller, posts, ran>>
  PROVE  MailInv'
<1>1. agent'.at = "idle" /\ agent' \in Agent
  BY MailRecords DEF R!IdleAgent
<1>2. MailTyped'
  BY <1>1, MailFacts, StillTyped
<1>3. Real'
  BY <1>1 DEF MailInv, Real, Told, Completed
<1>4. Numbered' /\ ReportedOnce'
  BY <1>1 DEF MailInv, Numbered, ReportedOnce, Mutates, Stored, Completed
<1>5. HandedOnce' /\ InTurn'
  BY <1>1 DEF MailInv, HandedOnce, InTurn, Mutates, Stored, Claimed, Completed, Holding, Running,
     Waiting
<1> QED
  BY <1>2, <1>3, <1>4, <1>5 DEF MailInv

LEMMA RunKeeps ==
  ASSUME MailInv, NEW c \in Cmd, NEW n \in {0, 1}, NEW ok \in BOOLEAN, Runs(c, n, ok)
  PROVE  MailInv'
<1>1. /\ agent.at = "run" /\ agent.cmd = c /\ (ok => n = 1)
      /\ agent'.at = "report" /\ agent'.cmd = c /\ agent'.ok = ok /\ agent' \in Agent
      /\ UNCHANGED <<commands, created, caller, posts, faults>>
  BY DEF Runs
<1>2. /\ ran' \in [Cmd -> Nat] /\ ran'[c] = ran[c] + n /\ ran[c] \in Nat
      /\ \A d \in Cmd : d # c => ran'[d] = ran[d]
  BY MailFacts DEF Runs
<1>3. \A d \in Cmd : ran'[d] \in Nat /\ ran'[d] >= ran[d] /\ (ran[d] > 0 => ran'[d] > 0)
  <2>1. \A d \in Cmd : ran[d] \in Nat
    BY MailFacts
  <2> QED
    BY <1>2, <2>1
<1>4. c <= created
  BY <1>1, MailFacts
<1>5. MailTyped'
  BY <1>1, <1>2, MailFacts, StillTyped
<1>6. Numbered'
  <2>1. \A d \in Cmd : d > created => d # c
    BY <1>4, MailFacts, MailNumbers DEF Cmd
  <2> QED
    BY <1>1, <1>2, <2>1 DEF MailInv, Numbered
<1>7. HandedOnce'
  BY <1>1, <1>2
     DEF MailInv, HandedOnce, Mutates, Stored, Claimed, Completed, Holding, Running
<1>8. ReportedOnce'
  BY <1>1 DEF MailInv, ReportedOnce, Mutates, Stored, Completed
<1>9. Real'
  <2>1. \A p \in Caller : Told(caller[p])'
    BY <1>1, <1>3, StillTold
  <2>2. ok => ran'[c] > 0
    BY <1>1, <1>2
  <2>3. \A q \in posts : q.cmd \in Cmd
    BY PostFacts
  <2> QED
    BY <1>1, <1>3, <2>1, <2>2, <2>3 DEF MailInv, Real, Completed
<1>10. InTurn'
  <2>1. \A d \in Cmd : d < c /\ Mutates(d) /\ Mutates(c) => ~Waiting(d)
    BY <1>1 DEF MailInv, InTurn, Running
  <2> QED
    BY <1>1, <1>2, <2>1
       DEF MailInv, InTurn, Mutates, Stored, Claimed, Completed, Running, Waiting
<1> QED
  BY <1>5, <1>6, <1>7, <1>8, <1>9, <1>10 DEF MailInv

LEMMA ReportKeeps ==
  ASSUME MailInv, NEW c \in Cmd, NEW q \in Post, Reports(c, q)
  PROVE  MailInv'
<1>1. /\ agent.at = "report" /\ agent.cmd = c
      /\ q.cmd = c /\ q.ok = agent.ok /\ q.read = commands[c]
      /\ posts' = posts \cup {q}
      /\ UNCHANGED <<commands, created, caller, ran, faults>>
  BY DEF Reports
<1>2. agent'.at = "posted" /\ agent'.cmd = c /\ agent'.ok = agent.ok /\ agent' \in Agent
  BY MailFacts DEF Reports, Agent
<1>3. commands[c] \in Doc /\ Ordered(commands[c]) /\ c <= created
  BY <1>1, MailFacts
<1>4. MailTyped'
  BY <1>1, <1>2, <1>3, MailFacts, StillTyped
<1>5. Numbered'
  BY <1>1, <1>2, <1>3 DEF MailInv, Numbered
<1>6. HandedOnce'
  BY <1>1, <1>2 DEF MailInv, HandedOnce, Mutates, Stored, Claimed, Completed, Holding, Running
<1>7. ReportedOnce'
  <2>1. Mutates(c) => (\A r \in posts : r.cmd # c) /\ ~(Stored(c) /\ Completed(c))
    BY <1>1 DEF MailInv, HandedOnce, Holding
  <2> QED
    BY <1>1, <2>1 DEF MailInv, ReportedOnce, Mutates, Stored, Completed
<1>8. Real'
  BY <1>1, <1>2 DEF MailInv, Real, Told, Completed
<1>9. InTurn'
  BY <1>1, <1>2 DEF MailInv, InTurn, Mutates, Stored, Claimed, Completed, Running, Waiting
<1> QED
  BY <1>4, <1>5, <1>6, <1>7, <1>8, <1>9 DEF MailInv

LEMMA RefuseKeeps ==
  ASSUME MailInv, NEW q \in posts, Refuses(q)
  PROVE  MailInv'
<1>1. posts' \subseteq posts /\ UNCHANGED <<commands, created, caller, ran, faults>>
  BY DEF Refuses
<1>2. CASE agent' = R!IdleAgent
  <2>1. agent'.at = "idle" /\ agent' \in Agent
    BY <1>2, MailRecords DEF R!IdleAgent
  <2>2. MailTyped'
    BY <1>1, <2>1, MailFacts, StillTyped
  <2> QED
    BY <1>1, <2>1, <2>2
       DEF MailInv, Numbered, HandedOnce, ReportedOnce, Real, InTurn, Told, Mutates, Stored,
           Claimed, Completed, Holding, Running, Waiting
<1>3. CASE agent' = agent
  <2>1. MailTyped'
    BY <1>1, <1>3, MailFacts, StillTyped
  <2> QED
    BY <1>1, <1>3, <2>1
       DEF MailInv, Numbered, HandedOnce, ReportedOnce, Real, InTurn, Told, Mutates, Stored,
           Claimed, Completed, Holding, Running, Waiting
<1> QED
  BY <1>2, <1>3 DEF Refuses

LEMMA AcceptKeeps ==
  ASSUME MailInv, NEW q \in posts, Accepts(q)
  PROVE  MailInv'
<1> DEFINE new == [q.read EXCEPT !.completed = 0, !.ok = q.ok]
<1>1. PICK c \in Cmd : c = q.cmd
  BY PostFacts
<1>2. /\ posts' = posts \ {q} /\ UNCHANGED <<created, caller, ran, faults>>
      /\ commands' = [commands EXCEPT ![c] = new] /\ q.read.claimed # -1 /\ q.read.stored
  BY <1>1 DEF Accepts
<1>3. /\ q.read \in Doc /\ Ordered(q.read) /\ q.ok \in BOOLEAN /\ c <= created
      /\ q.read.key = commands[c].key
  BY <1>1, PostFacts
<1>4. /\ new \in Doc /\ Ordered(new) /\ new.stored /\ new.key = commands[c].key
      /\ new.ok = q.ok /\ new.completed = 0 /\ new.claimed # -1
  BY <1>2, <1>3, DoneDoc
<1> HIDE DEF new
<1>5. commands'[c] = new /\ \A d \in Cmd : d # c => commands'[d] = commands[d]
  BY <1>2, MailFacts
<1>6. \A d \in Cmd : commands'[d].key = commands[d].key /\ (Mutates(d)' <=> Mutates(d))
  BY <1>4, <1>5 DEF Mutates
<1>7. /\ agent' \in Agent /\ (agent' = agent \/ agent'.at = "idle")
  <2>1. R!IdleAgent.at = "idle" /\ R!IdleAgent \in Agent
    BY MailRecords DEF R!IdleAgent
  <2>2. agent' = agent \/ agent' = R!IdleAgent
    BY DEF Accepts
  <2> QED
    BY <2>1, <2>2, MailFacts
<1>8. MailTyped'
  BY <1>2, <1>4, <1>7, MailFacts, StillTyped
<1>9. Numbered'
  <2>1. \A d \in Cmd : d > created => d # c
    BY <1>3, MailFacts, MailNumbers DEF Cmd
  <2>2. \A r \in posts : r.cmd \in Cmd
    BY PostFacts
  <2> QED
    BY <1>2, <1>5, <1>6, <1>7, <2>1, <2>2 DEF MailInv, Numbered
<1>10. HandedOnce'
  <2>1. Mutates(c) /\ Holding(c) => agent.at = "posted"
    BY <1>1 DEF MailInv, HandedOnce
  <2>2. Mutates(c) => ~(Running(c) /\ ran[c] # 0) /\ ran[c] <= 1
    BY DEF MailInv, HandedOnce
  <2>3. ASSUME NEW d \in Cmd, Mutates(d), d # c
        PROVE  /\ Stored(d)' /\ ~Claimed(d)' => ran[d] = 0 /\ ~Holding(d)' /\ \A r \in posts' : r.cmd # d
               /\ Running(d)' => ran[d] = 0
               /\ Holding(d)' /\ agent'.at # "posted" =>
                    (\A r \in posts' : r.cmd # d) /\ ~(Stored(d) /\ Completed(d))'
               /\ ran[d] <= 1
    BY <1>2, <1>5, <1>7, <2>3
       DEF MailInv, HandedOnce, Stored, Claimed, Completed, Holding, Running
  <2>4. (Stored(c) /\ Claimed(c))'
    BY <1>4, <1>5 DEF Stored, Claimed
  <2>5. /\ Running(c)' => Running(c)
        /\ Holding(c)' => Holding(c) /\ agent' = agent
    BY <1>7 DEF Running, Holding
  <2> QED
    BY <1>2, <1>6, <2>1, <2>2, <2>3, <2>4, <2>5 DEF HandedOnce
<1>11. ReportedOnce'
  <2>1. Mutates(c) => \A r \in posts' : r.cmd # c
    BY <1>1, <1>2 DEF MailInv, ReportedOnce
  <2>2. \A r \in posts' : r.cmd \in Cmd
    BY <1>2, PostFacts
  <2> QED
    BY <1>2, <1>5, <1>6, <2>1, <2>2 DEF MailInv, ReportedOnce, Stored, Completed
<1>12. Real'
  <2>1. \A p \in Caller : Told(caller[p])'
    <3>1. \A d \in Cmd : ran[d] \in Nat
      BY MailFacts
    <3>2. \A d \in Cmd : commands'[d].key = commands[d].key /\ ran'[d] \in Nat /\ ran'[d] >= ran[d]
      BY <1>2, <1>6, <3>1
    <3> QED
      BY <1>2, <3>2, StillTold
  <2>2. q.ok => ran[c] > 0
    BY <1>1 DEF MailInv, Real
  <2> QED
    BY <1>2, <1>4, <1>5, <1>7, <2>1, <2>2 DEF MailInv, Real, Completed
<1>13. InTurn'
  <2>1. ~Waiting(c)' /\ \A d \in Cmd : d # c => (Waiting(d)' <=> Waiting(d))
    BY <1>4, <1>5 DEF Waiting, Stored, Claimed, Completed
  <2>2. \A d \in Cmd : Running(d)' => Running(d)
    BY <1>7 DEF Running
  <2> QED
    BY <1>2, <1>6, <2>1, <2>2 DEF MailInv, InTurn
<1> QED
  BY <1>8, <1>9, <1>10, <1>11, <1>12, <1>13 DEF MailInv

\* Documents of the same key, not claimed, not completed, and not back.
LEMMA FadeKeeps ==
  ASSUME MailInv, commands' \in [Cmd -> Doc], posts' \in SUBSET Post,
         UNCHANGED <<created, caller, agent, ran, faults>>,
         \A c \in Cmd :
           LET new == commands'[c]
           IN  /\ Ordered(new) /\ new.key = commands[c].key /\ (c > created => new = R!Absent)
               /\ new.stored => /\ Stored(c) /\ new.age >= commands[c].age
                                /\ (new.claimed = -1 <=> commands[c].claimed = -1)
               /\ new.completed # -1 => Completed(c) /\ new.ok = commands[c].ok
               /\ new.stored /\ new.completed = -1 => ~Completed(c),
         \A q \in posts' : Ordered(q.read) /\ \E r \in posts :
           q.cmd = r.cmd /\ q.ok = r.ok /\ q.read.key = r.read.key,
         \A q, r \in posts' : q.cmd = r.cmd => q = r \/ \E s, t \in posts :
           s # t /\ s.cmd = q.cmd /\ t.cmd = q.cmd
  PROVE  MailInv'
<1>0. \A c \in Cmd : commands'[c].key = commands[c].key /\ (Mutates(c)' <=> Mutates(c))
  BY DEF Mutates
<1>1. \A q \in posts : q.cmd \in Cmd
  BY PostFacts
<1>2. \A c \in Cmd : /\ Stored(c)' => Stored(c) /\ (Claimed(c)' <=> Claimed(c))
                     /\ Stored(c)' /\ Completed(c)' => Completed(c)
                     /\ Waiting(c)' => Waiting(c)
                     /\ Completed(c)' => Completed(c) /\ commands'[c].ok = commands[c].ok
  <2>1. \A c \in Cmd : commands[c].age \in Nat /\ commands'[c].age \in Nat
    BY MailFacts, MailNumbers DEF Doc, R!Document
  <2> QED
    BY <2>1, MailNumbers DEF Stored, Claimed, Completed, Waiting
<1>3. \A c \in Cmd : (Holding(c)' <=> Holding(c)) /\ (Running(c)' <=> Running(c))
  BY DEF Holding, Running
<1>4. MailTyped'
  BY MailFacts, StillTyped
<1>5. Numbered'
  BY <1>0, <1>1 DEF MailInv, Numbered
<1>6. HandedOnce'
  <2>1. \A c \in Cmd : (\A q \in posts : q.cmd # c) => \A q \in posts' : q.cmd # c
    OBVIOUS
  <2> QED
    BY <1>0, <1>2, <1>3, <2>1 DEF MailInv, HandedOnce
<1>7. ReportedOnce'
  <2>1. \A q \in posts' : \E r \in posts : q.cmd = r.cmd
    OBVIOUS
  <2>2. \A q \in posts' : q.cmd \in Cmd
    BY <1>1, <2>1
  <2>3. \A q \in posts' : Mutates(q.cmd) => ~(Stored(q.cmd) /\ Completed(q.cmd))
    BY <2>1 DEF MailInv, ReportedOnce
  <2>4. \A q, r \in posts' : Mutates(q.cmd) /\ q.cmd = r.cmd => q = r
    BY DEF MailInv, ReportedOnce
  <2>5. \A q \in posts' : (Stored(q.cmd) /\ Completed(q.cmd))' => Stored(q.cmd) /\ Completed(q.cmd)
    BY <1>2, <2>2
  <2> QED
    BY <1>0, <2>2, <2>3, <2>4, <2>5 DEF ReportedOnce
<1>8. Real'
  <2>1. \A p \in Caller : Told(caller[p])'
    <3>1. \A d \in Cmd : ran[d] \in Nat
      BY MailFacts
    <3>2. \A d \in Cmd : commands'[d].key = commands[d].key /\ ran'[d] \in Nat /\ ran'[d] >= ran[d]
      BY <1>0, <3>1
    <3> QED
      BY <3>2, StillTold
  <2>2. \A c \in Cmd : Completed(c)' /\ commands'[c].ok => ran[c] > 0
    BY <1>2 DEF MailInv, Real
  <2>3. \A q \in posts' : q.ok => ran[q.cmd] > 0
    BY DEF MailInv, Real
  <2> QED
    BY <2>1, <2>2, <2>3 DEF MailInv, Real
<1>9. InTurn'
  BY <1>0, <1>2, <1>3 DEF MailInv, InTurn
<1> QED
  BY <1>4, <1>5, <1>6, <1>7, <1>8, <1>9 DEF MailInv

LEMMA PruneKeeps ==
  ASSUME MailInv, Prunes
  PROVE  MailInv'
<1> DEFINE gone(c) == [R!Absent EXCEPT !.key = commands[c].key]
<1>1. commands' = [c \in Cmd |-> IF R!Outdated(c) THEN gone(c) ELSE commands[c]]
  BY DEF Prunes
<1>2. ASSUME NEW c \in Cmd
      PROVE  /\ gone(c) \in Doc /\ Ordered(gone(c)) /\ ~gone(c).stored
             /\ gone(c).key = commands[c].key /\ gone(c).claimed = -1 /\ gone(c).completed = -1
  <2>1. commands[c].key \in Key
    BY MailFacts DEF Doc, R!Document
  <2> QED
    BY <2>1, GoneDoc
<1> HIDE DEF gone
<1>3. ASSUME NEW c \in Cmd
      PROVE  \/ commands'[c] = gone(c) /\ commands[c].stored
             \/ commands'[c] = commands[c]
  BY <1>1 DEF R!Outdated
<1>4. \A c \in Cmd : c > created => ~commands[c].stored /\ commands[c] = R!Absent
  BY MailRecords DEF MailInv, Numbered
<1>5. \A c \in Cmd : commands[c] \in Doc /\ Ordered(commands[c]) /\ commands[c].age >= commands[c].age
  BY MailFacts, MailNumbers DEF Doc, R!Document
<1>6. commands' \in [Cmd -> Doc]
  BY <1>1, <1>2, <1>5
<1>7. UNCHANGED <<created, caller, agent, posts, ran, faults>>
  BY DEF Prunes
<1>8. \A c \in Cmd :
        LET new == commands'[c]
        IN  /\ Ordered(new) /\ new.key = commands[c].key /\ (c > created => new = R!Absent)
            /\ new.stored => /\ Stored(c) /\ new.age >= commands[c].age
                             /\ (new.claimed = -1 <=> commands[c].claimed = -1)
            /\ new.completed # -1 => Completed(c) /\ new.ok = commands[c].ok
            /\ new.stored /\ new.completed = -1 => ~Completed(c)
  BY <1>2, <1>3, <1>4, <1>5 DEF Stored, Completed
<1>9. /\ posts' \in SUBSET Post
      /\ \A q \in posts' : Ordered(q.read) /\ \E r \in posts :
           q.cmd = r.cmd /\ q.ok = r.ok /\ q.read.key = r.read.key
      /\ \A q, r \in posts' : q.cmd = r.cmd => q = r \/ \E s, t \in posts :
           s # t /\ s.cmd = q.cmd /\ t.cmd = q.cmd
  BY <1>7, MailFacts
<1> QED
  BY <1>6, <1>7, <1>8, <1>9, FadeKeeps

LEMMA TickKeeps ==
  ASSUME MailInv, Ticks
  PROVE  MailInv'
<1>1. commands' = [c \in Cmd |-> IF commands[c].stored THEN R!Aged(commands[c]) ELSE commands[c]]
  BY DEF Ticks
<1>2. \A c \in Cmd : commands[c] \in Doc /\ Ordered(commands[c]) /\ commands[c].age >= commands[c].age
  BY MailFacts, MailNumbers DEF Doc, R!Document
<1>3. ASSUME NEW c \in Cmd
      PROVE  LET old == commands[c]
                 new == R!Aged(old)
             IN  /\ new \in Doc /\ Ordered(new) /\ new.stored = old.stored /\ new.key = old.key
                 /\ new.ok = old.ok /\ new.age >= old.age
                 /\ (new.claimed = -1 <=> old.claimed = -1)
                 /\ (new.completed = -1 <=> old.completed = -1)
  BY <1>2, OldDoc
<1>4. ASSUME NEW c \in Cmd
      PROVE  \/ commands'[c] = R!Aged(commands[c]) /\ commands[c].stored
             \/ commands'[c] = commands[c]
  BY <1>1
<1>5. \A c \in Cmd : c > created => ~commands[c].stored /\ commands[c] = R!Absent
  BY MailRecords DEF MailInv, Numbered
<1>6. commands' \in [Cmd -> Doc]
  BY <1>1, <1>2, <1>3
<1>7. UNCHANGED <<created, caller, agent, ran, faults>>
  BY DEF Ticks
<1>8. \A c \in Cmd :
        LET new == commands'[c]
        IN  /\ Ordered(new) /\ new.key = commands[c].key /\ (c > created => new = R!Absent)
            /\ new.stored => /\ Stored(c) /\ new.age >= commands[c].age
                             /\ (new.claimed = -1 <=> commands[c].claimed = -1)
            /\ new.completed # -1 => Completed(c) /\ new.ok = commands[c].ok
            /\ new.stored /\ new.completed = -1 => ~Completed(c)
  BY <1>2, <1>3, <1>4, <1>5 DEF Stored, Completed
<1> DEFINE aged(q) == [q EXCEPT !.read = R!Aged(q.read)]
<1>9. ASSUME NEW q \in posts
      PROVE  /\ aged(q) \in Post /\ Ordered(aged(q).read) /\ aged(q).cmd = q.cmd
             /\ aged(q).ok = q.ok /\ aged(q).read.key = q.read.key
  <2>1. q \in Post /\ q.read \in Doc /\ Ordered(q.read)
    BY PostFacts, MailFacts
  <2>2. R!Aged(q.read) \in Doc /\ Ordered(R!Aged(q.read)) /\ R!Aged(q.read).key = q.read.key
    BY <2>1, OldDoc
  <2> QED
    BY <2>1, <2>2 DEF Post
<1>10. posts' = {aged(q) : q \in posts}
  BY DEF Ticks
<1> HIDE DEF aged
<1>11. /\ posts' \in SUBSET Post
       /\ \A q \in posts' : Ordered(q.read) /\ \E r \in posts :
            q.cmd = r.cmd /\ q.ok = r.ok /\ q.read.key = r.read.key
  BY <1>9, <1>10
<1>12. \A q, r \in posts' : q.cmd = r.cmd => q = r \/ \E s, t \in posts :
          s # t /\ s.cmd = q.cmd /\ t.cmd = q.cmd
  BY <1>9, <1>10
<1> QED
  BY <1>6, <1>7, <1>8, <1>11, <1>12, FadeKeeps

LEMMA OthersKeep ==
  ASSUME MailInv, Others
  PROVE  MailInv'
<1>1. faults < MaxFaults => faults + 1 \in 0..MaxFaults
  BY MailFacts, MailNumbers
<1> QED
  BY <1>1, Effects, ClaimKeeps, ReceiveKeeps, RunKeeps, ReportKeeps, AcceptKeeps, RefuseKeeps,
     PruneKeeps, TickKeeps, LoseKeeps

LEMMA MailKept ==
  ASSUME MailInv, R!Next \/ (Q!Next /\ OneOpen) \/ UNCHANGED relayVars
  PROVE  MailInv'
<1>1. CASE R!Next
  BY <1>1, RelayMoves, InsertKeeps, AskKeeps, OthersKeep
<1>2. CASE Q!Next /\ OneOpen
  <2>1. Asks({"idle", "wait"}) => Asks({"idle", "wait", "seal"})
    BY DEF Asks
  <2> QED
    BY <1>2, <2>1, MailboxMoves, InsertKeeps, AskKeeps, OthersKeep
<1>3. CASE UNCHANGED relayVars
  <2>1. UNCHANGED <<commands, created, caller, agent, posts, ran, faults>>
    BY <1>3 DEF relayVars
  <2>2. MailTyped'
    BY <2>1, MailFacts, StillTyped
  <2> QED
    BY <2>1, <2>2
       DEF MailInv, Numbered, HandedOnce, ReportedOnce, Real, InTurn, Told, Mutates, Stored,
           Claimed, Completed, Holding, Running, Waiting
<1> QED
  BY <1>1, <1>2, <1>3

LEMMA MailBegins ==
  ASSUME R!Init
  PROVE  MailInv /\ OneOpen
<1>1. /\ commands = [c \in Cmd |-> R!Absent] /\ created = 0
      /\ caller = [p \in Caller |-> R!IdleCaller] /\ agent = R!IdleAgent /\ posts = {}
      /\ ran = [c \in Cmd |-> 0] /\ faults = 0
  BY DEF R!Init, R!Cmd, Cmd
<1>2. /\ R!IdleAgent.at = "idle" /\ R!IdleCaller.at = "idle" /\ R!IdleCaller.answer = "none"
      /\ R!IdleAgent \in Agent /\ R!IdleCaller \in Call
  BY MailRecords DEF R!IdleAgent, R!IdleCaller
<1>3. /\ R!Absent \in Doc /\ Ordered(R!Absent) /\ ~R!Absent.stored /\ R!Absent.completed = -1
  BY MailRecords
<1>4. MailTyped
  BY <1>1, <1>2, <1>3, MailTypes, MailNumbers DEF MailTyped
<1>5. \A c \in Cmd : commands[c] = R!Absent /\ ran[c] = 0 /\ ~Stored(c) /\ ~Completed(c)
  BY <1>1, <1>3 DEF Stored, Completed
<1>6. Numbered /\ Real
  BY <1>1, <1>2, <1>5 DEF Numbered, Real, Told
<1>7. HandedOnce /\ ReportedOnce /\ InTurn /\ OneOpen
  BY <1>1, <1>2, <1>5 DEF HandedOnce, ReportedOnce, InTurn, OneOpen, Holding, Running, Waiting, Open
<1> QED
  BY <1>4, <1>6, <1>7 DEF MailInv

LEMMA OpenShrinks ==
  ASSUME OneOpen, caller' = caller,
         \A c \in Cmd : commands'[c].key = commands[c].key /\ (Open(c)' => Open(c))
  PROVE  OneOpen'
BY DEF OneOpen, Mutates

\* What a step of the others does to a document.
LEMMA OthersFade ==
  ASSUME MailInv, Others, NEW c \in Cmd
  PROVE  /\ caller' = caller /\ created' = created
         /\ commands'[c].key = commands[c].key /\ (Open(c)' => Open(c))
<1>1. commands[c] \in Doc /\ Ordered(commands[c]) /\ commands[c].age \in Nat
  BY MailFacts, MailNumbers DEF Doc, R!Document
<1>2. CASE UNCHANGED <<commands, created, caller>>
  BY <1>2 DEF Open, Stored, Completed, Claimed
<1>3. ASSUME NEW d \in Cmd, Claims(d)
      PROVE  /\ caller' = caller /\ created' = created
             /\ commands'[c].key = commands[c].key /\ (Open(c)' => Open(c))
  <2>1. CASE c = d
    <3> DEFINE new == [commands[c] EXCEPT !.claimed = 0]
    <3>1. commands[c].completed = -1 /\ commands[c].stored /\ ~(commands[c].age >= EXPIRY)
      BY <1>3, <2>1 DEF Claims, R!Claimable, R!Completed, R!Expired, R!Never
    <3>2. new.key = commands[c].key
      BY <1>1, <3>1, ClaimedDoc
    <3>3. commands'[c] = new
      BY <1>3, <2>1, MailFacts DEF Claims
    <3> HIDE DEF new
    <3>4. Open(c)
      BY <1>1, <3>1, MailNumbers DEF Open, Stored, Completed
    <3> QED
      BY <1>3, <3>2, <3>3, <3>4 DEF Claims
  <2>2. CASE c # d
    <3>1. commands'[c] = commands[c]
      BY <1>3, <2>2, MailFacts DEF Claims
    <3> QED
      BY <1>3, <3>1 DEF Claims, Open, Stored, Completed, Claimed
  <2> QED
    BY <2>1, <2>2
<1>4. ASSUME NEW q \in posts, Accepts(q)
      PROVE  /\ caller' = caller /\ created' = created
             /\ commands'[c].key = commands[c].key /\ (Open(c)' => Open(c))
  <2>1. CASE c = q.cmd
    <3> DEFINE new == [q.read EXCEPT !.completed = 0, !.ok = q.ok]
    <3>1. /\ q.read \in Doc /\ Ordered(q.read) /\ q.ok \in BOOLEAN /\ q.read.claimed # -1
          /\ q.read.key = commands[c].key
      BY <1>4, <2>1, PostFacts DEF Accepts
    <3>2. new.key = commands[c].key /\ new.completed = 0
      BY <3>1, DoneDoc
    <3>3. commands'[c] = new
      BY <1>4, <2>1, MailFacts DEF Accepts
    <3> HIDE DEF new
    <3>4. caller' = caller /\ created' = created
      BY <1>4 DEF Accepts
    <3>5. ~Open(c)'
      BY <3>2, <3>3 DEF Open, Completed
    <3>6. commands'[c].key = commands[c].key
      BY <3>2, <3>3
    <3> QED
      BY <3>4, <3>5, <3>6
  <2>2. CASE c # q.cmd
    <3>1. commands'[c] = commands[c]
      BY <1>4, <2>2, MailFacts DEF Accepts
    <3> QED
      BY <1>4, <3>1 DEF Accepts, Open, Stored, Completed, Claimed
  <2> QED
    BY <2>1, <2>2
<1>5. CASE Prunes
  <2> DEFINE new == [R!Absent EXCEPT !.key = commands[c].key]
  <2>1. new.key = commands[c].key /\ ~new.stored
    <3>1. commands[c].key \in Key
      BY MailFacts DEF Doc, R!Document
    <3> QED
      BY <3>1, GoneDoc
  <2>2. commands'[c] = new \/ commands'[c] = commands[c]
    BY <1>5 DEF Prunes
  <2> HIDE DEF new
  <2> QED
    BY <1>5, <2>1, <2>2 DEF Prunes, Open, Stored, Completed, Claimed
<1>6. CASE Ticks
  <2> DEFINE new == R!Aged(commands[c])
  <2>1. /\ new \in Doc /\ new.stored = commands[c].stored /\ new.key = commands[c].key
        /\ new.age >= commands[c].age /\ (new.claimed = -1 <=> commands[c].claimed = -1)
        /\ (new.completed = -1 <=> commands[c].completed = -1)
    BY <1>1, OldDoc
  <2>2. new.age \in Nat
    BY <2>1, MailNumbers DEF Doc, R!Document
  <2>3. commands'[c] = new \/ commands'[c] = commands[c]
    BY <1>6 DEF Ticks
  <2> HIDE DEF new
  <2> QED
    BY <1>1, <1>6, <2>1, <2>2, <2>3, MailNumbers DEF Ticks, Open, Stored, Completed, Claimed
<1> QED
  BY <1>2, <1>3, <1>4, <1>5, <1>6, Effects DEF Receives, Runs, Reports, Refuses

LEMMA OneOpenKept ==
  ASSUME MailInv, OneOpen, Q!Next \/ UNCHANGED relayVars
  PROVE  OneOpen'
<1>1. ASSUME NEW p \in Caller, NEW k \in Key, Inserts(p, k), Alone(k) PROVE OneOpen'
  <2>1. PICK n \in Cmd : n = created + 1
    BY <1>1, MailFacts, MailNumbers DEF Inserts, R!Insert, Cmd
  <2> DEFINE new == R!NewCommand(k)
  <2>2. commands' = [commands EXCEPT ![n] = new] /\ \A o \in Caller : caller'[o].at # "seal"
    BY <1>1, <2>1, MailFacts DEF Inserts, R!Insert, OneOpen
  <2>3. new.key = k /\ new.stored /\ new.claimed = -1 /\ new.completed = -1
    BY NewDoc
  <2> HIDE DEF new
  <2>4. commands'[n] = new /\ \A c \in Cmd : c # n => commands'[c] = commands[c]
    BY <2>2, MailFacts
  <2>5. \A c \in Cmd : Open(c) /\ commands[c].key = k => k \notin Mutation
    <3>1. \A c \in Cmd : commands[c].age \in Nat
      BY MailFacts, MailNumbers DEF Doc, R!Document
    <3> QED
      BY <1>1, <3>1, MailNumbers DEF Alone, Open, Stored, Completed, Claimed, R!Reusable,
         R!Completed, R!Claimed, R!Expired, R!Never
  <2>6. \A c \in Cmd : c # n => (Open(c)' <=> Open(c))
    BY <2>4 DEF Open, Stored, Completed, Claimed
  <2> QED
    BY <2>2, <2>3, <2>4, <2>5, <2>6 DEF OneOpen, Mutates
<1>2. CASE Asks({"idle", "wait"})
  <2>1. PICK p \in Caller, w \in Call : caller' = [caller EXCEPT ![p] = w] /\ w.at # "seal"
    BY <1>2 DEF Asks
  <2>2. \A o \in Caller : caller'[o].at # "seal"
    BY <2>1, MailFacts DEF OneOpen
  <2> QED
    BY <1>2, <2>2 DEF Asks, OneOpen, Open, Stored, Completed, Claimed, Mutates
<1>3. CASE Others
  <2>1. caller' = caller
    BY <1>3, Effects, MailNumbers DEF Claims, Receives, Runs, Reports, Accepts, Refuses, Prunes, Ticks
  <2> QED
    BY <1>3, <2>1, OthersFade, OpenShrinks
<1>4. CASE UNCHANGED relayVars
  BY <1>4 DEF relayVars, OneOpen, Open, Stored, Completed, Claimed, Mutates
<1> QED
  BY <1>1, <1>2, <1>3, <1>4, MailboxMoves

-----------------------------------------------------------------------------
(* What the invariant says of the properties of the relay.                 *)

LEMMA MailPromises ==
  ASSUME MailInv
  PROVE  R!TypeOK /\ R!MutationRunsOnce /\ (OneOpen => Q!UnknownHolds)
<1>1. R!MutationRunsOnce
  BY DEF MailInv, HandedOnce, R!MutationRunsOnce, R!Cmd, Cmd, R!IsMutation, Mutates
<1>2. ASSUME OneOpen PROVE Q!UnknownNotRepeated
  BY <1>2 DEF OneOpen, Open, Stored, Claimed, Completed, Mutates, Q!UnknownNotRepeated, Q!Cmd, Cmd,
     Q!Claimed, Q!Completed, Q!IsMutation, Q!Never
<1>3. Q!SuccessIsReal
  BY DEF MailInv, Real, Told, Q!SuccessIsReal
<1> QED
  BY <1>1, <1>2, <1>3 DEF MailInv, MailTyped, Q!UnknownHolds

OrderHeld == \A c, d \in R!Cmd :
  ran'[c] > ran[c] /\ c < d /\ R!IsMutation(c) /\ R!IsMutation(d) => ran[d] = 0
OutcomeHeld == \A c \in R!Cmd : commands[c].stored /\ R!IsMutation(c) /\ R!Completed(c) =>
  \/ ~commands'[c].stored
  \/ R!Completed(c)' /\ commands'[c].ok = commands[c].ok

LEMMA OrderIsHeld ==
  ASSUME MailInv, \/ Others
                  \/ \E p \in Caller, k \in Key : Inserts(p, k)
                  \/ Asks({"idle", "wait", "seal"})
                  \/ Asks({"idle", "wait"}) \/ UNCHANGED relayVars
  PROVE  OrderHeld
<1>1. \A c \in Cmd : ran[c] \in Nat
  BY MailFacts
<1>2. CASE ran' = ran
  BY <1>1, <1>2 DEF OrderHeld, R!Cmd, Cmd
<1>3. ASSUME NEW c \in Cmd, NEW n \in {0, 1}, NEW ok \in BOOLEAN, Runs(c, n, ok)
      PROVE  OrderHeld
  <2>1. Running(c) /\ \A d \in Cmd : d # c => ran'[d] = ran[d]
    BY <1>3, MailFacts DEF Runs, Running
  <2>2. \A d \in Cmd : ran'[d] > ran[d] => d = c
    BY <1>1, <2>1
  <2> QED
    BY <2>1, <2>2 DEF OrderHeld, R!Cmd, Cmd, MailInv, InTurn, R!IsMutation, Mutates
<1>4. Others => ran' = ran \/ \E c \in Cmd, n \in {0, 1}, ok \in BOOLEAN : Runs(c, n, ok)
  BY Effects DEF Claims, Receives, Reports, Accepts, Refuses, Prunes, Ticks
<1>5. (\E p \in Caller, k \in Key : Inserts(p, k)) \/ Asks({"idle", "wait", "seal"})
        \/ Asks({"idle", "wait"}) \/ UNCHANGED relayVars
      => ran' = ran
  BY DEF Inserts, Asks, relayVars
<1> QED
  BY <1>2, <1>3, <1>4, <1>5

LEMMA OutcomeIsHeld ==
  ASSUME MailInv, \/ Others
                  \/ \E p \in Caller, k \in Key : Inserts(p, k)
                  \/ Asks({"idle", "wait", "seal"})
                  \/ Asks({"idle", "wait"}) \/ UNCHANGED relayVars
  PROVE  OutcomeHeld
<1> SUFFICES ASSUME NEW c \in Cmd, Mutates(c), Stored(c), Completed(c)
             PROVE  ~commands'[c].stored
                    \/ (commands'[c].completed # -1 /\ commands'[c].ok = commands[c].ok)
  BY DEF OutcomeHeld, R!Cmd, Cmd, R!IsMutation, Mutates, Stored, R!Completed, Completed, R!Never
<1>1. CASE commands' = commands
  BY <1>1 DEF Completed
<1>2. ASSUME NEW d \in Cmd, Claims(d) PROVE commands'[c] = commands[c]
  <2>1. d # c
    BY <1>2 DEF Claims, R!Claimable, R!Completed, R!Never, Completed
  <2> QED
    BY <1>2, <2>1, MailFacts DEF Claims
<1>3. ASSUME NEW q \in posts, Accepts(q) PROVE commands'[c] = commands[c]
  <2>1. q.cmd # c
    BY DEF MailInv, ReportedOnce
  <2> QED
    BY <1>3, <2>1, MailFacts DEF Accepts
<1>4. CASE Prunes
  <2> DEFINE new == [R!Absent EXCEPT !.key = commands[c].key]
  <2>1. ~new.stored
    <3>1. commands[c].key \in Key
      BY MailFacts DEF Doc, R!Document
    <3> QED
      BY <3>1, GoneDoc
  <2>2. commands'[c] = new \/ commands'[c] = commands[c]
    BY <1>4 DEF Prunes
  <2> HIDE DEF new
  <2>3. commands'[c] = new => ~commands'[c].stored
    BY <2>1
  <2> QED
    BY <2>2, <2>3 DEF Completed
<1>5. CASE Ticks
  <2>1. commands'[c] = R!Aged(commands[c])
    BY <1>5 DEF Ticks, Stored
  <2>2. commands[c] \in Doc /\ Ordered(commands[c])
    BY MailFacts
  <2>3. /\ R!Aged(commands[c]).ok = commands[c].ok
        /\ R!Aged(commands[c]).completed = -1 <=> commands[c].completed = -1
    BY <2>2, OldDoc
  <2> QED
    BY <2>1, <2>3 DEF Completed
<1>6. ASSUME NEW p \in Caller, NEW k \in Key, Inserts(p, k) PROVE commands'[c] = commands[c]
  <2>1. c # created + 1
    <3>1. ~R!Absent.stored
      BY MailRecords
    <3> QED
      BY <3>1, MailFacts, MailNumbers DEF MailInv, Numbered, Stored, Cmd
  <2> QED
    BY <1>6, <2>1, MailFacts DEF Inserts, R!Insert
<1>7. Others => \/ commands' = commands \/ Prunes \/ Ticks
                \/ (\E d \in Cmd : Claims(d)) \/ \E q \in posts : Accepts(q)
  BY Effects DEF Receives, Runs, Reports, Refuses
<1>8. Asks({"idle", "wait", "seal"}) \/ Asks({"idle", "wait"}) \/ UNCHANGED relayVars
      => commands' = commands
  BY DEF Asks, relayVars
<1>9. commands'[c] = commands[c] => commands'[c].completed # -1 /\ commands'[c].ok = commands[c].ok
  BY DEF Completed
<1> QED
  BY <1>1, <1>2, <1>3, <1>4, <1>5, <1>6, <1>7, <1>8, <1>9

LEMMA RelayHolds ==
  ASSUME MailInv, R!Next \/ (Q!Next /\ OneOpen) \/ UNCHANGED relayVars
  PROVE  OrderHeld /\ OutcomeHeld
BY RelayMoves, MailboxMoves, OrderIsHeld, OutcomeIsHeld

-----------------------------------------------------------------------------
(***************************************************************************)
(* The tokens for source code.                                             *)
(***************************************************************************)

InLock == {"refresh", "save", "unlock"}
Place  == {"none", "lock", "use", "minted", "accessible", "released"} \cup InLock
Work   == [pc : Place, row : Nat, token : Nat]

TokensTyped ==
  /\ work \in [Asker -> Work] /\ S!TypeOK
  /\ issued \in Nat /\ mishaps \in Nat /\ member \in BOOLEAN /\ grant \in BOOLEAN

\* A request that refreshes a token has the lock, unless it ran out, and knows which
\* one it refreshes; its successor is another one.
Refreshing == \A r \in Asker :
  /\ mishaps = 0 /\ work[r].pc \in InLock => lock = r
  /\ work[r].pc \in InLock \cup {"lock"} => work[r].row # 0
  /\ work[r].pc = "save" => work[r].token # 0

\* While nothing is lost: the token stored is good, and was not spent, unless its
\* successor is about to be stored, which is good and was not spent.
Saver(r) == work[r].pc = "save" /\ github_token = work[r].row
Kept ==
  /\ github_token # 0 => github_token \in good \/ \E r \in Asker : Saver(r)
  /\ github_token \in spent => \E r \in Asker : Saver(r)
  /\ \A r \in Asker : /\ work[r].pc = "refresh" => work[r].row \notin spent
                      /\ Saver(r) => work[r].token \in good \ spent

TokenInv == TokensTyped /\ Refreshing /\ (mishaps = 0 => Kept) /\ S!GrantsOfMembers

LEMMA TokenFacts ==
  ASSUME TokenInv
  PROVE  /\ work \in [Asker -> Work] /\ issued \in Nat /\ mishaps \in Nat
         /\ github_token \in 0..issued /\ lock \in Asker \cup {S!Free} /\ S!Free \notin Asker
         /\ good \cup spent \cup expired \subseteq 1..issued
         /\ \A r \in Asker : work[r] \in Work /\ work[r].row <= issued /\ work[r].token <= issued
BY WorkAssumption DEF TokenInv, TokensTyped, S!TypeOK, Work

LEMMA TokensStillTyped ==
  ASSUME work' \in [Asker -> Work], issued' \in Nat, mishaps' \in Nat,
         member' \in BOOLEAN, grant' \in BOOLEAN,
         github_token' \in 0..issued', lock' \in Asker \cup {S!Free},
         good' \cup spent' \cup expired' \subseteq 1..issued',
         \A r \in Asker : work'[r].row <= issued' /\ work'[r].token <= issued'
  PROVE  TokensTyped'
BY DEF TokensTyped, S!TypeOK, Work, S!Free

\* One request goes on.
LEMMA OneGoesOn ==
  ASSUME TokenInv, NEW r \in Asker, NEW w \in Work, work' = [work EXCEPT ![r] = w]
  PROVE  /\ work' \in [Asker -> Work] /\ work'[r] = w
         /\ \A o \in Asker : o # r => work'[o] = work[o]
BY TokenFacts

LEMMA Going ==
  ASSUME TokenInv, NEW r \in Asker, NEW pc \in Place, S!To(r, pc)
  PROVE  \E w \in Work : /\ w.pc = pc /\ w.row = work[r].row /\ w.token = work[r].token
                         /\ work' = [work EXCEPT ![r] = w]
<1> DEFINE w == [work[r] EXCEPT !.pc = pc]
<1>1. w \in Work /\ w.pc = pc /\ w.row = work[r].row /\ w.token = work[r].token
  BY TokenFacts DEF Work
<1>2. work' = [work EXCEPT ![r] = w]
  BY DEF S!To
<1> QED
  BY <1>1, <1>2

\* What the steps of a request do.
Outside(r, w) ==   \* neither before nor after it refreshes, or it stops
  /\ work' = [work EXCEPT ![r] = w] /\ w.pc \notin InLock /\ (w.pc = "lock" => w.row # 0)
  /\ w.row <= issued /\ w.token <= issued
  /\ \/ work[r].pc \notin InLock /\ mishaps' = mishaps
     \/ mishaps' = mishaps + 1
  /\ w.pc = "released" /\ work[r].pc # "released" => grant /\ member
  /\ \/ grant' = grant
     \/ grant' = TRUE /\ member /\ github_token # 0
  /\ UNCHANGED <<github_token, expired, good, spent, issued, member, lock>>
Locks(r, w) ==
  /\ work' = [work EXCEPT ![r] = w] /\ w.pc = "refresh" /\ w.row = work[r].row
  /\ w.token = work[r].token /\ work[r].pc = "lock"
  /\ github_token = work[r].row /\ lock = S!Free /\ lock' = r
  /\ UNCHANGED <<github_token, expired, good, spent, issued, member, grant, mishaps>>
Refreshes(r, w) ==
  /\ work' = [work EXCEPT ![r] = w] /\ work[r].pc = "refresh" /\ w.row = work[r].row
  /\ spent' = spent \cup {work[r].row}
  /\ \/ /\ work[r].row \in good /\ w.pc = "save" /\ w.token = issued + 1
        /\ issued' = issued + 1 /\ good' = (good \ {work[r].row}) \cup {issued + 1}
        /\ mishaps' = mishaps
     \/ /\ w.pc = "unlock" /\ w.token = 0 /\ issued' = issued
        /\ \/ work[r].row \notin good /\ good' = good /\ mishaps' = mishaps
           \/ good' \subseteq good /\ mishaps' = mishaps + 1
  /\ UNCHANGED <<github_token, member, grant, expired, lock>>
Saves(r, w) ==
  /\ work' = [work EXCEPT ![r] = w] /\ work[r].pc = "save" /\ w.pc = "unlock"
  /\ w.row = work[r].row /\ w.token \in {0, work[r].token}
  /\ github_token' = IF github_token = work[r].row THEN work[r].token ELSE github_token
  /\ UNCHANGED <<expired, good, spent, issued, member, grant, lock, mishaps>>
Unlocks(r, w) ==
  /\ work' = [work EXCEPT ![r] = w] /\ work[r].pc = "unlock" /\ w.pc \in {"none", "use"}
  /\ w.row <= issued /\ w.token <= issued /\ lock' = S!Free
  /\ UNCHANGED <<github_token, expired, good, spent, issued, member, grant, mishaps>>

LEMMA NoWorkFacts ==
  S!NoWork \in Work /\ S!NoWork.pc = "none" /\ S!NoWork.row = 0 /\ S!NoWork.token = 0
BY DEF S!NoWork, Work, Place

LEMMA RequestEffects ==
  ASSUME TokenInv, NEW r \in Asker,
         \/ S!ReadToken(r) \/ S!Lock(r) \/ S!Refresh(r) \/ S!RefreshLost(r) \/ S!Save(r)
         \/ S!Unlock(r) \/ S!Stop(r) \/ S!Mint(r) \/ S!Release(r) \/ S!Accessible(r)
         \/ S!SaveInstallation(r) \/ S!Done(r)
  PROVE  \E w \in Work : Outside(r, w) \/ Locks(r, w) \/ Refreshes(r, w) \/ Saves(r, w)
                         \/ Unlocks(r, w)
<1> USE DEF S!At, S!Hold, S!directory, S!provider
<1>1. work[r] \in Work /\ work[r].row \in 0..issued /\ work[r].token \in 0..issued
      /\ issued \in Nat /\ github_token \in 0..issued /\ grant \in BOOLEAN
  BY TokenFacts DEF Work, TokenInv, TokensTyped
<1>2. \A pc \in Place : S!To(r, pc) =>
        \E w \in Work : /\ w.pc = pc /\ w.row = work[r].row /\ w.token = work[r].token
                        /\ work' = [work EXCEPT ![r] = w]
  BY Going
<1>3. ASSUME S!ReadToken(r) PROVE \E w \in Work : Outside(r, w)
  <2> DEFINE pc == IF github_token \in expired THEN "lock" ELSE "use"
             w  == [pc |-> pc, row |-> github_token, token |-> github_token]
  <2>1. pc \in {"lock", "use"} /\ pc \in Place
    BY DEF Place
  <2>2. work' = [work EXCEPT ![r] = w]
    BY <1>3 DEF S!ReadToken
  <2> HIDE DEF pc
  <2>3. w \in Work /\ w.pc = pc /\ w.row = github_token /\ w.token = github_token
    BY <1>1, <2>1 DEF Work
  <2> HIDE DEF w
  <2>4. /\ work[r].pc = "none" /\ github_token # 0
        /\ UNCHANGED <<github_token, expired, good, spent, issued, member, grant, lock, mishaps>>
    BY <1>3 DEF S!ReadToken
  <2>5. Outside(r, w)
    BY <1>1, <2>1, <2>2, <2>3, <2>4 DEF Outside, InLock
  <2> QED
    BY <2>3, <2>5
<1>4. ASSUME S!Lock(r) PROVE \E w \in Work : Outside(r, w) \/ Locks(r, w)
  <2>1. CASE S!Lockable(r)
    BY <1>2, <1>4, <2>1 DEF S!Lock, S!Lockable, Locks, Place, InLock
  <2>2. CASE ~S!Lockable(r)
    BY <1>1, <1>4, <2>2, NoWorkFacts DEF S!Lock, Outside, InLock
  <2> QED
    BY <2>1, <2>2
<1>5. ASSUME S!Refresh(r) \/ S!RefreshLost(r) PROVE \E w \in Work : Refreshes(r, w)
  <2>1. ASSUME NEW pc \in Place, NEW t \in 0..(issued + 1)
        PROVE  LET w == [pc |-> pc, row |-> work[r].row, token |-> t]
               IN  w \in Work /\ w.pc = pc /\ w.row = work[r].row /\ w.token = t
    BY <1>1 DEF Work
  <2>2. "save" \in Place /\ "unlock" \in Place /\ 0 \in 0..(issued + 1)
        /\ issued + 1 \in 0..(issued + 1)
    BY <1>1 DEF Place, InLock
  <2>3. CASE S!Refresh(r) /\ work[r].row \in good
    <3> DEFINE w == [pc |-> "save", row |-> work[r].row, token |-> issued + 1]
    <3>1. w \in Work /\ w.pc = "save" /\ w.row = work[r].row /\ w.token = issued + 1
      BY <2>1, <2>2
    <3> QED
      BY <2>3, <3>1 DEF S!Refresh, S!Issue, S!New, Refreshes
  <2>4. CASE S!RefreshLost(r) \/ (S!Refresh(r) /\ work[r].row \notin good)
    <3> DEFINE w == [pc |-> "unlock", row |-> work[r].row, token |-> 0]
    <3>1. w \in Work /\ w.pc = "unlock" /\ w.row = work[r].row /\ w.token = 0
      BY <2>1, <2>2
    <3> QED
      BY <2>4, <3>1 DEF S!Refresh, S!RefreshLost, S!Mishap, Refreshes
  <2> QED
    BY <1>5, <2>3, <2>4
<1>6. ASSUME S!Save(r) PROVE \E w \in Work : Saves(r, w)
  <2> DEFINE t == IF github_token = work[r].row THEN work[r].token ELSE 0
             w == [work[r] EXCEPT !.pc = "unlock", !.token = t]
  <2>1. work' = [work EXCEPT ![r] = w]
    BY <1>6 DEF S!Save, S!Replaces
  <2>2. t \in Nat /\ t \in {0, work[r].token}
    BY <1>1
  <2> HIDE DEF t
  <2>3. w \in Work /\ w.pc = "unlock" /\ w.row = work[r].row /\ w.token = t
    BY <1>1, <2>2 DEF Work, Place, InLock
  <2>4. Saves(r, w)
    BY <1>6, <2>1, <2>2, <2>3 DEF S!Save, S!Replaces, Saves
  <2> QED
    BY <2>3, <2>4
<1>7. ASSUME S!Unlock(r) PROVE \E w \in Work : Unlocks(r, w)
  <2>1. CASE work[r].token = 0
    BY <1>1, <1>7, <2>1, NoWorkFacts DEF S!Unlock, Unlocks
  <2>2. CASE work[r].token # 0
    BY <1>1, <1>2, <1>7, <2>2 DEF S!Unlock, Unlocks, Place
  <2> QED
    BY <2>1, <2>2
<1>8. ASSUME S!Stop(r) PROVE \E w \in Work : Outside(r, w)
  <2>1. Outside(r, S!NoWork)
    BY <1>1, <1>8, NoWorkFacts DEF S!Stop, S!Mishap, Outside, InLock
  <2> QED
    BY <2>1, NoWorkFacts
<1>9. ASSUME S!Mint(r) \/ S!Accessible(r) PROVE \E w \in Work : Outside(r, w)
  BY <1>1, <1>2, <1>9 DEF S!Mint, S!Accessible, Outside, Place, InLock
<1>10. ASSUME S!Release(r) PROVE \E w \in Work : Outside(r, w)
  <2>1. CASE S!StillGranted
    BY <1>1, <1>2, <1>10, <2>1 DEF S!Release, S!StillGranted, Outside, Place, InLock
  <2>2. CASE ~S!StillGranted
    BY <1>1, <1>10, <2>2, NoWorkFacts DEF S!Release, Outside, InLock
  <2> QED
    BY <2>1, <2>2
<1>11. ASSUME S!SaveInstallation(r) PROVE \E w \in Work : Outside(r, w)
  <2>1. \/ grant' = grant
        \/ grant' = TRUE /\ member /\ github_token # 0
    <3>1. S!MayGrant \in BOOLEAN /\ grant' = (grant \/ S!MayGrant)
      BY <1>11 DEF S!SaveInstallation, S!MayGrant
    <3>2. S!MayGrant => member /\ github_token # 0
      BY DEF S!MayGrant
    <3> HIDE DEF S!MayGrant
    <3> QED
      BY <1>1, <3>1, <3>2
  <2>2. Outside(r, S!NoWork)
    BY <1>1, <1>11, <2>1, NoWorkFacts DEF S!SaveInstallation, Outside, InLock
  <2> QED
    BY <2>2, NoWorkFacts
<1>12. ASSUME S!Done(r) PROVE \E w \in Work : Outside(r, w)
  <2>1. Outside(r, S!NoWork)
    BY <1>1, <1>12, NoWorkFacts DEF S!Done, Outside, InLock
  <2> QED
    BY <2>1, NoWorkFacts
<1> QED
  BY <1>3, <1>4, <1>5, <1>6, <1>7, <1>8, <1>9, <1>10, <1>11, <1>12

\* Every step keeps the invariant.
LEMMA OutsideKeeps ==
  ASSUME TokenInv, NEW r \in Asker, NEW w \in Work, Outside(r, w)
  PROVE  TokenInv'
<1>1. /\ work' \in [Asker -> Work] /\ work'[r] = w
      /\ \A o \in Asker : o # r => work'[o] = work[o]
  BY OneGoesOn DEF Outside
<1>2. /\ w.pc \notin InLock /\ (w.pc = "lock" => w.row # 0)
      /\ w.row <= issued /\ w.token <= issued
      /\ UNCHANGED <<github_token, expired, good, spent, issued, member, lock>>
  BY DEF Outside
<1>3. TokensTyped'
  <2>1. grant' \in BOOLEAN /\ member \in BOOLEAN
    BY Zenon DEF Outside, TokenInv, TokensTyped
  <2>2. mishaps' \in Nat
    BY TokenFacts DEF Outside
  <2> QED
    BY <1>1, <1>2, <2>1, <2>2, TokenFacts, TokensStillTyped
<1>5. mishaps' = 0 => mishaps = 0 /\ work[r].pc \notin InLock
  BY TokenFacts DEF Outside
<1>4. Refreshing'
  BY <1>1, <1>2, <1>5 DEF TokenInv, Refreshing, InLock
<1>6. mishaps' = 0 => Kept'
  <2>1. work[r].pc \notin InLock => \A o \in Asker : Saver(o)' <=> Saver(o)
    BY <1>1, <1>2 DEF Saver, InLock
  <2>2. \A o \in Asker : work'[o].pc \in InLock => work'[o] = work[o]
    BY <1>1, <1>2
  <2> QED
    BY <1>2, <1>5, <2>1, <2>2 DEF TokenInv, Kept, InLock, Saver
<1>7. S!GrantsOfMembers'
  <2>1. github_token' = github_token /\ member' = member
    BY DEF Outside
  <2>2. grant' = grant \/ (grant' = TRUE /\ member /\ github_token # 0)
    BY DEF Outside
  <2> QED
    BY <2>1, <2>2, Zenon DEF TokenInv, S!GrantsOfMembers
<1> QED
  BY <1>3, <1>4, <1>6, <1>7 DEF TokenInv

LEMMA LocksKeeps ==
  ASSUME TokenInv, NEW r \in Asker, NEW w \in Work, Locks(r, w)
  PROVE  TokenInv'
<1>1. /\ work' \in [Asker -> Work] /\ work'[r] = w
      /\ \A o \in Asker : o # r => work'[o] = work[o]
  BY OneGoesOn DEF Locks
<1>2. /\ w.pc = "refresh" /\ w.row = work[r].row /\ w.token = work[r].token
      /\ work[r].pc = "lock" /\ github_token = work[r].row
      /\ UNCHANGED <<github_token, expired, good, spent, issued, member, grant, mishaps>>
  BY DEF Locks
<1>3. lock' = r /\ (mishaps = 0 => \A o \in Asker : work[o].pc \notin InLock)
  BY TokenFacts DEF Locks, TokenInv, Refreshing
<1>4. TokensTyped'
  BY <1>1, <1>2, <1>3, TokenFacts, TokensStillTyped DEF TokenInv, TokensTyped
<1>5. Refreshing'
  BY <1>1, <1>2, <1>3 DEF TokenInv, Refreshing, InLock
<1>6. ASSUME mishaps' = 0 PROVE Kept'
  <2>1. \A o \in Asker : ~Saver(o) /\ ~Saver(o)'
    BY <1>1, <1>2, <1>3, <1>6 DEF Saver, InLock
  <2>2. \A o \in Asker : work'[o].pc = "refresh" => o = r
    BY <1>1, <1>2, <1>3, <1>6 DEF InLock
  <2> QED
    BY <1>1, <1>2, <1>6, <2>1, <2>2 DEF TokenInv, Kept
<1>7. S!GrantsOfMembers'
  BY <1>2 DEF TokenInv, S!GrantsOfMembers
<1> QED
  BY <1>4, <1>5, <1>6, <1>7 DEF TokenInv

LEMMA RefreshesKeeps ==
  ASSUME TokenInv, NEW r \in Asker, NEW w \in Work, Refreshes(r, w)
  PROVE  TokenInv'
<1>1. /\ work' \in [Asker -> Work] /\ work'[r] = w
      /\ \A o \in Asker : o # r => work'[o] = work[o]
  BY OneGoesOn DEF Refreshes
<1>2. /\ work[r].pc = "refresh" /\ w.row = work[r].row /\ spent' = spent \cup {work[r].row}
      /\ w.pc \in {"save", "unlock"} /\ (w.pc = "save" => w.token = issued + 1)
      /\ UNCHANGED <<github_token, member, grant, expired, lock>>
      /\ issued' \in Nat /\ issued' >= issued
      /\ w.token <= issued' /\ mishaps' \in {mishaps, mishaps + 1}
      /\ good' \subseteq good \cup 1..issued'
  BY TokenFacts DEF Refreshes
<1>3. /\ work[r].row \in 1..issued /\ (mishaps' = 0 => mishaps = 0)
      /\ mishaps = 0 => lock = r /\ \A o \in Asker : work[o].pc \in InLock => o = r
  <2>1. work[r].row \in Nat /\ work[r].row # 0 /\ work[r].row <= issued
    BY <1>2, TokenFacts DEF TokenInv, Refreshing, InLock, Work
  <2> QED
    BY <1>2, <2>1, TokenFacts DEF TokenInv, Refreshing, InLock
<1>4. TokensTyped'
  <2>1. \A o \in Asker : work'[o].row <= issued' /\ work'[o].token <= issued'
    BY <1>1, <1>2, TokenFacts DEF Work
  <2>2. good' \cup spent' \cup expired' \subseteq 1..issued' /\ github_token' \in 0..issued'
    BY <1>2, <1>3, TokenFacts
  <2> QED
    BY <1>1, <1>2, <2>1, <2>2, TokenFacts, TokensStillTyped DEF TokenInv, TokensTyped
<1>5. Refreshing'
  BY <1>1, <1>2, <1>3, TokenFacts DEF TokenInv, Refreshing, InLock
<1>6. ASSUME mishaps' = 0 PROVE Kept'
  <2>1. mishaps = 0 /\ Kept
    BY <1>2, <1>6, TokenFacts DEF TokenInv
  <2>2. \A o \in Asker : ~Saver(o) /\ (Saver(o)' => o = r)
    BY <1>1, <1>2, <1>3, <2>1 DEF Saver, InLock
  <2>3. (github_token # 0 => github_token \in good) /\ github_token \notin spent
    BY <2>1, <2>2 DEF Kept
  <2>4. \A o \in Asker : work'[o].pc # "refresh"
    BY <1>1, <1>2, <1>3, <2>1 DEF InLock
  <2>5. CASE work[r].row \in good
    <3>1. /\ w.pc = "save" /\ w.token = issued + 1
          /\ good' = (good \ {work[r].row}) \cup {issued + 1}
      BY <1>6, <2>1, <2>5, TokenFacts DEF Refreshes
    <3>2. issued + 1 \in good' \ spent'
      <4>1. issued + 1 \notin spent /\ issued + 1 # work[r].row
        BY <1>3, TokenFacts
      <4> QED
        BY <1>2, <3>1, <4>1
    <3>3. github_token = work[r].row => Saver(r)'
      BY <1>1, <1>2, <3>1 DEF Saver
    <3> QED
      BY <1>1, <1>2, <2>2, <2>3, <2>4, <3>1, <3>2, <3>3 DEF Kept
  <2>6. CASE work[r].row \notin good
    <3>1. w.pc = "unlock" /\ good' = good
      BY <1>6, <2>1, <2>6, TokenFacts DEF Refreshes
    <3>2. github_token # work[r].row /\ \A o \in Asker : ~Saver(o)'
      BY <1>1, <1>3, <2>1, <2>2, <2>3, <2>6, <3>1 DEF Saver
    <3> QED
      BY <1>2, <2>3, <2>4, <3>1, <3>2 DEF Kept
  <2> QED
    BY <2>5, <2>6
<1>7. S!GrantsOfMembers'
  BY <1>2 DEF TokenInv, S!GrantsOfMembers
<1> QED
  BY <1>4, <1>5, <1>6, <1>7 DEF TokenInv

LEMMA SavesKeeps ==
  ASSUME TokenInv, NEW r \in Asker, NEW w \in Work, Saves(r, w)
  PROVE  TokenInv' /\ (github_token = 0 => github_token' = 0)
<1>1. /\ work' \in [Asker -> Work] /\ work'[r] = w
      /\ \A o \in Asker : o # r => work'[o] = work[o]
  BY OneGoesOn DEF Saves
<1>2. /\ work[r].pc = "save" /\ w.pc = "unlock" /\ w.row = work[r].row
      /\ github_token' = IF github_token = work[r].row THEN work[r].token ELSE github_token
      /\ UNCHANGED <<expired, good, spent, issued, member, grant, lock, mishaps>>
      /\ w.token <= issued
  BY TokenFacts DEF Saves
<1>3. /\ work[r].row # 0 /\ work[r].token # 0 /\ work[r].token \in 0..issued
      /\ mishaps = 0 => \A o \in Asker : work[o].pc \in InLock => o = r
  BY <1>2, TokenFacts DEF TokenInv, Refreshing, InLock, Work
<1>4. TokensTyped'
  <2>1. \A o \in Asker : work'[o].row <= issued' /\ work'[o].token <= issued'
    BY <1>1, <1>2, TokenFacts
  <2>2. github_token' \in 0..issued'
    BY <1>2, <1>3, TokenFacts
  <2> QED
    BY <1>1, <1>2, <2>1, <2>2, TokenFacts, TokensStillTyped DEF TokenInv, TokensTyped
<1>5. Refreshing'
  BY <1>1, <1>2, <1>3 DEF TokenInv, Refreshing, InLock
<1>6. ASSUME mishaps' = 0 PROVE Kept'
  <2>0. mishaps = 0
    BY <1>2, <1>6
  <2>1. \A o \in Asker : ~Saver(o)' /\ work'[o].pc # "refresh" /\ (Saver(o) => o = r)
    BY <1>1, <1>2, <1>3, <2>0 DEF Saver, InLock
  <2>2. CASE github_token = work[r].row
    <3>1. Saver(r)
      BY <1>2, <2>2 DEF Saver
    <3> QED
      BY <1>2, <2>0, <2>1, <2>2, <3>1 DEF TokenInv, Kept
  <2>3. CASE github_token # work[r].row
    <3>1. ~Saver(r)
      BY <2>3 DEF Saver
    <3> QED
      BY <1>2, <2>0, <2>1, <2>3, <3>1 DEF TokenInv, Kept
  <2> QED
    BY <2>2, <2>3
<1>7. S!GrantsOfMembers' /\ (github_token = 0 => github_token' = 0)
  BY <1>2, <1>3 DEF TokenInv, S!GrantsOfMembers
<1> QED
  BY <1>4, <1>5, <1>6, <1>7 DEF TokenInv

LEMMA UnlocksKeeps ==
  ASSUME TokenInv, NEW r \in Asker, NEW w \in Work, Unlocks(r, w)
  PROVE  TokenInv'
<1>1. /\ work' \in [Asker -> Work] /\ work'[r] = w
      /\ \A o \in Asker : o # r => work'[o] = work[o]
  BY OneGoesOn DEF Unlocks
<1>2. /\ work[r].pc = "unlock" /\ w.pc \in {"none", "use"} /\ lock' = S!Free
      /\ UNCHANGED <<github_token, expired, good, spent, issued, member, grant, mishaps>>
      /\ w.row <= issued /\ w.token <= issued
  BY DEF Unlocks
<1>3. mishaps = 0 => \A o \in Asker : work[o].pc \in InLock => o = r
  BY <1>2 DEF TokenInv, Refreshing, InLock
<1>4. TokensTyped'
  BY <1>1, <1>2, TokenFacts, TokensStillTyped DEF TokenInv, TokensTyped
<1>5. Refreshing'
  BY <1>1, <1>2, <1>3 DEF TokenInv, Refreshing, InLock
<1>6. ASSUME mishaps' = 0 PROVE Kept'
  <2>1. \A o \in Asker : ~Saver(o) /\ ~Saver(o)' /\ work'[o].pc # "refresh"
    BY <1>1, <1>2, <1>3, <1>6 DEF Saver, InLock
  <2> QED
    BY <1>2, <1>6, <2>1 DEF TokenInv, Kept
<1>7. S!GrantsOfMembers'
  BY <1>2 DEF TokenInv, S!GrantsOfMembers
<1> QED
  BY <1>4, <1>5, <1>6, <1>7 DEF TokenInv

\* The user, the owner of the workspace, GitHub, and time.
Elsewhere == S!LockEnds \/ S!SignIn \/ S!Disconnect \/ S!Revoke \/ S!Uninstall
             \/ S!RemoveMember \/ S!AddMember \/ S!Expire

LEMMA ElsewhereKeeps ==
  ASSUME TokenInv, Elsewhere
  PROVE  TokenInv' /\ work' = work
         /\ (github_token = 0 /\ github_token' # 0 => issued' > issued)
<1> USE DEF S!directory, S!provider
<1>0. /\ work' = work
      /\ \A r \in Asker : work[r].row <= issued /\ work[r].token <= issued
      /\ \A r \in Asker : work[r].pc \in InLock \cup {"lock"} => work[r].row # 0
  BY TokenFacts DEF Elsewhere, S!LockEnds, S!SignIn, S!Disconnect, S!Revoke, S!Uninstall,
     S!RemoveMember, S!AddMember, S!Expire, TokenInv, Refreshing
<1>1. CASE S!LockEnds
  <2>1. /\ lock' = S!Free /\ lock # S!Free
        /\ mishaps' = IF work[lock].pc \in InLock THEN mishaps + 1 ELSE mishaps
        /\ UNCHANGED <<github_token, expired, good, spent, issued, member, grant>>
    BY <1>1 DEF S!LockEnds, S!Mishap, InLock
  <2>2. mishaps' \in Nat /\ (mishaps' = 0 => mishaps = 0 /\ \A r \in Asker : work[r].pc \notin InLock)
    BY <2>1, TokenFacts DEF TokenInv, Refreshing
  <2>3. TokensTyped'
    BY <1>0, <2>1, <2>2, TokenFacts, TokensStillTyped DEF TokenInv, TokensTyped
  <2>4. Refreshing'
    BY <1>0, <2>1, <2>2 DEF TokenInv, Refreshing, InLock
  <2>5. mishaps' = 0 => Kept'
    BY <1>0, <2>1, <2>2 DEF TokenInv, Kept, Saver
  <2> QED
    BY <1>0, <2>1, <2>3, <2>4, <2>5 DEF TokenInv, S!GrantsOfMembers
<1>2. CASE S!SignIn
  <2>1. /\ issued' = issued + 1 /\ good' = good \cup {issued + 1} /\ github_token' = issued + 1
        /\ UNCHANGED <<expired, spent, member, grant, lock, mishaps>>
    BY <1>2 DEF S!SignIn, S!Issue, S!New
  <2>2. /\ issued' \in Nat /\ issued' > issued /\ github_token' # 0
        /\ github_token' \in 0..issued' /\ github_token' \notin spent
        /\ good' \cup spent' \cup expired' \subseteq 1..issued'
        /\ \A r \in Asker : /\ work[r].row <= issued' /\ work[r].token <= issued'
                            /\ work[r].row # github_token'
    BY <1>0, <2>1, TokenFacts DEF Work
  <2>3. TokensTyped'
    BY <1>0, <2>1, <2>2, TokenFacts, TokensStillTyped DEF TokenInv, TokensTyped
  <2>4. Refreshing'
    BY <1>0, <2>1 DEF TokenInv, Refreshing
  <2>5. mishaps = 0 => Kept'
    BY <1>0, <2>1, <2>2 DEF TokenInv, Kept, Saver
  <2> QED
    BY <1>0, <2>1, <2>2, <2>3, <2>4, <2>5 DEF TokenInv, S!GrantsOfMembers
<1>3. CASE S!Disconnect \/ S!Revoke
  <2>1. /\ github_token' = 0 /\ grant' = FALSE /\ good' \subseteq good
        /\ UNCHANGED <<member, expired, spent, issued, lock, mishaps>>
    BY <1>3 DEF S!Disconnect, S!Revoke
  <2>2. TokensTyped'
    <3>1. grant' \in BOOLEAN /\ member' \in BOOLEAN
      BY <2>1 DEF TokenInv, TokensTyped
    <3>2. github_token' \in 0..issued' /\ good' \cup spent' \cup expired' \subseteq 1..issued'
      BY <2>1, TokenFacts
    <3> QED
      BY <1>0, <2>1, <3>1, <3>2, TokenFacts, TokensStillTyped
  <2>3. Refreshing'
    BY <1>0, <2>1 DEF TokenInv, Refreshing
  <2>4. mishaps = 0 => Kept'
    <3>1. 0 \notin spent
      BY TokenFacts
    <3>2. \A r \in Asker : ~Saver(r)'
      BY <1>0, <2>1 DEF Saver, InLock
    <3> QED
      BY <1>0, <2>1, <3>1, <3>2 DEF TokenInv, Kept
  <2> QED
    BY <1>0, <2>1, <2>2, <2>3, <2>4 DEF TokenInv, S!GrantsOfMembers
<1>4. CASE S!Uninstall \/ S!RemoveMember \/ S!AddMember \/ S!Expire
  <2>1. expired' \subseteq 1..issued /\ UNCHANGED <<github_token, good, spent, issued, lock, mishaps>>
    BY <1>4, TokenFacts DEF S!Uninstall, S!RemoveMember, S!AddMember, S!Expire
  <2>2. grant' \in {grant, FALSE} /\ member' \in {member, FALSE, TRUE}
    BY <1>4 DEF S!Uninstall, S!RemoveMember, S!AddMember, S!Expire
  <2>3. grant' \in BOOLEAN /\ member' \in BOOLEAN
    BY <2>2, Zenon DEF TokenInv, TokensTyped
  <2>4. TokensTyped'
    BY <1>0, <2>1, <2>3, TokenFacts, TokensStillTyped
  <2>5. Refreshing' /\ (Kept => Kept')
    BY <1>0, <2>1 DEF TokenInv, Refreshing, Kept, Saver
  <2>6. S!GrantsOfMembers'
    BY <1>4, Zenon DEF S!Uninstall, S!RemoveMember, S!AddMember, S!Expire, TokenInv,
       S!GrantsOfMembers
  <2> QED
    BY <1>0, <2>1, <2>4, <2>5, <2>6 DEF TokenInv
<1> QED
  BY <1>1, <1>2, <1>3, <1>4 DEF Elsewhere

GrantHeld == \A r \in Asker :
  work[r].pc # "released" /\ work'[r].pc = "released" => grant /\ member
SignedOut == github_token = 0 /\ github_token' # 0 => issued' > issued

LEMMA TokensKept ==
  ASSUME TokenInv, S!Next \/ UNCHANGED tokensVars
  PROVE  TokenInv' /\ GrantHeld /\ SignedOut
<1>1. ASSUME NEW r \in Asker, NEW w \in Work,
             Outside(r, w) \/ Locks(r, w) \/ Refreshes(r, w) \/ Saves(r, w) \/ Unlocks(r, w)
      PROVE  TokenInv' /\ GrantHeld /\ SignedOut
  <2>1. TokenInv'
    BY <1>1, OutsideKeeps, LocksKeeps, RefreshesKeeps, SavesKeeps, UnlocksKeeps
  <2>2. SignedOut
    BY <1>1, SavesKeeps DEF SignedOut, Outside, Locks, Refreshes, Unlocks
  <2>3. /\ work' = [work EXCEPT ![r] = w]
        /\ w.pc = "released" /\ work[r].pc # "released" => grant /\ member
    BY <1>1 DEF Outside, Locks, Refreshes, Saves, Unlocks
  <2>4. work'[r] = w /\ \A o \in Asker : o # r => work'[o] = work[o]
    BY <2>3, OneGoesOn
  <2> QED
    BY <2>1, <2>2, <2>3, <2>4 DEF GrantHeld
<1>2. CASE Elsewhere
  BY <1>2, ElsewhereKeeps DEF GrantHeld, SignedOut
<1>3. CASE UNCHANGED tokensVars
  <2>1. UNCHANGED <<github_token, expired, lock, good, spent, issued, member, grant, work, mishaps>>
    BY <1>3 DEF tokensVars
  <2>2. TokensTyped'
    BY <2>1, TokenFacts, TokensStillTyped DEF TokenInv, TokensTyped
  <2> QED
    BY <2>1, <2>2 DEF TokenInv, Refreshing, Kept, Saver, S!GrantsOfMembers, GrantHeld, SignedOut
<1> QED
  BY <1>1, <1>2, <1>3, RequestEffects DEF S!Next, Elsewhere

LEMMA TokensBegin ==
  ASSUME S!Init
  PROVE  TokenInv
<1>1. /\ github_token = 1 /\ good = {1} /\ issued = 1 /\ expired = {} /\ spent = {}
      /\ lock = S!Free /\ member = TRUE /\ grant = TRUE /\ mishaps = 0
      /\ work = [r \in Asker |-> S!NoWork]
  BY DEF S!Init
<1>2. TokensTyped
  BY <1>1, NoWorkFacts DEF TokensTyped, S!TypeOK
<1>3. Refreshing /\ Kept /\ S!GrantsOfMembers
  BY <1>1, NoWorkFacts DEF Refreshing, Kept, Saver, S!GrantsOfMembers, InLock
<1> QED
  BY <1>2, <1>3 DEF TokenInv

LEMMA TokenPromises ==
  ASSUME TokenInv
  PROVE  S!TypeOK /\ S!TokenKept /\ S!GrantsOfMembers
BY DEF TokenInv, TokensTyped, S!TokenKept, S!At, S!Replaces, Kept, Saver

-----------------------------------------------------------------------------
(***************************************************************************)
(* The pushes.  First, what appending, taking the first and removing do to *)
(* a sequence of distinct pushes.                                          *)
(***************************************************************************)

Distinct(s) == \A i, j \in 1..Len(s) : s[i] = s[j] => i = j

LEMMA InSeq ==
  ASSUME NEW s \in Seq(Delivery)
  PROVE  /\ P!ToSet(s) = {s[i] : i \in 1..Len(s)} /\ P!ToSet(s) \subseteq Delivery
         /\ \A d : P!Contains(s, d) <=> d \in P!ToSet(s)
         /\ s # <<>> => Head(s) \in P!ToSet(s)
         /\ s = <<>> => P!ToSet(s) = {}
<1>1. DOMAIN s = 1..Len(s) /\ \A i \in 1..Len(s) : s[i] \in Delivery
  OBVIOUS
<1>2. P!ToSet(s) = {s[i] : i \in 1..Len(s)}
  BY <1>1 DEF P!ToSet
<1>3. s # <<>> => Head(s) = s[1] /\ 1 \in 1..Len(s)
  OBVIOUS
<1>4. s = <<>> => Len(s) = 0
  OBVIOUS
<1> QED
  BY <1>1, <1>2, <1>3, <1>4 DEF P!Contains

LEMMA Appended ==
  ASSUME NEW s \in Seq(Delivery), NEW d \in Delivery, Distinct(s), d \notin P!ToSet(s)
  PROVE  /\ Append(s, d) \in Seq(Delivery) /\ Distinct(Append(s, d))
         /\ P!ToSet(Append(s, d)) = P!ToSet(s) \cup {d}
<1> DEFINE t == Append(s, d)
<1>1. /\ t \in Seq(Delivery) /\ Len(t) = Len(s) + 1 /\ t[Len(s) + 1] = d
      /\ Len(s) \in Nat /\ \A i \in 1..Len(s) : t[i] = s[i]
  OBVIOUS
<1>2. \A i \in 1..(Len(s) + 1) : i = Len(s) + 1 \/ i \in 1..Len(s)
  BY <1>1
<1>3. \A i \in 1..Len(s) : s[i] # d
  BY InSeq
<1> HIDE DEF t
<1>4. Distinct(t)
  BY <1>1, <1>2, <1>3 DEF Distinct
<1>5. P!ToSet(t) = P!ToSet(s) \cup {d}
  <2>1. \A e : e \in P!ToSet(t) => e \in P!ToSet(s) \cup {d}
    BY <1>1, <1>2, InSeq
  <2>2. \A i \in 1..Len(s) : i \in 1..Len(t)
    BY <1>1
  <2>3. Len(s) + 1 \in 1..Len(t)
    BY <1>1
  <2>4. \A e : e \in P!ToSet(s) \cup {d} => e \in P!ToSet(t)
    BY <1>1, <2>2, <2>3, InSeq
  <2> QED
    BY <2>1, <2>4
<1> QED
  BY <1>1, <1>4, <1>5 DEF t

LEMMA Beheaded ==
  ASSUME NEW s \in Seq(Delivery), Distinct(s), s # <<>>
  PROVE  /\ Tail(s) \in Seq(Delivery) /\ Distinct(Tail(s)) /\ Head(s) \in Delivery
         /\ P!ToSet(Tail(s)) = P!ToSet(s) \ {Head(s)}
<1> DEFINE t == Tail(s)
<1>1. /\ t \in Seq(Delivery) /\ Len(t) = Len(s) - 1 /\ Len(s) \in Nat /\ Len(s) > 0
      /\ \A i \in 1..Len(t) : t[i] = s[i + 1] /\ i + 1 \in 1..Len(s) /\ i + 1 # 1
      /\ Head(s) = s[1] /\ 1 \in 1..Len(s) /\ Head(s) \in Delivery
  OBVIOUS
<1>2. \A i \in 1..Len(s) : i = 1 \/ (i - 1 \in 1..Len(t) /\ t[i - 1] = s[i])
  BY <1>1
<1> HIDE DEF t
<1>3. Distinct(t)
  BY <1>1 DEF Distinct
<1>4. \A e : e \in P!ToSet(t) => e \in P!ToSet(s) /\ e # Head(s)
  <2>1. \A i \in 1..Len(t) : t[i] # s[1]
    BY <1>1 DEF Distinct
  <2> QED
    BY <1>1, <2>1, InSeq
<1>5. \A e : e \in P!ToSet(s) /\ e # Head(s) => e \in P!ToSet(t)
  BY <1>1, <1>2, InSeq
<1> QED
  BY <1>1, <1>3, <1>4, <1>5 DEF t

LEMMA Joined ==
  ASSUME NEW D, NEW a \in Seq(D), NEW b \in Seq(D)
  PROVE  /\ a \o b \in Seq(D) /\ Len(a \o b) = Len(a) + Len(b)
         /\ \A i \in 1..Len(a \o b) :
              (a \o b)[i] = IF i <= Len(a) THEN a[i] ELSE b[i - Len(a)]
OBVIOUS

LEMMA Removed ==
  ASSUME NEW s \in Seq(Delivery), Distinct(s), NEW d \in P!ToSet(s)
  PROVE  LET t == P!RemoveFirst(s, d)
         IN  t \in Seq(Delivery) /\ Distinct(t) /\ P!ToSet(t) = P!ToSet(s) \ {d}
<1> DEFINE I == {i \in 1..Len(s) : s[i] = d}
           k == P!Min(I)
           a == SubSeq(s, 1, k - 1)
           b == SubSeq(s, k + 1, Len(s))
           t == a \o b
<1>1. \E i \in 1..Len(s) : s[i] = d
  BY InSeq
<1>2. P!SelectInSeq(s, LAMBDA v : v = d) = IF I # {} THEN k ELSE 0
  BY DEF P!SelectInSeq
<1>3. P!RemoveFirst(s, d) = P!RemoveAt(s, P!SelectInSeq(s, LAMBDA v : v = d))
  BY <1>1 DEF P!RemoveFirst
<1>4. k \in I
  <2>1. I \in SUBSET Nat /\ I # {}
    BY <1>1
  <2> HIDE DEF I
  <2> QED
    BY <2>1, Least DEF P!Min
<1>5. k \in 1..Len(s) /\ s[k] = d /\ I # {}
  BY <1>4
<1>6. P!RemoveFirst(s, d) = t
  <2>1. P!SelectInSeq(s, LAMBDA v : v = d) = k
    BY <1>2, <1>5
  <2>2. P!RemoveFirst(s, d) = P!RemoveAt(s, k)
    BY <1>3, <2>1
  <2> QED
    BY <2>2 DEF P!RemoveAt
<1> HIDE DEF I, k
<1>7. /\ a \in Seq(Delivery) /\ Len(a) = k - 1 /\ \A i \in 1..(k - 1) : a[i] = s[i]
      /\ b \in Seq(Delivery) /\ Len(b) = Len(s) - k
      /\ \A i \in 1..(Len(s) - k) : b[i] = s[k + i]
      /\ Len(s) \in Nat
  BY <1>5
<1> HIDE DEF a, b
<1>8. /\ t \in Seq(Delivery) /\ Len(t) = Len(s) - 1
      /\ \A i \in 1..Len(t) : t[i] = IF i < k THEN s[i] ELSE s[i + 1]
  <2>1. /\ t \in Seq(Delivery) /\ Len(t) = Len(a) + Len(b)
        /\ \A i \in 1..Len(t) : t[i] = IF i <= Len(a) THEN a[i] ELSE b[i - Len(a)]
    BY <1>7, Joined
  <2> HIDE DEF t
  <2>2. Len(t) = Len(s) - 1
    BY <1>5, <1>7, <2>1
  <2>3. ASSUME NEW i \in 1..Len(t), i < k PROVE t[i] = s[i]
    <3>1. i \in 1..(k - 1) /\ i <= Len(a)
      BY <1>5, <1>7, <2>2, <2>3
    <3> QED
      BY <1>7, <2>1, <3>1
  <2>4. ASSUME NEW i \in 1..Len(t), ~(i < k) PROVE t[i] = s[i + 1]
    <3>1. i - Len(a) \in 1..(Len(s) - k) /\ ~(i <= Len(a)) /\ k + (i - Len(a)) = i + 1
      BY <1>5, <1>7, <2>2, <2>4
    <3>2. b[i - Len(a)] = s[i + 1]
      BY <1>7, <3>1
    <3> QED
      BY <2>1, <3>1, <3>2
  <2> QED
    BY <2>1, <2>2, <2>3, <2>4
<1> HIDE DEF t
<1>9. /\ \A i \in 1..Len(t) : \E j \in 1..Len(s) : t[i] = s[j] /\ j # k /\ j = IF i < k THEN i ELSE i + 1
      /\ \A j \in 1..Len(s) : j # k => \E i \in 1..Len(t) : t[i] = s[j]
  <2>1. \A i \in 1..Len(t) : \E j \in 1..Len(s) : t[i] = s[j] /\ j # k /\ j = IF i < k THEN i ELSE i + 1
    BY <1>5, <1>7, <1>8
  <2>2. ASSUME NEW j \in 1..Len(s), j < k PROVE j \in 1..Len(t) /\ t[j] = s[j]
    BY <1>5, <1>7, <1>8, <2>2
  <2>3. ASSUME NEW j \in 1..Len(s), j > k PROVE j - 1 \in 1..Len(t) /\ t[j - 1] = s[j]
    BY <1>5, <1>7, <1>8, <2>3
  <2>4. ASSUME NEW j \in 1..Len(s), j # k PROVE \E i \in 1..Len(t) : t[i] = s[j]
    <3>1. j < k \/ j > k
      BY <1>5, <1>7, <2>4
    <3> QED
      BY <2>2, <2>3, <3>1
  <2> QED
    BY <2>1, <2>4
<1>10. Distinct(t)
  <2> SUFFICES ASSUME NEW i \in 1..Len(t), NEW j \in 1..Len(t), t[i] = t[j] PROVE i = j
    BY DEF Distinct
  <2>1. (IF i < k THEN i ELSE i + 1) = (IF j < k THEN j ELSE j + 1)
    BY <1>9 DEF Distinct
  <2> QED
    BY <1>5, <1>7, <2>1
<1>11. P!ToSet(t) = P!ToSet(s) \ {d}
  <2>1. \A j \in 1..Len(s) : s[j] = d <=> j = k
    BY <1>5 DEF Distinct
  <2>0. P!ToSet(t) = {t[i] : i \in 1..Len(t)} /\ P!ToSet(s) = {s[i] : i \in 1..Len(s)}
    BY <1>8, InSeq
  <2>2. ASSUME NEW e \in P!ToSet(t) PROVE e \in P!ToSet(s) \ {d}
    <3>1. PICK i \in 1..Len(t) : e = t[i]
      BY <2>0
    <3>2. PICK j \in 1..Len(s) : t[i] = s[j] /\ j # k
      BY <1>9
    <3> QED
      BY <2>0, <2>1, <3>1, <3>2
  <2>3. \A e : e \in P!ToSet(s) \ {d} => e \in P!ToSet(t)
    BY <1>9, <2>0, <2>1
  <2> QED
    BY <2>2, <2>3
<1> QED
  BY <1>6, <1>8, <1>10, <1>11


Step      == {"none", "record", "look", "forward", "complete", "end"}
Delivered == [pc : Step, delivery : Delivery \cup {"none"}]
Singles   == {<<>>} \cup {<<d>> : d \in Delivery}
AlarmRun  == [on : BOOLEAN, left : Seq(Delivery), queued : Singles]
Pending   == P!ToSet(push_requests)
Left      == P!ToSet(run.left)
Queued(d) == run.queued # <<>> /\ run.queued[1] = d

PushesTyped ==
  /\ record \in [Delivery -> {"none", "open", "completed"}]
  /\ handler \in [Handler -> Delivered]
  /\ webhooks \subseteq Delivery /\ push_requests \in Seq(Delivery) /\ run \in AlarmRun
  /\ queued \in [Delivery -> Nat] /\ upsets \in 0..PushFaults

\* A delivery that the worker has completed, or is about to, was handled.
Handled ==
  /\ \A h \in Handler : /\ handler[h].pc # "none" => handler[h].delivery \in Delivery
                        /\ handler[h].pc = "complete" => handler[h].delivery \in webhooks
  /\ \A d \in Delivery : record[d] = "completed" => d \in webhooks

\* What waits has been handled, and waits once; what the alarm has not got to waits,
\* and what it has queued a deployment for waits to be removed.
InLine ==
  /\ Distinct(push_requests) /\ Distinct(run.left)
  /\ Pending \subseteq webhooks /\ Left \subseteq Pending
  /\ \A d \in Delivery : Queued(d) => d \in Pending \ Left
  /\ ~run.on => run.left = <<>> /\ run.queued = <<>>

\* What has been handled waits or was deployed; what waits was deployed only by an
\* alarm that stopped, unless its removal is next; what was not handled was not deployed.
Counted == \A d \in Delivery :
  /\ d \in webhooks /\ service = "live" => d \in Pending \/ queued[d] > 0
  /\ d \notin webhooks => queued[d] = 0
  /\ queued[d] <= 1 + upsets
  /\ d \in Pending /\ ~Queued(d) => queued[d] <= upsets
  /\ Queued(d) => queued[d] > 0

PushInv == PushesTyped /\ Handled /\ InLine /\ Counted

LEMMA PushNumbers == PushFaults \in Nat
BY WorkAssumption

LEMMA Single ==
  /\ <<>> \in Singles /\ <<>> \in Seq(Delivery) /\ P!ToSet(<<>>) = {} /\ Distinct(<<>>)
  /\ \A d \in Delivery : <<d>> \in Singles /\ <<d>> # <<>> /\ <<d>>[1] = d
  /\ \A s \in Singles : s # <<>> => s[1] \in Delivery /\ s = <<s[1]>>
<1>1. <<>> \in Singles /\ <<>> \in Seq(Delivery) /\ Len(<<>>) = 0
  BY DEF Singles
<1>2. P!ToSet(<<>>) = {} /\ Distinct(<<>>)
  BY <1>1, InSeq DEF Distinct
<1>3. \A d \in Delivery : <<d>> \in Singles /\ <<d>> # <<>> /\ <<d>>[1] = d
  BY DEF Singles
<1>4. \A s \in Singles : s # <<>> => s[1] \in Delivery /\ s = <<s[1]>>
  BY <1>3 DEF Singles
<1> QED
  BY <1>1, <1>2, <1>3, <1>4

LEMMA PushFacts ==
  ASSUME PushInv
  PROVE  /\ push_requests \in Seq(Delivery) /\ run.left \in Seq(Delivery) /\ run.queued \in Singles
         /\ run \in AlarmRun /\ handler \in [Handler -> Delivered] /\ queued \in [Delivery -> Nat]
         /\ webhooks \subseteq Delivery /\ Pending \subseteq Delivery /\ Left \subseteq Delivery
         /\ upsets \in Nat /\ upsets \in 0..PushFaults
         /\ record \in [Delivery -> {"none", "open", "completed"}]
<1>1. /\ push_requests \in Seq(Delivery) /\ run \in AlarmRun /\ upsets \in 0..PushFaults
      /\ handler \in [Handler -> Delivered] /\ queued \in [Delivery -> Nat]
      /\ webhooks \subseteq Delivery /\ record \in [Delivery -> {"none", "open", "completed"}]
  BY DEF PushInv, PushesTyped
<1>2. run.left \in Seq(Delivery) /\ run.queued \in Singles
  BY <1>1 DEF AlarmRun
<1> QED
  BY <1>1, <1>2, InSeq, PushNumbers DEF Pending, Left

\* The requests of GitHub.
GoesOn(h, pc) ==
  /\ handler' \in [Handler -> Delivered] /\ handler'[h].pc = pc
  /\ handler'[h].delivery = handler[h].delivery
  /\ \A o \in Handler : o # h => handler'[o] = handler[o]

LEMMA Goes ==
  ASSUME PushInv, NEW h \in Handler, NEW pc \in Step, P!Goto(h, pc)
  PROVE  GoesOn(h, pc)
<1> DEFINE w == [handler[h] EXCEPT !.pc = pc]
<1>1. w \in Delivered /\ w.pc = pc /\ w.delivery = handler[h].delivery
  BY PushFacts DEF Delivered
<1>2. handler' = [handler EXCEPT ![h] = w]
  BY DEF P!Goto
<1> HIDE DEF w
<1> QED
  BY <1>1, <1>2, PushFacts DEF GoesOn

\* A step of the worker that leaves the object alone.
LEMMA WorkerKeeps ==
  ASSUME PushInv, UNCHANGED P!object, upsets' \in {upsets, upsets + 1}, upsets' \in 0..PushFaults,
         handler' \in [Handler -> Delivered],
         record' \in [Delivery -> {"none", "open", "completed"}], Handled'
  PROVE  PushInv'
<1>1. UNCHANGED <<webhooks, push_requests, service, deploying, queued, timer, run>>
  BY DEF P!object
<1>2. PushesTyped'
  BY <1>1, PushFacts DEF PushesTyped
<1>3. InLine'
  BY <1>1 DEF PushInv, InLine, Pending, Left, Queued
<1>4. Counted'
  <2>1. \A d \in Delivery : queued[d] \in Nat
    BY PushFacts
  <2> QED
    BY <1>1, <2>1, PushFacts DEF PushInv, Counted, Pending, Queued
<1> QED
  BY <1>2, <1>3, <1>4 DEF PushInv

LEMMA RecordKeeps ==
  ASSUME PushInv, NEW h \in Handler,
         (\E d \in Delivery : P!Deliver(h, d)) \/ P!Record(h) \/ P!Look(h) \/ P!Complete(h)
           \/ P!WorkerStops(h)
  PROVE  PushInv'
<1>1. ASSUME NEW d \in Delivery, P!Deliver(h, d) PROVE PushInv'
  <2> DEFINE w == [pc |-> "record", delivery |-> d]
  <2>1. /\ handler' = [handler EXCEPT ![h] = w] /\ record' = record /\ upsets' = upsets
        /\ UNCHANGED P!object /\ webhooks' = webhooks
    BY <1>1 DEF P!Deliver, P!object
  <2>2. w \in Delivered /\ w.pc = "record" /\ w.delivery = d
    BY DEF Delivered, Step
  <2> HIDE DEF w
  <2>3. /\ handler' \in [Handler -> Delivered] /\ handler'[h] = w
        /\ \A o \in Handler : o # h => handler'[o] = handler[o]
    BY <2>1, <2>2, PushFacts
  <2>4. Handled'
    BY <2>1, <2>2, <2>3 DEF PushInv, Handled
  <2> QED
    BY <2>1, <2>3, <2>4, PushFacts, WorkerKeeps
<1>2. ASSUME P!Record(h) PROVE PushInv'
  <2> DEFINE d == handler[h].delivery
             r == IF record[d] = "none" THEN "open" ELSE record[d]
  <2>1. /\ record' = [record EXCEPT ![d] = r] /\ upsets' = upsets
        /\ UNCHANGED P!object /\ webhooks' = webhooks
    BY <1>2 DEF P!Record, P!object
  <2>2. GoesOn(h, "look")
    BY <1>2, Goes DEF P!Record, Step
  <2>3. d \in Delivery
    BY <1>2 DEF P!Record, P!At, PushInv, Handled
  <2>4. r \in {"none", "open", "completed"} /\ (r = "completed" => record[d] = "completed")
    BY <2>3, PushFacts
  <2> HIDE DEF d, r
  <2>5. /\ record' \in [Delivery -> {"none", "open", "completed"}]
        /\ \A e \in Delivery : record'[e] = "completed" => record[e] = "completed"
    BY <2>1, <2>3, <2>4, PushFacts
  <2>6. Handled'
    BY <1>2, <2>1, <2>2, <2>5 DEF PushInv, Handled, GoesOn, P!Record, P!At
  <2> QED
    BY <2>1, <2>2, <2>5, <2>6, PushFacts, WorkerKeeps DEF GoesOn
<1>3. ASSUME P!Look(h) PROVE PushInv'
  <2>1. record' = record /\ upsets' = upsets /\ UNCHANGED P!object /\ webhooks' = webhooks
        /\ handler[h].pc = "look"
    BY <1>3 DEF P!Look, P!object, P!At
  <2>2. GoesOn(h, "end") \/ GoesOn(h, "forward")
    BY <1>3, Goes DEF P!Look, Step
  <2>3. Handled'
    BY <2>1, <2>2 DEF PushInv, Handled, GoesOn
  <2> QED
    BY <2>1, <2>2, <2>3, PushFacts, WorkerKeeps DEF GoesOn
<1>4. ASSUME P!Complete(h) PROVE PushInv'
  <2> DEFINE d == handler[h].delivery
  <2>1. /\ record' = [record EXCEPT ![d] = "completed"] /\ upsets' = upsets
        /\ UNCHANGED P!object /\ webhooks' = webhooks /\ handler[h].pc = "complete"
    BY <1>4 DEF P!Complete, P!object, P!At
  <2>2. GoesOn(h, "end")
    BY <1>4, Goes DEF P!Complete, Step
  <2>3. d \in Delivery /\ d \in webhooks
    BY <2>1 DEF PushInv, Handled
  <2> HIDE DEF d
  <2>4. /\ record' \in [Delivery -> {"none", "open", "completed"}]
        /\ \A e \in Delivery : record'[e] = "completed" => record[e] = "completed" \/ e = d
    BY <2>1, <2>3, PushFacts
  <2>5. Handled'
    BY <2>1, <2>2, <2>3, <2>4 DEF PushInv, Handled, GoesOn
  <2> QED
    BY <2>1, <2>2, <2>4, <2>5, PushFacts, WorkerKeeps DEF GoesOn
<1>5. ASSUME P!WorkerStops(h) PROVE PushInv'
  <2>1. /\ record' = record /\ upsets < PushFaults /\ upsets' = upsets + 1
        /\ UNCHANGED P!object /\ webhooks' = webhooks /\ handler[h].pc # "none"
    BY <1>5 DEF P!WorkerStops, P!Upset, P!object
  <2>2. GoesOn(h, "end")
    BY <1>5, Goes DEF P!WorkerStops, Step
  <2>3. Handled'
    BY <2>1, <2>2 DEF PushInv, Handled, GoesOn
  <2>4. upsets' \in 0..PushFaults
    BY <2>1, PushFacts, PushNumbers
  <2> QED
    BY <2>1, <2>2, <2>3, <2>4, PushFacts, WorkerKeeps DEF GoesOn
<1> QED
  BY <1>1, <1>2, <1>3, <1>4, <1>5


LEMMA ForwardKeeps ==
  ASSUME PushInv, NEW h \in Handler, P!Forward(h)
  PROVE  PushInv'
<1> DEFINE d == handler[h].delivery
<1>1. /\ handler[h].pc = "forward" /\ d \in Delivery
      /\ UNCHANGED <<record, service, deploying, queued, run, upsets>>
  BY DEF P!Forward, P!At, PushInv, Handled
<1>2. GoesOn(h, "complete")
  BY Goes DEF P!Forward, Step
<1>3. \/ UNCHANGED <<webhooks, push_requests>> /\ d \in webhooks
      \/ /\ d \notin webhooks /\ webhooks' = webhooks \cup {d}
         /\ \/ push_requests' = push_requests /\ service = "gone"
            \/ push_requests' = push_requests /\ d \in Pending
            \/ push_requests' = Append(push_requests, d) /\ d \notin Pending
  BY PushFacts, InSeq DEF P!Forward, P!Known, P!Wanted, Pending
<1> HIDE DEF d
<1>4. /\ webhooks \subseteq webhooks' /\ d \in webhooks' /\ webhooks' \subseteq webhooks \cup {d}
      /\ webhooks' \subseteq Delivery
  BY <1>1, <1>3, PushFacts
<1>5. Pending \subseteq webhooks /\ Left \subseteq Pending /\ Distinct(push_requests)
  BY DEF PushInv, InLine
<1>6. /\ push_requests' \in Seq(Delivery) /\ Distinct(push_requests')
      /\ Pending \subseteq Pending' /\ Pending' \subseteq Pending \cup {d}
      /\ d \notin webhooks /\ service = "live" => d \in Pending'
      /\ d \in webhooks => Pending' = Pending
  <2>1. CASE push_requests' = push_requests
    BY <1>3, <1>5, <2>1, PushFacts DEF Pending
  <2>2. CASE push_requests' = Append(push_requests, d) /\ d \notin Pending
    <3>1. /\ Append(push_requests, d) \in Seq(Delivery) /\ Distinct(Append(push_requests, d))
          /\ P!ToSet(Append(push_requests, d)) = P!ToSet(push_requests) \cup {d}
      BY <1>1, <1>5, <2>2, Appended, PushFacts DEF Pending
    <3> QED
      BY <1>3, <2>2, <3>1 DEF Pending
  <2> QED
    BY <1>3, <2>1, <2>2
<1>7. PushesTyped'
  BY <1>1, <1>2, <1>4, <1>6, PushFacts DEF PushesTyped, GoesOn
<1>8. Handled'
  BY <1>1, <1>2, <1>4 DEF PushInv, Handled, GoesOn, d
<1>9. InLine'
  <2>1. Left' = Left /\ \A e \in Delivery : Queued(e)' <=> Queued(e)
    BY <1>1 DEF Left, Queued
  <2>2. Pending' \subseteq webhooks'
    BY <1>4, <1>5, <1>6
  <2> QED
    BY <1>1, <1>6, <2>1, <2>2 DEF PushInv, InLine
<1>10. Counted'
  <2> SUFFICES ASSUME NEW e \in Delivery
               PROVE  /\ e \in webhooks' /\ service = "live" => e \in Pending' \/ queued[e] > 0
                      /\ e \notin webhooks' => queued[e] = 0
                      /\ queued[e] <= 1 + upsets
                      /\ e \in Pending' /\ ~Queued(e) => queued[e] <= upsets
                      /\ Queued(e) => queued[e] > 0
    BY <1>1 DEF Counted, Queued
  <2>0. Queued(e) => queued[e] > 0
    BY DEF PushInv, Counted
  <2>1. CASE e \in webhooks
    <3>1. e \in Pending' => e \in Pending
      BY <1>5, <1>6, <2>1
    <3> QED
      BY <1>4, <1>6, <2>0, <2>1, <3>1 DEF PushInv, Counted
  <2>2. CASE e \notin webhooks
    <3>1. queued[e] = 0 /\ upsets \in Nat
      BY <2>2, PushFacts DEF PushInv, Counted
    <3>2. e \in webhooks' => e = d
      BY <1>4, <2>2
    <3> QED
      BY <1>6, <2>0, <2>2, <3>1, <3>2
  <2> QED
    BY <2>1, <2>2
<1> QED
  BY <1>7, <1>8, <1>9, <1>10 DEF PushInv

\* A step of the object that leaves the handlers, the webhooks and what waits alone.
LEMMA AlarmKeeps ==
  ASSUME PushInv, UNCHANGED <<record, handler, webhooks, push_requests>>,
         service' = service \/ service' # "live",
         run' \in AlarmRun, Left' \subseteq Pending, Distinct(run'.left),
         \A d \in Delivery : Queued(d)' => d \in Pending \ Left',
         ~run'.on => run'.left = <<>> /\ run'.queued = <<>>,
         upsets' \in {upsets, upsets + 1}, upsets' \in 0..PushFaults,
         queued' \in [Delivery -> Nat],
         \A d \in Delivery : /\ d \notin Pending => queued'[d] = queued[d]
                             /\ queued'[d] >= queued[d]
                             /\ queued'[d] <= 1 + upsets'
                             /\ d \in Pending /\ ~Queued(d)' => queued'[d] <= upsets'
                             /\ Queued(d)' => queued'[d] > 0
  PROVE  PushInv'
<1>1. PushesTyped' /\ Handled' /\ Pending' = Pending
  BY PushFacts DEF PushInv, PushesTyped, Handled, Pending
<1>2. InLine'
  BY <1>1 DEF PushInv, InLine
<1>3. Counted'
  <2>1. \A d \in Delivery : d \notin webhooks => d \notin Pending
    BY DEF PushInv, InLine
  <2>2. \A d \in Delivery : queued[d] \in Nat /\ queued'[d] \in Nat
    BY PushFacts
  <2> QED
    BY <1>1, <2>1, <2>2 DEF PushInv, Counted
<1> QED
  BY <1>1, <1>2, <1>3 DEF PushInv

LEMMA Counts ==
  ASSUME PushInv, NEW d \in Delivery
  PROVE  /\ queued[d] \in Nat /\ queued[d] >= queued[d] /\ queued[d] <= 1 + upsets
         /\ d \in Pending /\ ~Queued(d) => queued[d] <= upsets
         /\ queued[d] <= 1 + (upsets + 1)
         /\ d \in Pending => queued[d] <= upsets + 1
BY PushFacts DEF PushInv, Counted

LEMMA FireKeeps ==
  ASSUME PushInv, P!AlarmFires
  PROVE  PushInv'
<1> DEFINE r == [on |-> TRUE, left |-> push_requests, queued |-> <<>>]
<1>1. /\ ~run.on /\ run' = r
      /\ UNCHANGED <<record, handler, webhooks, push_requests, service, queued, upsets>>
  BY DEF P!AlarmFires, P!directory, P!Asleep
<1>2. r \in AlarmRun /\ r.on /\ r.left = push_requests /\ r.queued = <<>>
  BY PushFacts, Single DEF AlarmRun
<1> HIDE DEF r
<1>3. Left' = Pending /\ \A d \in Delivery : ~Queued(d) /\ ~Queued(d)'
  BY <1>1, <1>2 DEF PushInv, InLine, Left, Pending, Queued
<1>4. Distinct(run'.left)
  BY <1>1, <1>2 DEF PushInv, InLine
<1> QED
  BY <1>1, <1>2, <1>3, <1>4, PushFacts, Counts, AlarmKeeps

LEMMA DispatchKeeps ==
  ASSUME PushInv, P!Dispatch
  PROVE  PushInv'
<1>0. PICK d : d = Head(run.left)
  OBVIOUS
<1> DEFINE a == [run EXCEPT !.left = Tail(run.left), !.queued = <<d>>]
           b == [run EXCEPT !.left = Tail(run.left)]
<1>1. /\ run.on /\ run.left # <<>> /\ run.queued = <<>>
      /\ UNCHANGED <<record, handler, webhooks, push_requests, service, upsets>>
      /\ \/ queued' = [queued EXCEPT ![d] = queued[d] + 1] /\ run' = a
         \/ queued' = queued /\ run' = b
  BY <1>0 DEF P!Dispatch, P!directory, P!Asleep
<1>2. /\ d \in Delivery /\ d \in Left /\ Tail(run.left) \in Seq(Delivery)
      /\ Distinct(Tail(run.left)) /\ P!ToSet(Tail(run.left)) = Left \ {d}
  BY <1>0, <1>1, PushFacts, InSeq, Beheaded DEF PushInv, InLine, Left
<1>3. /\ a \in AlarmRun /\ a.on = run.on /\ a.left = Tail(run.left) /\ a.queued = <<d>>
      /\ b \in AlarmRun /\ b.on = run.on /\ b.left = Tail(run.left) /\ b.queued = run.queued
  <2>1. <<d>> \in Singles
    BY <1>2, Single
  <2> QED
    BY <1>2, <2>1, PushFacts DEF AlarmRun
<1> HIDE DEF a, b
<1>4. /\ run' \in AlarmRun /\ run'.on /\ Distinct(run'.left) /\ Left' = Left \ {d}
      /\ run'.queued \in {<<>>, <<d>>}
  BY <1>1, <1>2, <1>3 DEF Left
<1>5. Left \subseteq Pending /\ Left' \subseteq Pending /\ d \in Pending
  BY <1>2, <1>4 DEF PushInv, InLine
<1>6. \A e \in Delivery : Queued(e)' => e = d /\ e \in Pending \ Left'
  BY <1>2, <1>4, <1>5, Single DEF Queued
<1>7. /\ queued' \in [Delivery -> Nat] /\ upsets' = upsets /\ upsets \in Nat
      /\ \A e \in Delivery : ~Queued(e)
      /\ \A e \in Delivery : \/ queued'[e] = queued[e]
                             \/ e = d /\ queued'[e] = queued[e] + 1 /\ Queued(e)'
      /\ \A e \in Delivery : Queued(e)' => queued'[e] = queued[e] + 1
  <2>1. \A e \in Delivery : queued[e] \in Nat
    BY PushFacts
  <2>2. CASE run' = a /\ queued' = [queued EXCEPT ![d] = queued[d] + 1]
    <3>1. Queued(d)' /\ \A e \in Delivery : Queued(e)' => e = d
      BY <1>2, <1>3, <2>2, Single DEF Queued
    <3>2. queued' \in [Delivery -> Nat]
      BY <1>2, <2>1, <2>2, PushFacts
    <3> QED
      BY <1>1, <1>2, <2>1, <2>2, <3>1, <3>2, PushFacts DEF Queued
  <2>3. CASE run' = b /\ queued' = queued
    <3>1. \A e \in Delivery : ~Queued(e)'
      BY <1>1, <1>3, <2>3 DEF Queued
    <3> QED
      BY <1>1, <2>3, <3>1, PushFacts DEF Queued
  <2> QED
    BY <1>1, <2>2, <2>3
<1>8. ASSUME NEW e \in Delivery
      PROVE  /\ e \notin Pending => queued'[e] = queued[e]
             /\ queued'[e] >= queued[e]
             /\ queued'[e] <= 1 + upsets'
             /\ e \in Pending /\ ~Queued(e)' => queued'[e] <= upsets'
             /\ Queued(e)' => queued'[e] > 0
  BY <1>5, <1>7, Counts
<1> QED
  BY <1>1, <1>4, <1>5, <1>6, <1>7, <1>8, PushFacts, AlarmKeeps

LEMMA RemovalKeeps ==
  ASSUME PushInv, P!Dispatched
  PROVE  PushInv'
<1> DEFINE d == run.queued[1]
           t == P!RemoveFirst(push_requests, d)
           r == [run EXCEPT !.queued = <<>>]
<1>1. /\ run.queued # <<>> /\ push_requests' = t /\ run' = r
      /\ UNCHANGED <<record, handler, webhooks, service, queued, upsets>>
  BY DEF P!Dispatched, P!Remaining, P!directory, P!Asleep
<1>2. d \in Delivery /\ d \in Pending /\ d \notin Left /\ Queued(d)
  BY <1>1, PushFacts, Single DEF PushInv, InLine, Queued
<1>3. t \in Seq(Delivery) /\ Distinct(t) /\ P!ToSet(t) = Pending \ {d}
  BY <1>2, PushFacts, Removed DEF PushInv, InLine, Pending
<1>4. r \in AlarmRun /\ r.on = run.on /\ r.left = run.left /\ r.queued = <<>>
  BY PushFacts, Single DEF AlarmRun
<1>5. \A e \in Delivery : Queued(e) => e = d
  BY DEF Queued
<1> HIDE DEF d, t, r
<1>6. /\ Pending' = Pending \ {d} /\ Left' = Left
      /\ \A e \in Delivery : ~Queued(e)'
  BY <1>1, <1>3, <1>4 DEF Pending, Left, Queued
<1>7. PushesTyped' /\ Handled'
  BY <1>1, <1>3, <1>4, PushFacts DEF PushInv, PushesTyped, Handled
<1>8. InLine'
  BY <1>1, <1>2, <1>3, <1>4, <1>6 DEF PushInv, InLine
<1>9. Counted'
  <2>1. queued[d] > 0
    BY <1>2 DEF PushInv, Counted
  <2> QED
    BY <1>1, <1>5, <1>6, <2>1 DEF PushInv, Counted
<1> QED
  BY <1>7, <1>8, <1>9 DEF PushInv


LEMMA RestKeeps ==
  ASSUME PushInv, P!AlarmEnds \/ P!ObjectStops \/ P!DeploymentEnds \/ P!UserDeploys \/ P!RemoveService
  PROVE  PushInv'
<1> USE DEF P!directory
<1>1. \A d \in Delivery : Queued(d) => d \in Pending \ Left /\ queued[d] > 0
  BY DEF PushInv, InLine, Counted
<1>2. /\ Left \subseteq Pending /\ Distinct(run.left)
      /\ ~run.on => run.left = <<>> /\ run.queued = <<>>
  BY DEF PushInv, InLine
<1>3. ASSUME P!AlarmEnds PROVE PushInv'
  <2> DEFINE r == [run EXCEPT !.on = FALSE]
  <2>1. /\ run.left = <<>> /\ run.queued = <<>> /\ run' = r
        /\ service' = service \/ service' # "live"
        /\ UNCHANGED <<record, handler, webhooks, push_requests, queued, upsets>>
    BY <1>3 DEF P!AlarmEnds, P!Asleep
  <2>2. r \in AlarmRun /\ ~r.on /\ r.left = run.left /\ r.queued = run.queued
    BY PushFacts DEF AlarmRun
  <2> HIDE DEF r
  <2>3. Left' = Left /\ \A d \in Delivery : Queued(d)' <=> Queued(d)
    BY <2>1, <2>2 DEF Left, Queued
  <2> QED
    BY <1>1, <1>2, <2>1, <2>2, <2>3, PushFacts, Counts, AlarmKeeps
<1>4. ASSUME P!ObjectStops PROVE PushInv'
  <2> DEFINE r == [on |-> FALSE, left |-> <<>>, queued |-> <<>>]
  <2>1. /\ run' = r /\ upsets < PushFaults /\ upsets' = upsets + 1
        /\ UNCHANGED <<record, handler, webhooks, push_requests, queued, service>>
    BY <1>4 DEF P!ObjectStops, P!Upset, P!Asleep
  <2>2. r \in AlarmRun /\ ~r.on /\ r.left = <<>> /\ r.queued = <<>>
    BY Single DEF AlarmRun
  <2> HIDE DEF r
  <2>3. Left' = {} /\ Distinct(run'.left) /\ \A d \in Delivery : ~Queued(d)'
    BY <2>1, <2>2, Single DEF Left, Queued
  <2>4. upsets' \in 0..PushFaults
    BY <2>1, PushFacts, PushNumbers
  <2> QED
    BY <2>1, <2>2, <2>3, <2>4, PushFacts, Counts, AlarmKeeps
<1>5. ASSUME P!DeploymentEnds \/ P!UserDeploys \/ P!RemoveService PROVE PushInv'
  <2>1. /\ service' = service \/ service' # "live"
        /\ UNCHANGED <<record, handler, webhooks, push_requests, run, queued>>
        /\ upsets' = upsets \/ (upsets < PushFaults /\ upsets' = upsets + 1)
    BY <1>5 DEF P!DeploymentEnds, P!UserDeploys, P!RemoveService, P!Upset
  <2>2. Left' = Left /\ \A d \in Delivery : Queued(d)' <=> Queued(d)
    BY <2>1 DEF Left, Queued
  <2>3. upsets' \in 0..PushFaults
    BY <2>1, PushFacts, PushNumbers
  <2> QED
    BY <1>1, <1>2, <2>1, <2>2, <2>3, PushFacts, Counts, AlarmKeeps
<1> QED
  BY <1>3, <1>4, <1>5

LEMMA PushesAreKept ==
  ASSUME PushInv, P!Next \/ UNCHANGED pushesVars
  PROVE  PushInv'
<1>1. CASE UNCHANGED pushesVars
  <2>1. UNCHANGED P!object /\ UNCHANGED <<record, handler, webhooks, upsets>>
    BY <1>1 DEF pushesVars, P!object
  <2>2. Handled'
    BY <2>1 DEF PushInv, Handled
  <2> QED
    BY <2>1, <2>2, PushFacts, WorkerKeeps
<1> QED
  BY <1>1, RecordKeeps, ForwardKeeps, FireKeeps, DispatchKeeps, RemovalKeeps, RestKeeps
     DEF P!Next, P!AlarmStep

LEMMA PushesBegin ==
  ASSUME P!Init
  PROVE  PushInv
<1> DEFINE r == [on |-> FALSE, left |-> <<>>, queued |-> <<>>]
<1>1. /\ record = [d \in Delivery |-> "none"] /\ handler = [h \in Handler |-> P!Idle]
      /\ webhooks = {} /\ push_requests = <<>> /\ queued = [d \in Delivery |-> 0]
      /\ run = r /\ upsets = 0
  BY DEF P!Init, P!Asleep
<1>2. r \in AlarmRun /\ ~r.on /\ r.left = <<>> /\ r.queued = <<>>
  BY Single DEF AlarmRun
<1>3. P!Idle \in Delivered /\ P!Idle.pc = "none"
  BY DEF P!Idle, Delivered, Step
<1> HIDE DEF r
<1>4. Pending = {} /\ Left = {} /\ Distinct(push_requests) /\ Distinct(run.left)
      /\ \A d \in Delivery : ~Queued(d)
  BY <1>1, <1>2, Single DEF Pending, Left, Queued
<1>5. PushesTyped
  BY <1>1, <1>2, <1>3, Single, PushNumbers DEF PushesTyped
<1>6. Handled /\ InLine /\ Counted
  BY <1>1, <1>2, <1>3, <1>4 DEF Handled, InLine, Counted
<1> QED
  BY <1>5, <1>6 DEF PushInv

LEMMA PushPromises ==
  ASSUME PushInv
  PROVE  P!TypeOK /\ P!PushKept /\ P!DeployedOnce
<1>1. P!ToSet(run.left \o run.queued) \subseteq Delivery
  <2>1. run.queued \in Seq(Delivery)
    <3>1. \A d \in Delivery : <<d>> \in Seq(Delivery)
      OBVIOUS
    <3>2. run.queued \in Singles
      BY PushFacts
    <3>3. \A q \in Singles : q \in Seq(Delivery)
      BY <3>1, Single DEF Singles
    <3> QED
      BY <3>2, <3>3
  <2>2. run.left \o run.queued \in Seq(Delivery)
    BY <2>1, PushFacts, Joined
  <2> QED
    BY <2>2, InSeq
<1>2. P!TypeOK
  BY <1>1, PushFacts DEF PushInv, InLine, Pending, P!TypeOK
<1>3. P!PushKept
  <2>1. \A d : P!Contains(push_requests, d) <=> d \in Pending
    BY PushFacts, InSeq DEF Pending
  <2> QED
    BY <2>1 DEF PushInv, Handled, Counted, P!PushKept
<1>4. P!DeployedOnce
  BY DEF PushInv, Counted, P!DeployedOnce
<1> QED
  BY <1>2, <1>3, <1>4

-----------------------------------------------------------------------------
(***************************************************************************)
(* The builds on a Mac.                                                    *)
(***************************************************************************)

Asked      == {"none", "access", "nodes"}
Underway   == {"queued", "running", "cancelling"}
Ends       == {"succeeded", "failed", "cancelled", "timed_out"}
Over       == Ends \cup {"interrupted"}
JobDoc     == [status : Asked \cup Underway \cup Over, result : Ends \cup {"none"},
               artifact : BOOLEAN]
Early      == {"none", "registered", "pending"}
Late       == {"complete", "failed", "ended", "lost"}
StopDoc    == [phase : {"none", "stop", "observe"}, seen : BOOLEAN]
HelperDoc  == [pc : {"none", "start", "build", "artifact", "result", "exit"},
               status : Ends \cup {"none"}]
Asking     == {"none", "start", "token", "artifact", "put", "delete", "failed"}
Storing    == {"artifact", "put", "delete"}
RoundDoc   == [listed : SUBSET (Job \X Underway), call : SUBSET (Job \X Underway)]
Status(j)  == apple_jobs[j].status
Pc(j)      == helper[j].pc
Offered(j) == apple_jobs[j].artifact

JobsTyped ==
  /\ apple_jobs \in [Job -> JobDoc] /\ allocation \in [Job -> Early \cup Late \cup {"running"}]
  /\ stops \in [Job -> StopDoc] /\ helper \in [Job -> HelperDoc] /\ request \in [Job -> Asking]
  /\ artifacts \subseteq Job /\ round \in RoundDoc /\ lost \in 0..JobFaults

\* A round of the alarm is about active jobs, each listed once; a job listed as
\* cancelling still is.
Rounds ==
  LET all == round.listed \cup round.call
  IN  /\ \A e \in all : /\ Status(e[1]) \in Underway
                        /\ e[2] = "cancelling" => Status(e[1]) = "cancelling"
      /\ \A e, f \in all : e[1] = f[1] => e = f
      /\ round.call \cap round.listed = {}

\* A job that was deregistered is not placed any more; before it runs there is no
\* helper, which has one request at a time.
Placed == \A j \in Job :
  /\ stops[j].phase = "observe" => allocation[j] \notin Early
  /\ allocation[j] \in Early => Pc(j) = "none"
  /\ request[j] \in {"start", "token"} => Pc(j) = "start"
  /\ request[j] \in Storing => Pc(j) = "artifact"

\* What is offered was uploaded, once; what is stored is offered, or its upload goes on
\* or was cut.
Stocked == \A j \in Job :
  /\ Offered(j) => Pc(j) \in {"result", "exit"} /\ j \in artifacts
  /\ j \in artifacts => Offered(j) \/ request[j] \in {"put", "delete", "failed"}
  /\ request[j] = "put" => j \in artifacts

AppleInv == JobsTyped /\ Rounds /\ Placed /\ Stocked /\ A!EndIsTrue /\ A!ActiveHasProject

LEMMA JobFacts ==
  ASSUME AppleInv
  PROVE  /\ apple_jobs \in [Job -> JobDoc] /\ allocation \in [Job -> Early \cup Late \cup {"running"}]
         /\ stops \in [Job -> StopDoc] /\ helper \in [Job -> HelperDoc]
         /\ request \in [Job -> Asking] /\ artifacts \subseteq Job /\ round \in RoundDoc
         /\ lost \in 0..JobFaults /\ lost \in Nat /\ JobFaults \in Nat
BY WorkAssumption DEF AppleInv, JobsTyped

\* What a step may do to a job: to its document, ...
EndsTruly(j) ==   \* it ends in the answer of the scheduler that is awaited
  /\ Status(j) \in Underway /\ Status(j)' \in Over
  /\ Status(j) = "cancelling" => Status(j)' = "cancelled"
  /\ \E s \in Underway : round.call = {<<j, s>>}
  /\ round'.call = {} /\ round'.listed = round.listed
  /\ Status(j)' = "succeeded" => apple_jobs'[j].result = "succeeded" /\ allocation[j] = "complete"
  /\ allocation[j] \in Late \/ stops[j] = [phase |-> "observe", seen |-> FALSE]
DocMoves(j) ==
  \/ apple_jobs'[j] = apple_jobs[j]
  \/ /\ Status(j) \in Asked /\ Status(j)' \in Asked \cup {"queued"}
     /\ Status(j)' = "queued" => project = "linked"
  \/ Status(j) \in Underway /\ Status(j)' = "cancelling"
  \/ Status(j) \in {"queued", "running"} /\ Status(j)' = "running"
  \/ Status(j) \in Underway /\ Status(j)' = Status(j)
  \/ EndsTruly(j)
\* ... its allocation, its shutdown, ...
PlaceMoves(j) ==
  \/ allocation'[j] = allocation[j]
  \/ allocation[j] = "running" /\ allocation'[j] \in Late
  \/ allocation[j] = "none" /\ allocation'[j] = "registered" /\ Status(j) \in Underway
  \/ allocation[j] = "registered" /\ allocation'[j] = "pending"
  \/ allocation[j] = "pending" /\ allocation'[j] = "running"
  \/ allocation[j] \in Early /\ allocation'[j] = "ended"
StopMoves(j) ==
  /\ stops'[j] = stops[j] \/ stops[j].phase # "observe"
  /\ stops'[j].phase = "observe" => stops[j].phase = "observe" \/ allocation'[j] \notin Early
\* ... and its helper.
Stock(j) == Offered(j)' = Offered(j) /\ (j \in artifacts' <=> j \in artifacts)
HelpMoves(j) ==
  \/ Stock(j) /\ request'[j] = request[j] /\ Pc(j)' = Pc(j)
  \/ /\ Stock(j) /\ request'[j] = request[j]
     /\ \/ allocation[j] = "pending" /\ allocation'[j] = "running" /\ Pc(j)' = "start"
        \/ Pc(j) = "build" /\ Pc(j)' = "artifact"
        \/ request[j] = "none" /\ Pc(j) = "artifact" /\ Pc(j)' = "result"
        \/ Pc(j) = "result" /\ Pc(j)' = "exit"
  \/ /\ Stock(j) /\ Pc(j)' = Pc(j)
     /\ \/ /\ request[j] = "none" /\ request'[j] = Pc(j) /\ Pc(j) \in {"start", "artifact"}
           /\ allocation[j] = "running"
        \/ request[j] = "start" /\ request'[j] \in {"none", "token"}
  \/ /\ Stock(j) /\ request[j] = "token" /\ request'[j] = "none"
     /\ Pc(j)' = Pc(j) \/ (Pc(j)' = "build" /\ Status(j) = "running")
  \/ /\ request[j] = "artifact" /\ request'[j] = "put" /\ j \in artifacts'
     /\ Pc(j)' = Pc(j) /\ Offered(j)' = Offered(j)
  \/ /\ request[j] = "put" /\ request'[j] = "none" /\ Pc(j)' = "result"
     /\ Offered(j)' /\ j \in artifacts'
  \/ Stock(j) /\ request[j] = "put" /\ request'[j] = "delete" /\ Pc(j)' = Pc(j)
  \/ /\ request[j] = "delete" /\ request'[j] = "none" /\ Pc(j)' = "result"
     /\ Offered(j)' = Offered(j) /\ j \notin artifacts'
  \/ Stock(j) /\ request[j] \in Storing /\ request'[j] = "failed" /\ Pc(j)' = "result"
Moves(j) == DocMoves(j) /\ PlaceMoves(j) /\ StopMoves(j) /\ HelpMoves(j)

\* What a step may do to the round of the alarm.
RoundMoves ==
  \/ round' = round
  \/ round'.call = {} /\ round'.listed = round.listed
  \/ /\ round'.call = {} /\ round'.listed = {<<j, Status(j)>> : j \in {k \in Job : Status(k) \in Underway}}
     /\ apple_jobs' = apple_jobs
  \/ /\ \E e \in round.listed : round'.call = {e} /\ round'.listed = round.listed \ {e}
     /\ apple_jobs' = apple_jobs
ProjectMoves ==
  \/ project' = project
  \/ project' = "unlinked" /\ apple_jobs' = apple_jobs
  \/ (\A j \in Job : Status(j) \notin Underway) /\ apple_jobs' = apple_jobs

\* Those moves keep the invariant.
LEMMA RoundsKept ==
  ASSUME AppleInv, JobsTyped', RoundMoves, \A j \in Job : DocMoves(j)
  PROVE  Rounds'
<1> DEFINE all == round.listed \cup round.call
<1>1. /\ \A e \in all : /\ Status(e[1]) \in Underway
                        /\ e[2] = "cancelling" => Status(e[1]) = "cancelling"
      /\ \A e, f \in all : e[1] = f[1] => e = f
      /\ round.call \cap round.listed = {}
  BY DEF AppleInv, Rounds
<1>2. /\ round.listed \in SUBSET (Job \X Underway) /\ round.call \in SUBSET (Job \X Underway)
      /\ \A e \in all : e[1] \in Job
  <2>1. round.listed \in SUBSET (Job \X Underway) /\ round.call \in SUBSET (Job \X Underway)
    BY JobFacts DEF RoundDoc
  <2> QED
    BY <2>1
<1>3. ASSUME NEW j \in Job, Status(j) \in Underway, ~EndsTruly(j)
      PROVE  Status(j)' \in Underway /\ (Status(j) = "cancelling" => Status(j)' = "cancelling")
  BY <1>3 DEF DocMoves, Status, Asked, Underway
<1>4. ASSUME NEW j \in Job, EndsTruly(j)
      PROVE  /\ round'.call = {} /\ round'.listed = round.listed
             /\ \A e \in round.listed : e[1] # j
  <2>1. PICK s \in Underway : round.call = {<<j, s>>}
    BY <1>4 DEF EndsTruly
  <2>2. <<j, s>> \in round.call /\ <<j, s>>[1] = j
    BY <2>1
  <2> QED
    BY <1>1, <1>4, <2>2 DEF EndsTruly
<1>5. CASE \E j \in Job : EndsTruly(j)
  <2>1. PICK j \in Job : EndsTruly(j)
    BY <1>5
  <2>2. \A k \in Job : EndsTruly(k) => k = j
    <3>1. \A k \in Job : EndsTruly(k) => \E s \in Underway : round.call = {<<k, s>>}
      BY DEF EndsTruly
    <3>2. ASSUME NEW k \in Job, EndsTruly(k)
          PROVE  k = j
      <4>1. PICK s \in Underway, t \in Underway : round.call = {<<j, s>>} /\ round.call = {<<k, t>>}
        BY <2>1, <3>1, <3>2
      <4>2. <<k, t>> = <<j, s>>
        BY <4>1
      <4> QED
        BY <4>2
    <3> QED
      BY <3>2
  <2> QED
    BY <1>1, <1>2, <1>3, <1>4, <2>1, <2>2 DEF Rounds
<1>6. CASE (\A j \in Job : ~EndsTruly(j)) /\ round' = round
  BY <1>1, <1>2, <1>3, <1>6 DEF Rounds
<1>7. CASE (\A j \in Job : ~EndsTruly(j)) /\ round'.call = {} /\ round'.listed = round.listed
  BY <1>1, <1>2, <1>3, <1>7 DEF Rounds
<1>8. CASE /\ round'.call = {} /\ apple_jobs' = apple_jobs
           /\ round'.listed = {<<j, Status(j)>> : j \in {k \in Job : Status(k) \in Underway}}
  <2>1. \A j \in Job : Status(j)' = Status(j)
    BY <1>8 DEF Status
  <2>2. \A e \in round'.listed : \E j \in Job : e = <<j, Status(j)>> /\ Status(j) \in Underway
    BY <1>8
  <2>3. \A e \in round'.listed : e[1] \in Job /\ e = <<e[1], Status(e[1])>> /\ Status(e[1]) \in Underway
                                /\ e[2] = Status(e[1])
    BY <2>2
  <2> QED
    BY <1>8, <2>1, <2>3 DEF Rounds
<1>9. CASE /\ \E e \in round.listed : round'.call = {e} /\ round'.listed = round.listed \ {e}
           /\ apple_jobs' = apple_jobs
  <2>1. \A j \in Job : Status(j)' = Status(j)
    BY <1>9 DEF Status
  <2> QED
    BY <1>1, <1>2, <1>9, <2>1 DEF Rounds
<1> QED
  BY <1>5, <1>6, <1>7, <1>8, <1>9 DEF RoundMoves

LEMMA PlacedKept ==
  ASSUME AppleInv, JobsTyped', \A j \in Job : Moves(j)
  PROVE  Placed'
<1> SUFFICES ASSUME NEW j \in Job
             PROVE  /\ stops'[j].phase = "observe" => allocation'[j] \notin Early
                    /\ allocation'[j] \in Early => Pc(j)' = "none"
                    /\ request'[j] \in {"start", "token"} => Pc(j)' = "start"
                    /\ request'[j] \in Storing => Pc(j)' = "artifact"
  BY DEF Placed
<1>1. /\ stops[j].phase = "observe" => allocation[j] \notin Early
      /\ allocation[j] \in Early => Pc(j) = "none"
      /\ request[j] \in {"start", "token"} => Pc(j) = "start"
      /\ request[j] \in Storing => Pc(j) = "artifact"
      /\ request[j] \in Asking
  BY JobFacts DEF AppleInv, Placed
<1>2. PlaceMoves(j) /\ StopMoves(j) /\ HelpMoves(j)
  BY DEF Moves
<1>3. allocation'[j] \in Early => allocation[j] \in Early
  BY <1>2 DEF PlaceMoves, Early, Late
<1>4. allocation[j] \notin Early => allocation'[j] \notin Early
  BY <1>3
<1>5. stops'[j].phase = "observe" => allocation'[j] \notin Early
  BY <1>1, <1>2, <1>4 DEF StopMoves
<1>6. allocation'[j] \in Early => Pc(j)' = "none"
  BY <1>1, <1>2, <1>3 DEF HelpMoves, Early, Storing
<1>7. request'[j] \in {"start", "token"} => Pc(j)' = "start"
  BY <1>1, <1>2 DEF HelpMoves, Early, Asking, Storing
<1>8. request'[j] \in Storing => Pc(j)' = "artifact"
  BY <1>1, <1>2 DEF HelpMoves, Early, Asking, Storing
<1> QED
  BY <1>5, <1>6, <1>7, <1>8

LEMMA StockedKept ==
  ASSUME AppleInv, JobsTyped', \A j \in Job : Moves(j)
  PROVE  Stocked'
<1> SUFFICES ASSUME NEW j \in Job
             PROVE  /\ Offered(j)' => Pc(j)' \in {"result", "exit"} /\ j \in artifacts'
                    /\ j \in artifacts' => \/ Offered(j)'
                                           \/ request'[j] \in {"put", "delete", "failed"}
                    /\ request'[j] = "put" => j \in artifacts'
  BY DEF Stocked
<1>1. /\ Offered(j) => Pc(j) \in {"result", "exit"} /\ j \in artifacts
      /\ j \in artifacts => Offered(j) \/ request[j] \in {"put", "delete", "failed"}
      /\ request[j] = "put" => j \in artifacts
      /\ allocation[j] \in Early => Pc(j) = "none"
      /\ request[j] \in {"start", "token"} => Pc(j) = "start"
      /\ request[j] \in Storing => Pc(j) = "artifact"
  BY DEF AppleInv, Placed, Stocked
<1>2. HelpMoves(j)
  BY DEF Moves
<1> QED
  BY <1>1, <1>2 DEF HelpMoves, Stock, Early, Storing

LEMMA EndsKept ==
  ASSUME AppleInv, JobsTyped', \A j \in Job : Moves(j)
  PROVE  A!EndIsTrue'
<1> SUFFICES ASSUME NEW j \in Job
             PROVE  /\ Status(j)' = "succeeded" => apple_jobs'[j].result = "succeeded"
                                                   /\ allocation'[j] = "complete"
                    /\ Status(j)' \in Over =>
                         \/ allocation'[j] \notin {"registered", "pending", "running"}
                         \/ stops'[j] = [phase |-> "observe", seen |-> FALSE]
  BY DEF A!EndIsTrue, A!Status, A!Final, A!Result, Status, Over, Ends
<1>1. /\ Status(j) = "succeeded" => apple_jobs[j].result = "succeeded" /\ allocation[j] = "complete"
      /\ Status(j) \in Over =>
           \/ allocation[j] \notin {"registered", "pending", "running"}
           \/ stops[j] = [phase |-> "observe", seen |-> FALSE]
  BY DEF AppleInv, A!EndIsTrue, A!Status, A!Final, A!Result, Status, Over, Ends
<1>2. DocMoves(j) /\ PlaceMoves(j) /\ StopMoves(j)
  BY DEF Moves
<1>3. stops[j] = [phase |-> "observe", seen |-> FALSE] => stops'[j] = stops[j]
  BY <1>2 DEF StopMoves
<1>4. CASE Status(j)' \notin Over
  BY <1>4 DEF Over, Ends
<1>5. CASE Status(j)' \in Over /\ apple_jobs'[j] = apple_jobs[j]
  <2>1. Status(j)' = Status(j) /\ Status(j) \in Over /\ Status(j) \notin Underway
    BY <1>5 DEF Status, Over, Ends, Underway
  <2> QED
    BY <1>1, <1>2, <1>3, <1>5, <2>1 DEF PlaceMoves, Early, Late
<1>6. CASE EndsTruly(j)
  BY <1>2, <1>3, <1>6 DEF PlaceMoves, EndsTruly, Early, Late
<1> QED
  BY <1>2, <1>4, <1>5, <1>6 DEF DocMoves, Asked, Underway, Over, Ends

LEMMA ProjectKept ==
  ASSUME AppleInv, JobsTyped', ProjectMoves, \A j \in Job : DocMoves(j)
  PROVE  A!ActiveHasProject'
<1>1. ASSUME NEW j \in Job, Status(j)' \in Underway
      PROVE  Status(j) \in Underway \/ (Status(j) \in Asked /\ project = "linked" /\ apple_jobs' # apple_jobs)
  <2>1. DocMoves(j)
    OBVIOUS
  <2>2. CASE apple_jobs'[j] = apple_jobs[j]
    BY <1>1, <2>2 DEF Status
  <2>3. CASE apple_jobs'[j] # apple_jobs[j]
    BY <1>1, <2>1, <2>3 DEF DocMoves, EndsTruly, Asked, Underway, Over, Ends
  <2> QED
    BY <2>2, <2>3
<1>2. (\E j \in Job : Status(j) \in Underway) => project \in {"linked", "unlinked"}
  BY DEF AppleInv, A!ActiveHasProject, A!Busy, A!Active, A!Status, Status, Underway
<1>3. (\E j \in Job : Status(j)' \in Underway) => project' \in {"linked", "unlinked"}
  <2>1. CASE project' = project
    BY <1>1, <1>2, <2>1
  <2>2. CASE project' = "unlinked"
    BY <2>2
  <2>3. CASE (\A j \in Job : Status(j) \notin Underway) /\ apple_jobs' = apple_jobs
    BY <1>1, <2>3
  <2> QED
    BY <2>1, <2>2, <2>3 DEF ProjectMoves
<1> QED
  BY <1>3 DEF A!ActiveHasProject, A!Busy, A!Active, A!Status, Status, Underway

\* A step of one job, which leaves the others alone.
Still(j) ==
  /\ apple_jobs'[j] = apple_jobs[j] /\ allocation'[j] = allocation[j] /\ stops'[j] = stops[j]
  /\ helper'[j] = helper[j] /\ request'[j] = request[j] /\ (j \in artifacts' <=> j \in artifacts)
MovesOnly(j) == Moves(j) /\ \A k \in Job : k # j => Still(k)

LEMMA StillMoves ==
  ASSUME NEW j \in Job, Still(j)
  PROVE  Moves(j)
<1>1. DocMoves(j)
  BY DEF Still, DocMoves
<1>2. PlaceMoves(j) /\ (stops'[j].phase = "observe" => stops[j].phase = "observe")
  BY DEF Still, PlaceMoves
<1>3. StopMoves(j)
  BY <1>2 DEF Still, StopMoves
<1>4. HelpMoves(j)
  BY DEF Still, HelpMoves, Stock, Pc, Offered
<1> QED
  BY <1>1, <1>2, <1>3, <1>4 DEF Moves

LEMMA OthersStill ==
  ASSUME NEW j \in Job, MovesOnly(j)
  PROVE  \A k \in Job : Moves(k)
BY StillMoves DEF MovesOnly

\* A job whose document alone changes.
LEMMA DocStep ==
  ASSUME NEW j \in Job, DocMoves(j), Offered(j)' = Offered(j),
         \A k \in Job : k # j => apple_jobs'[k] = apple_jobs[k],
         UNCHANGED <<allocation, stops, helper, request, artifacts>>
  PROVE  MovesOnly(j)
<1>1. PlaceMoves(j) /\ StopMoves(j) /\ HelpMoves(j)
  BY DEF PlaceMoves, StopMoves, HelpMoves, Stock, Pc
<1> QED
  BY <1>1 DEF MovesOnly, Moves, Still

LEMMA StatusSet ==
  ASSUME NEW j \in Job, apple_jobs \in [Job -> JobDoc], NEW s \in Asked \cup Underway \cup Over,
         apple_jobs' = [apple_jobs EXCEPT ![j].status = s]
  PROVE  /\ apple_jobs' \in [Job -> JobDoc] /\ Status(j)' = s
         /\ apple_jobs'[j].result = apple_jobs[j].result /\ Offered(j)' = Offered(j)
         /\ \A k \in Job : k # j => apple_jobs'[k] = apple_jobs[k]
<1> DEFINE new == [apple_jobs[j] EXCEPT !.status = s]
<1>1. apple_jobs' = [apple_jobs EXCEPT ![j] = new]
  OBVIOUS
<1>2. apple_jobs[j] \in JobDoc
  OBVIOUS
<1>3. new \in JobDoc /\ new.status = s /\ new.result = apple_jobs[j].result
      /\ new.artifact = apple_jobs[j].artifact
  BY <1>2 DEF JobDoc
<1> HIDE DEF new
<1> QED
  BY <1>1, <1>3 DEF Status, Offered

LEMMA ResultSet ==
  ASSUME NEW j \in Job, apple_jobs \in [Job -> JobDoc], NEW r \in Ends \cup {"none"},
         apple_jobs' = [apple_jobs EXCEPT ![j].result = r]
  PROVE  /\ apple_jobs' \in [Job -> JobDoc] /\ Status(j)' = Status(j) /\ Offered(j)' = Offered(j)
         /\ \A k \in Job : k # j => apple_jobs'[k] = apple_jobs[k]
<1> DEFINE new == [apple_jobs[j] EXCEPT !.result = r]
<1>1. apple_jobs' = [apple_jobs EXCEPT ![j] = new]
  OBVIOUS
<1>2. apple_jobs[j] \in JobDoc
  OBVIOUS
<1>3. new \in JobDoc /\ new.status = apple_jobs[j].status
      /\ new.artifact = apple_jobs[j].artifact
  BY <1>2 DEF JobDoc
<1> HIDE DEF new
<1> QED
  BY <1>1, <1>3 DEF Status, Offered

\* Requests, cancellations and the project.
LEMMA UserMoves ==
  ASSUME AppleInv, NEW j \in Job, A!Request(j) \/ A!Accessed(j) \/ A!Queued(j) \/ A!Cancel(j)
  PROVE  JobsTyped' /\ RoundMoves /\ ProjectMoves /\ MovesOnly(j)
<1> DEFINE all == Asked \cup Underway \cup Over
<1>1. \E s \in all :
        /\ apple_jobs' = [apple_jobs EXCEPT ![j].status = s]
        /\ \/ Status(j) \in Asked /\ s \in Asked \cup {"queued"} /\ (s = "queued" => project = "linked")
           \/ Status(j) \in Underway /\ s = "cancelling"
  <2>1. CASE A!Request(j)
    <3>1. apple_jobs' = [apple_jobs EXCEPT ![j].status = "access"] /\ Status(j) = "none"
      BY <2>1 DEF A!Request, A!Set, A!Status, Status
    <3>2. "access" \in all /\ {"none", "access"} \subseteq Asked
      BY DEF Asked
    <3> WITNESS "access" \in all
    <3> QED
      BY <3>1, <3>2
  <2>2. CASE A!Accessed(j)
    <3>1. PICK s \in {"nodes", "none"} : apple_jobs' = [apple_jobs EXCEPT ![j].status = s]
      BY <2>2 DEF A!Accessed, A!Set
    <3>2. Status(j) = "access"
      BY <2>2 DEF A!Accessed, A!Status, Status
    <3> QED
      BY <3>1, <3>2 DEF Asked, Underway
  <2>3. CASE A!Queued(j)
    <3>1. PICK s \in {"queued", "none"} : /\ apple_jobs' = [apple_jobs EXCEPT ![j].status = s]
                                          /\ s = "queued" => project = "linked"
      BY <2>3 DEF A!Queued, A!Set, A!Fit
    <3>2. Status(j) = "nodes"
      BY <2>3 DEF A!Queued, A!Status, Status
    <3> QED
      BY <3>1, <3>2 DEF Asked, Underway
  <2>4. CASE A!Cancel(j)
    <3>1. apple_jobs' = [apple_jobs EXCEPT ![j].status = "cancelling"] /\ Status(j) \in Underway
      BY <2>4 DEF A!Cancel, A!Set, A!Status, A!Active, Status, Underway
    <3>2. "cancelling" \in all
      BY DEF Underway
    <3> WITNESS "cancelling" \in all
    <3> QED
      BY <3>1
  <2> QED
    BY <2>1, <2>2, <2>3, <2>4
<1>2. PICK s \in all :
        /\ apple_jobs' = [apple_jobs EXCEPT ![j].status = s]
        /\ \/ Status(j) \in Asked /\ s \in Asked \cup {"queued"} /\ (s = "queued" => project = "linked")
           \/ Status(j) \in Underway /\ s = "cancelling"
  BY <1>1
<1>3. UNCHANGED <<project, allocation, stops, helper, request, artifacts, round, lost>>
  BY DEF A!Request, A!Accessed, A!Queued, A!Cancel, A!mac
<1>4. /\ apple_jobs' \in [Job -> JobDoc] /\ Status(j)' = s /\ Offered(j)' = Offered(j)
      /\ \A k \in Job : k # j => apple_jobs'[k] = apple_jobs[k]
  <2>1. apple_jobs \in [Job -> JobDoc]
    BY JobFacts
  <2> QED
    BY <1>2, <2>1, StatusSet
<1>5. DocMoves(j)
  BY <1>2, <1>4 DEF DocMoves
<1>6. MovesOnly(j)
  BY <1>3, <1>4, <1>5, DocStep
<1>7. JobsTyped'
  BY <1>3, <1>4, JobFacts DEF JobsTyped
<1> QED
  BY <1>3, <1>6, <1>7 DEF RoundMoves, ProjectMoves

LEMMA ProjectSteps ==
  ASSUME AppleInv, A!Unlink \/ A!RemoveProject \/ A!ProjectRemoved
  PROVE  JobsTyped' /\ RoundMoves /\ ProjectMoves /\ \A j \in Job : Still(j)
<1>1. UNCHANGED <<apple_jobs, allocation, stops, helper, request, artifacts, round, lost>>
  BY DEF A!Unlink, A!RemoveProject, A!ProjectRemoved, A!mac
<1>2. project' = "unlinked" \/ \A j \in Job : Status(j) \notin Underway
  BY DEF A!Unlink, A!RemoveProject, A!ProjectRemoved, A!Busy, A!Active, A!Status, Status, Underway,
         AppleInv, A!ActiveHasProject
<1> QED
  BY <1>1, <1>2, JobFacts DEF JobsTyped, RoundMoves, ProjectMoves, Still

\* The alarm takes the next job, or gives one up.
LEMMA RoundSteps ==
  ASSUME AppleInv, A!Alarm \/ A!Unconfirmed \/ \E e \in round.listed : A!Call(e)
  PROVE  JobsTyped' /\ RoundMoves /\ ProjectMoves /\ \A j \in Job : Still(j)
<1>1. UNCHANGED <<apple_jobs, project, allocation, stops, helper, request, artifacts>>
  BY DEF A!Alarm, A!Unconfirmed, A!Call, A!mac
<1>2. lost' \in 0..JobFaults
  BY JobFacts DEF A!Alarm, A!Unconfirmed, A!Call, A!MayLose
<1>3. round \in RoundDoc
  BY JobFacts
<1>4. RoundMoves /\ round' \in RoundDoc
  <2>1. CASE A!Alarm
    <3>1. round' = [A!Sleep EXCEPT !.listed = {<<j, A!Status(j)>> : j \in A!Busy}]
      BY <2>1 DEF A!Alarm
    <3>2. round'.listed = {<<j, Status(j)>> : j \in {k \in Job : Status(k) \in Underway}}
      BY <3>1 DEF A!Sleep, A!Busy, A!Active, A!Status, Status, Underway
    <3>3. round'.call = {} /\ round' = [listed |-> round'.listed, call |-> round'.call]
      BY <3>1 DEF A!Sleep
    <3>4. round'.listed \subseteq Job \X Underway
      BY <3>2
    <3> QED
      BY <1>1, <3>2, <3>3, <3>4 DEF RoundMoves, RoundDoc
  <2>2. CASE A!Unconfirmed
    <3>1. round' = [round EXCEPT !.call = {}]
      BY <2>2 DEF A!Unconfirmed, A!Rest
    <3> QED
      BY <1>3, <3>1 DEF RoundMoves, RoundDoc
  <2>3. CASE \E e \in round.listed : A!Call(e)
    <3>1. PICK e \in round.listed : round' = [listed |-> round.listed \ {e}, call |-> {e}]
      BY <2>3 DEF A!Call
    <3>2. round'.listed = round.listed \ {e} /\ round'.call = {e}
      BY <3>1
    <3>3. round' \in RoundDoc
      BY <1>3, <3>1 DEF RoundDoc
    <3> QED
      BY <1>1, <3>2, <3>3 DEF RoundMoves
  <2> QED
    BY <2>1, <2>2, <2>3
<1> QED
  BY <1>1, <1>2, <1>4, JobFacts DEF JobsTyped, ProjectMoves, Still

\* The alarm is at the job whose call is awaited, which is still active.
LEMMA Calls ==
  ASSUME AppleInv, NEW j \in Job, NEW from \in SUBSET Underway, A!Calling(j, from)
  PROVE  /\ \E s \in from : round.call = {<<j, s>>}
         /\ Status(j) \in Underway
         /\ from = {"cancelling"} => Status(j) = "cancelling"
<1>1. PICK s \in from : round.call = {<<j, s>>}
  BY DEF A!Calling
<1>2. <<j, s>> \in round.listed \cup round.call /\ <<j, s>>[1] = j /\ <<j, s>>[2] = s
  BY <1>1
<1>3. \A e \in round.listed \cup round.call :
         Status(e[1]) \in Underway /\ (e[2] = "cancelling" => Status(e[1]) = "cancelling")
  BY DEF AppleInv, Rounds
<1> QED
  BY <1>1, <1>2, <1>3

LEMMA Resting ==
  ASSUME AppleInv, round' = A!Rest
  PROVE  round' \in RoundDoc /\ round'.call = {} /\ round'.listed = round.listed
BY JobFacts DEF A!Rest, RoundDoc

\* A shutdown, a registration, and what the scheduler does alone.
LEMMA PlaceStep ==
  ASSUME AppleInv, NEW j \in Job, NEW a \in Early \cup Late \cup {"running"},
         allocation' = [allocation EXCEPT ![j] = a], PlaceMoves(j), StopMoves(j), HelpMoves(j),
         UNCHANGED <<apple_jobs, request, artifacts>>,
         \A k \in Job : k # j => stops'[k] = stops[k] /\ helper'[k] = helper[k]
  PROVE  MovesOnly(j)
<1>1. DocMoves(j)
  BY DEF DocMoves
<1>2. \A k \in Job : k # j => allocation'[k] = allocation[k]
  BY JobFacts
<1> QED
  BY <1>1, <1>2 DEF MovesOnly, Moves, Still

LEMMA StopSteps ==
  ASSUME AppleInv, NEW j \in Job, A!NoteAllocations(j) \/ A!Deregister(j)
  PROVE  JobsTyped' /\ RoundMoves /\ ProjectMoves /\ MovesOnly(j)
<1>1. UNCHANGED <<apple_jobs, project, helper, request, artifacts, round, lost>>
  BY DEF A!NoteAllocations, A!Deregister
<1>2. stops \in [Job -> StopDoc] /\ allocation \in [Job -> Early \cup Late \cup {"running"}]
  BY JobFacts
<1>3. DocMoves(j) /\ HelpMoves(j)
  BY <1>1 DEF DocMoves, HelpMoves, Stock, Pc, Offered
<1>4. /\ stops' \in [Job -> StopDoc] /\ allocation' \in [Job -> Early \cup Late \cup {"running"}]
      /\ PlaceMoves(j) /\ StopMoves(j)
      /\ \A k \in Job : k # j => stops'[k] = stops[k] /\ allocation'[k] = allocation[k]
  <2>1. CASE A!NoteAllocations(j)
    <3> DEFINE new == [phase |-> "stop", seen |-> allocation[j] \notin {"none", "registered"}]
    <3>1. stops' = [stops EXCEPT ![j] = new] /\ allocation' = allocation /\ stops[j].phase = "none"
      BY <2>1 DEF A!NoteAllocations
    <3>2. new \in StopDoc /\ new.phase = "stop"
      BY DEF StopDoc
    <3> HIDE DEF new
    <3>3. stops'[j] = new /\ stops' \in [Job -> StopDoc] /\ \A k \in Job : k # j => stops'[k] = stops[k]
      BY <1>2, <3>1, <3>2
    <3> QED
      BY <1>2, <3>1, <3>2, <3>3 DEF PlaceMoves, StopMoves
  <2>2. CASE A!Deregister(j)
    <3> DEFINE new == [stops[j] EXCEPT !.phase = "observe"]
    <3>1. stops' = [stops EXCEPT ![j] = new] /\ stops[j].phase = "stop"
      BY <2>2 DEF A!Deregister
    <3>2. new \in StopDoc
      BY <1>2 DEF StopDoc
    <3> HIDE DEF new
    <3>3. stops' \in [Job -> StopDoc] /\ \A k \in Job : k # j => stops'[k] = stops[k]
      BY <1>2, <3>1, <3>2
    <3>4. PICK a \in Early \cup Late \cup {"running"} :
             /\ allocation' = [allocation EXCEPT ![j] = a]
             /\ allocation[j] \in Early => a = "ended"
             /\ allocation[j] \notin Early => a = allocation[j]
      BY <1>2, <2>2 DEF A!Deregister, Early, Late
    <3>5. allocation'[j] = a /\ allocation' \in [Job -> Early \cup Late \cup {"running"}]
          /\ \A k \in Job : k # j => allocation'[k] = allocation[k]
      BY <1>2, <3>4
    <3>6. PlaceMoves(j) /\ allocation'[j] \notin Early
      BY <3>4, <3>5 DEF PlaceMoves, Early
    <3> QED
      BY <3>1, <3>3, <3>5, <3>6 DEF StopMoves
  <2> QED
    BY <2>1, <2>2
<1>5. MovesOnly(j)
  BY <1>1, <1>3, <1>4 DEF MovesOnly, Moves, Still
<1> QED
  BY <1>1, <1>4, <1>5, JobFacts DEF JobsTyped, RoundMoves, ProjectMoves

\* A job ends in the answer of the scheduler.
LEMMA CancelledMoves ==
  ASSUME AppleInv, NEW j \in Job, A!Cancelled(j)
  PROVE  JobsTyped' /\ RoundMoves /\ ProjectMoves /\ MovesOnly(j)
<1>1. /\ UNCHANGED <<project, allocation, stops, helper, request, artifacts, lost>>
      /\ round' = A!Rest
      /\ apple_jobs' = [apple_jobs EXCEPT ![j].status = "cancelled"]
  BY DEF A!Cancelled, A!Set, A!mac
<1>2. /\ \E s \in Underway : round.call = {<<j, s>>}
      /\ Status(j) = "cancelling"
  <2>1. A!Calling(j, {"cancelling"}) /\ {"cancelling"} \in SUBSET Underway
    BY DEF A!Cancelled, Underway
  <2> QED
    BY <2>1, Calls
<1>3. /\ apple_jobs' \in [Job -> JobDoc] /\ Status(j)' = "cancelled" /\ Offered(j)' = Offered(j)
      /\ \A k \in Job : k # j => apple_jobs'[k] = apple_jobs[k]
  <2>1. apple_jobs \in [Job -> JobDoc] /\ "cancelled" \in Asked \cup Underway \cup Over
    BY JobFacts DEF Over, Ends
  <2> QED
    BY <1>1, <2>1, StatusSet
<1>4. allocation[j] \in Late \/ stops[j] = [phase |-> "observe", seen |-> FALSE]
  <2>1. stops[j].phase = "observe" /\ (stops[j].seen => allocation[j] # "running")
    BY DEF A!Cancelled, A!Stopped
  <2>2. allocation[j] \notin Early
    BY <2>1 DEF AppleInv, Placed
  <2>3. stops[j] \in StopDoc /\ allocation[j] \in Early \cup Late \cup {"running"}
    BY JobFacts
  <2>4. CASE stops[j].seen
    BY <2>1, <2>2, <2>3, <2>4
  <2>5. CASE ~stops[j].seen
    <3>1. stops[j] = [phase |-> stops[j].phase, seen |-> stops[j].seen] /\ stops[j].seen \in BOOLEAN
      BY <2>3 DEF StopDoc
    <3>2. stops[j].seen = FALSE
      BY <2>5, <3>1
    <3> QED
      BY <2>1, <3>1, <3>2
  <2> QED
    BY <2>4, <2>5
<1>5. round' \in RoundDoc /\ round'.call = {} /\ round'.listed = round.listed
  BY <1>1, Resting
<1>6. EndsTruly(j)
  <2>1. "cancelled" \in Over /\ Status(j) \in Underway
    BY <1>2 DEF Over, Ends, Underway
  <2> QED
    BY <1>2, <1>3, <1>4, <1>5, <2>1 DEF EndsTruly
<1>7. MovesOnly(j)
  <2>1. DocMoves(j)
    BY <1>6 DEF DocMoves
  <2> QED
    BY <1>1, <1>3, <2>1, DocStep
<1> QED
  BY <1>1, <1>3, <1>5, <1>7, JobFacts DEF JobsTyped, RoundMoves, ProjectMoves

LEMMA ObservedMoves ==
  ASSUME AppleInv, NEW j \in Job, A!Observed(j)
  PROVE  JobsTyped' /\ RoundMoves /\ ProjectMoves /\ MovesOnly(j)
<1>1. /\ UNCHANGED <<project, allocation, stops, helper, request, artifacts, lost>>
      /\ round' = A!Rest /\ allocation[j] # "none"
  BY DEF A!Observed, A!mac
<1>2. \E s \in Underway : round.call = {<<j, s>>}
  <2>1. A!Calling(j, {"queued", "running"}) /\ {"queued", "running"} \in SUBSET Underway
    BY DEF A!Observed, Underway
  <2>2. \E s \in {"queued", "running"} : round.call = {<<j, s>>}
    BY <2>1, Calls
  <2> QED
    BY <2>1, <2>2
<1>3. round' \in RoundDoc /\ round'.call = {} /\ round'.listed = round.listed
  BY <1>1, Resting
<1>4. apple_jobs \in [Job -> JobDoc] /\ allocation[j] \in Early \cup Late \cup {"running"}
  BY JobFacts
<1>5. CASE apple_jobs' = apple_jobs
  <2>1. DocMoves(j) /\ Offered(j)' = Offered(j)
    BY <1>5 DEF DocMoves, Offered
  <2>2. MovesOnly(j)
    BY <1>1, <1>5, <2>1, DocStep
  <2> QED
    BY <1>1, <1>3, <1>5, <2>2, JobFacts DEF JobsTyped, RoundMoves, ProjectMoves
<1>6. CASE apple_jobs' # apple_jobs
  <2>1. Status(j) \in {"queued", "running"} /\ allocation[j] \in {"running", "complete", "failed", "lost"}
    BY <1>1, <1>4, <1>6 DEF A!Observed, A!Observable, A!Status, Status, Early, Late
  <2>2. PICK s \in {"running"} \cup Over :
           /\ apple_jobs' = [apple_jobs EXCEPT ![j].status = s]
           /\ s = "running" => allocation[j] = "running"
           /\ s # "running" => allocation[j] # "running"
           /\ s = "succeeded" => apple_jobs[j].result = "succeeded" /\ allocation[j] = "complete"
    <3> DEFINE s == IF allocation[j] = "running" THEN "running" ELSE A!Outcome(j)
    <3>1. apple_jobs' = [apple_jobs EXCEPT ![j].status = s]
      BY <1>6, <2>1 DEF A!Observed
    <3>2. apple_jobs[j].result \in Ends \cup {"none"}
      BY <1>4 DEF JobDoc
    <3>3. A!Outcome(j) \in Over
          /\ (A!Outcome(j) = "succeeded" => apple_jobs[j].result = "succeeded" /\ allocation[j] = "complete")
      BY <3>2 DEF A!Outcome, A!Result, Over, Ends
    <3>4. s \in {"running"} \cup Over /\ "running" \notin Over
      BY <3>3 DEF Over, Ends
    <3>5. /\ s = "running" => allocation[j] = "running"
          /\ s # "running" => allocation[j] # "running"
          /\ s = "succeeded" => apple_jobs[j].result = "succeeded" /\ allocation[j] = "complete"
      BY <3>3, <3>4
    <3> HIDE DEF s
    <3> QED
      BY <3>1, <3>4, <3>5
  <2>3. /\ apple_jobs' \in [Job -> JobDoc] /\ Status(j)' = s /\ Offered(j)' = Offered(j)
        /\ apple_jobs'[j].result = apple_jobs[j].result
        /\ \A k \in Job : k # j => apple_jobs'[k] = apple_jobs[k]
    <3>1. s \in Asked \cup Underway \cup Over
      BY DEF Underway
    <3> QED
      BY <1>4, <2>2, <3>1, StatusSet
  <2>4. DocMoves(j)
    <3>1. CASE s = "running"
      BY <2>1, <2>3, <3>1 DEF DocMoves
    <3>2. CASE s # "running"
      <4>1. allocation[j] \in Late /\ s \in Over /\ Status(j) \in Underway /\ Status(j) # "cancelling"
        BY <2>1, <2>2, <3>2 DEF Late, Underway
      <4>2. EndsTruly(j)
        BY <1>2, <1>3, <2>2, <2>3, <4>1 DEF EndsTruly
      <4> QED
        BY <4>2 DEF DocMoves
    <3> QED
      BY <3>1, <3>2
  <2>5. MovesOnly(j)
    BY <1>1, <2>3, <2>4, DocStep
  <2> QED
    BY <1>1, <1>3, <2>3, <2>5, JobFacts DEF JobsTyped, RoundMoves, ProjectMoves
<1> QED
  BY <1>5, <1>6

\* The scheduler and the Mac.
LEMMA AllocationMoves ==
  ASSUME AppleInv, NEW j \in Job, A!Register(j) \/ A!Place(j) \/ A!Exit(j) \/ A!Lost(j)
  PROVE  JobsTyped' /\ RoundMoves /\ ProjectMoves /\ MovesOnly(j)
<1>1. UNCHANGED <<apple_jobs, project, stops, helper, request, artifacts, round>>
  BY DEF A!Register, A!Place, A!Exit, A!Lost
<1>2. lost' \in 0..JobFaults
  BY JobFacts DEF A!Register, A!Place, A!Exit, A!Lost, A!MayLose
<1>3. PICK a \in Early \cup Late \cup {"running"} :
        /\ allocation' = [allocation EXCEPT ![j] = a]
        /\ \/ allocation[j] = "none" /\ a = "registered" /\ Status(j) \in Underway
           \/ allocation[j] = "registered" /\ a = "pending"
           \/ allocation[j] = "running" /\ a \in Late
  <2>1. CASE A!Register(j)
    <3>1. A!Calling(j, {"queued"}) /\ {"queued"} \in SUBSET Underway
      BY <2>1 DEF A!Register, Underway
    <3>2. Status(j) \in Underway
      BY <3>1, Calls
    <3> QED
      BY <2>1, <3>2 DEF A!Register, Early
  <2>2. CASE A!Place(j)
    BY <2>2 DEF A!Place, Early
  <2>3. CASE A!Exit(j)
    <3>1. PICK a \in {"complete", "failed", "ended"} : allocation' = [allocation EXCEPT ![j] = a]
      BY <2>3 DEF A!Exit
    <3> QED
      BY <2>3, <3>1 DEF A!Exit, Late
  <2>4. CASE A!Lost(j)
    BY <2>4 DEF A!Lost, Late
  <2> QED
    BY <2>1, <2>2, <2>3, <2>4
<1>4. allocation \in [Job -> Early \cup Late \cup {"running"}]
  BY JobFacts
<1>5. allocation'[j] = a /\ allocation' \in [Job -> Early \cup Late \cup {"running"}]
  BY <1>3, <1>4
<1>6. PlaceMoves(j) /\ StopMoves(j) /\ HelpMoves(j)
  <2>1. PlaceMoves(j)
    BY <1>3, <1>5 DEF PlaceMoves
  <2>2. StopMoves(j) /\ HelpMoves(j)
    BY <1>1 DEF StopMoves, HelpMoves, Stock, Pc, Offered
  <2> QED
    BY <2>1, <2>2
<1>7. MovesOnly(j)
  BY <1>1, <1>3, <1>6, PlaceStep
<1> QED
  BY <1>1, <1>2, <1>5, <1>7, JobFacts DEF JobsTyped, RoundMoves, ProjectMoves

LEMMA RunMoves ==
  ASSUME AppleInv, NEW j \in Job, A!Run(j)
  PROVE  JobsTyped' /\ RoundMoves /\ ProjectMoves /\ MovesOnly(j)
<1> DEFINE new == [pc |-> "start", status |-> "none"]
<1>1. /\ UNCHANGED <<apple_jobs, project, stops, request, artifacts, round, lost>>
      /\ allocation' = [allocation EXCEPT ![j] = "running"] /\ allocation[j] = "pending"
      /\ helper' = [helper EXCEPT ![j] = new]
  BY DEF A!Run
<1>2. new \in HelperDoc /\ new.pc = "start"
  BY DEF HelperDoc
<1> HIDE DEF new
<1>3. /\ allocation \in [Job -> Early \cup Late \cup {"running"}] /\ helper \in [Job -> HelperDoc]
  BY JobFacts
<1>4. /\ allocation'[j] = "running" /\ Pc(j)' = "start" /\ helper' \in [Job -> HelperDoc]
      /\ allocation' \in [Job -> Early \cup Late \cup {"running"}]
      /\ \A k \in Job : k # j => helper'[k] = helper[k]
  BY <1>1, <1>2, <1>3 DEF Pc
<1>5. PlaceMoves(j) /\ StopMoves(j) /\ HelpMoves(j)
  <2>1. PlaceMoves(j)
    BY <1>1, <1>4 DEF PlaceMoves
  <2>2. StopMoves(j) /\ HelpMoves(j)
    BY <1>1, <1>4 DEF StopMoves, HelpMoves, Stock, Offered
  <2> QED
    BY <2>1, <2>2
<1>6. MovesOnly(j)
  BY <1>1, <1>4, <1>5, PlaceStep
<1> QED
  BY <1>1, <1>4, <1>6, JobFacts DEF JobsTyped, RoundMoves, ProjectMoves

\* What the helper asks for, where its documents move as told.
LEMMA HelpStep ==
  ASSUME AppleInv, NEW j \in Job, DocMoves(j), HelpMoves(j), apple_jobs' \in [Job -> JobDoc],
         helper' \in [Job -> HelperDoc], request' \in [Job -> Asking], artifacts' \subseteq Job,
         lost' \in 0..JobFaults, UNCHANGED <<project, allocation, stops, round>>,
         \A k \in Job : k # j => /\ apple_jobs'[k] = apple_jobs[k] /\ helper'[k] = helper[k]
                                 /\ request'[k] = request[k] /\ (k \in artifacts' <=> k \in artifacts)
  PROVE  JobsTyped' /\ RoundMoves /\ ProjectMoves /\ MovesOnly(j)
<1>1. PlaceMoves(j) /\ StopMoves(j)
  BY DEF PlaceMoves, StopMoves
<1>2. MovesOnly(j)
  BY <1>1 DEF MovesOnly, Moves, Still
<1> QED
  BY <1>2, JobFacts DEF JobsTyped, RoundMoves, ProjectMoves

LEMMA RequestSet ==
  ASSUME NEW j \in Job, request \in [Job -> Asking], NEW r \in Asking,
         request' = [request EXCEPT ![j] = r]
  PROVE  request' \in [Job -> Asking] /\ request'[j] = r /\ \A k \in Job : k # j => request'[k] = request[k]
OBVIOUS

LEMMA PcSet ==
  ASSUME NEW j \in Job, helper \in [Job -> HelperDoc],
         NEW p \in {"none", "start", "build", "artifact", "result", "exit"},
         helper' = [helper EXCEPT ![j].pc = p]
  PROVE  helper' \in [Job -> HelperDoc] /\ Pc(j)' = p /\ \A k \in Job : k # j => helper'[k] = helper[k]
<1> DEFINE new == [helper[j] EXCEPT !.pc = p]
<1>1. helper' = [helper EXCEPT ![j] = new]
  OBVIOUS
<1>2. helper[j] \in HelperDoc
  OBVIOUS
<1>3. new \in HelperDoc /\ new.pc = p
  BY <1>2 DEF HelperDoc
<1> HIDE DEF new
<1> QED
  BY <1>1, <1>3 DEF Pc

LEMMA SendMoves ==
  ASSUME AppleInv, NEW j \in Job,
         A!Send(j, "start", {"queued", "running"}) \/ A!Send(j, "artifact", {"running", "cancelling"})
  PROVE  JobsTyped' /\ RoundMoves /\ ProjectMoves /\ MovesOnly(j)
<1>1. PICK what \in {"start", "artifact"} :
        /\ allocation[j] = "running" /\ helper[j].pc = what /\ request[j] = "none"
        /\ request' = [request EXCEPT ![j] = what]
        /\ UNCHANGED <<apple_jobs, project, allocation, stops, helper, artifacts, round, lost>>
  BY DEF A!Send
<1>2. request' \in [Job -> Asking] /\ request'[j] = what /\ \A k \in Job : k # j => request'[k] = request[k]
  <2>1. request \in [Job -> Asking] /\ what \in Asking
    BY JobFacts DEF Asking
  <2> QED
    BY <1>1, <2>1, RequestSet
<1>3. DocMoves(j) /\ HelpMoves(j)
  BY <1>1, <1>2 DEF DocMoves, HelpMoves, Stock, Pc, Offered
<1> QED
  BY <1>1, <1>2, <1>3, HelpStep, JobFacts

LEMMA StartedMoves ==
  ASSUME AppleInv, NEW j \in Job, A!Started(j)
  PROVE  JobsTyped' /\ RoundMoves /\ ProjectMoves /\ MovesOnly(j)
<1>1. /\ UNCHANGED <<project, allocation, stops, helper, artifacts, round, lost>>
      /\ request[j] = "start"
  BY DEF A!Started
<1>2. PICK r \in {"token", "none"} : request' = [request EXCEPT ![j] = r]
  BY DEF A!Started
<1>3. request' \in [Job -> Asking] /\ request'[j] = r /\ \A k \in Job : k # j => request'[k] = request[k]
  <2>1. request \in [Job -> Asking] /\ r \in Asking
    BY JobFacts DEF Asking
  <2> QED
    BY <1>2, <2>1, RequestSet
<1>4. /\ apple_jobs' \in [Job -> JobDoc] /\ Offered(j)' = Offered(j) /\ DocMoves(j)
      /\ \A k \in Job : k # j => apple_jobs'[k] = apple_jobs[k]
  <2>1. apple_jobs \in [Job -> JobDoc] /\ "running" \in Asked \cup Underway \cup Over
    BY JobFacts DEF Underway
  <2>2. CASE A!Startable(j)
    <3>1. apple_jobs' = [apple_jobs EXCEPT ![j].status = "running"]
      BY <2>2 DEF A!Started
    <3>2. Status(j) \in {"queued", "running"}
      BY <2>2 DEF A!Startable, A!Status, Status
    <3>3. /\ apple_jobs' \in [Job -> JobDoc] /\ Status(j)' = "running" /\ Offered(j)' = Offered(j)
          /\ \A k \in Job : k # j => apple_jobs'[k] = apple_jobs[k]
      BY <2>1, <3>1, StatusSet
    <3> QED
      BY <3>2, <3>3 DEF DocMoves
  <2>3. CASE ~A!Startable(j)
    BY <2>1, <2>3 DEF A!Started, DocMoves, Offered
  <2> QED
    BY <2>2, <2>3
<1>5. HelpMoves(j)
  BY <1>1, <1>3, <1>4 DEF HelpMoves, Stock, Pc
<1> QED
  BY <1>1, <1>3, <1>4, <1>5, HelpStep, JobFacts

LEMMA ReleasedMoves ==
  ASSUME AppleInv, NEW j \in Job, A!TokenReleased(j)
  PROVE  JobsTyped' /\ RoundMoves /\ ProjectMoves /\ MovesOnly(j)
<1>1. /\ UNCHANGED <<apple_jobs, project, allocation, stops, artifacts, round, lost>>
      /\ request[j] = "token" /\ request' = [request EXCEPT ![j] = "none"]
  BY DEF A!TokenReleased, A!Reply
<1>2. request' \in [Job -> Asking] /\ request'[j] = "none" /\ \A k \in Job : k # j => request'[k] = request[k]
  <2>1. request \in [Job -> Asking] /\ "none" \in Asking
    BY JobFacts DEF Asking
  <2> QED
    BY <1>1, <2>1, RequestSet
<1>3. helper[j] \in HelperDoc /\ helper \in [Job -> HelperDoc]
  BY JobFacts
<1>4. PICK p \in {"none", "start", "build", "artifact", "result", "exit"} :
        /\ helper' = [helper EXCEPT ![j].pc = p]
        /\ p = Pc(j) \/ (p = "build" /\ Status(j) = "running")
  <2>1. Pc(j) \in {"none", "start", "build", "artifact", "result", "exit"}
    BY <1>3 DEF HelperDoc, Pc
  <2>2. CASE Status(j) = "running"
    BY <2>2 DEF A!TokenReleased, A!Releasable, A!Status, Status
  <2>3. CASE Status(j) # "running"
    BY <2>1, <2>3 DEF A!TokenReleased, A!Releasable, A!Status, Status, Pc
  <2> QED
    BY <2>2, <2>3
<1>5. helper' \in [Job -> HelperDoc] /\ Pc(j)' = p /\ \A k \in Job : k # j => helper'[k] = helper[k]
  BY <1>3, <1>4, PcSet
<1>6. DocMoves(j) /\ HelpMoves(j)
  BY <1>1, <1>2, <1>4, <1>5 DEF DocMoves, HelpMoves, Stock, Offered
<1> QED
  BY <1>1, <1>2, <1>5, <1>6, HelpStep, JobFacts

LEMMA BuildMoves ==
  ASSUME AppleInv, NEW j \in Job, A!Halted(j) \/ A!Built(j)
  PROVE  JobsTyped' /\ RoundMoves /\ ProjectMoves /\ MovesOnly(j)
<1>1. PICK s \in Ends : A!Build(j, s)
  BY DEF A!Halted, A!Built, Ends
<1>2. lost' \in 0..JobFaults
  BY JobFacts DEF A!Halted, A!Built, A!MayLose
<1> DEFINE new == [pc |-> "artifact", status |-> s]
<1>3. /\ UNCHANGED <<apple_jobs, project, allocation, stops, request, artifacts, round>>
      /\ helper[j].pc = "build" /\ helper' = [helper EXCEPT ![j] = new]
  BY <1>1 DEF A!Build
<1>4. new \in HelperDoc /\ new.pc = "artifact"
  BY DEF HelperDoc
<1> HIDE DEF new
<1>5. helper' \in [Job -> HelperDoc] /\ Pc(j)' = "artifact" /\ \A k \in Job : k # j => helper'[k] = helper[k]
  BY <1>3, <1>4, JobFacts DEF Pc
<1>6. DocMoves(j) /\ HelpMoves(j)
  BY <1>3, <1>5 DEF DocMoves, HelpMoves, Stock, Pc, Offered
<1> QED
  BY <1>2, <1>3, <1>5, <1>6, HelpStep, JobFacts

LEMMA PutMoves ==
  ASSUME AppleInv, NEW j \in Job, A!ObjectPut(j)
  PROVE  JobsTyped' /\ RoundMoves /\ ProjectMoves /\ MovesOnly(j)
<1>1. /\ UNCHANGED <<apple_jobs, project, allocation, stops, helper, round, lost>>
      /\ request[j] = "artifact" /\ request' = [request EXCEPT ![j] = "put"]
      /\ artifacts' = artifacts \cup {j}
  BY DEF A!ObjectPut
<1>2. request' \in [Job -> Asking] /\ request'[j] = "put" /\ \A k \in Job : k # j => request'[k] = request[k]
  <2>1. request \in [Job -> Asking] /\ "put" \in Asking
    BY JobFacts DEF Asking
  <2> QED
    BY <1>1, <2>1, RequestSet
<1>3. /\ artifacts' \subseteq Job /\ j \in artifacts'
      /\ \A k \in Job : k # j => (k \in artifacts' <=> k \in artifacts)
  BY <1>1, JobFacts
<1>4. DocMoves(j) /\ HelpMoves(j)
  BY <1>1, <1>2, <1>3 DEF DocMoves, HelpMoves, Pc, Offered
<1> QED
  BY <1>1, <1>2, <1>3, <1>4, HelpStep, JobFacts

\* An upload is recorded, or its object deleted.
LEMMA RecordedMoves ==
  ASSUME AppleInv, NEW j \in Job, A!Recorded(j)
  PROVE  JobsTyped' /\ RoundMoves /\ ProjectMoves /\ MovesOnly(j)
<1>1. /\ UNCHANGED <<project, allocation, stops, artifacts, round, lost>>
      /\ request[j] = "put" /\ request' = [request EXCEPT ![j] = "none"]
      /\ helper' = [helper EXCEPT ![j].pc = "result"]
      /\ apple_jobs' = [apple_jobs EXCEPT ![j].artifact = TRUE]
      /\ Status(j) \in Underway
  BY DEF A!Recorded, A!Reply, A!Step, A!Recordable, A!Status, Status, Underway
<1>2. /\ request' \in [Job -> Asking] /\ request'[j] = "none"
      /\ \A k \in Job : k # j => request'[k] = request[k]
  <2>1. request \in [Job -> Asking] /\ "none" \in Asking
    BY JobFacts DEF Asking
  <2> QED
    BY <1>1, <2>1, RequestSet
<1>3. helper' \in [Job -> HelperDoc] /\ Pc(j)' = "result" /\ \A k \in Job : k # j => helper'[k] = helper[k]
  BY <1>1, PcSet, JobFacts
<1>4. /\ apple_jobs' \in [Job -> JobDoc] /\ Status(j)' = Status(j) /\ Offered(j)'
      /\ \A k \in Job : k # j => apple_jobs'[k] = apple_jobs[k]
  BY <1>1, JobFacts DEF JobDoc, Status, Offered
<1>5. artifacts' \subseteq Job /\ j \in artifacts'
  BY <1>1, JobFacts DEF AppleInv, Stocked
<1>6. DocMoves(j) /\ HelpMoves(j)
  BY <1>1, <1>2, <1>3, <1>4, <1>5 DEF DocMoves, HelpMoves
<1> QED
  BY <1>1, <1>2, <1>3, <1>4, <1>5, <1>6, HelpStep, JobFacts

LEMMA UnwantedMoves ==
  ASSUME AppleInv, NEW j \in Job, A!Unwanted(j)
  PROVE  JobsTyped' /\ RoundMoves /\ ProjectMoves /\ MovesOnly(j)
<1>1. /\ UNCHANGED <<apple_jobs, project, allocation, stops, helper, artifacts, round, lost>>
      /\ request[j] = "put" /\ request' = [request EXCEPT ![j] = "delete"]
  BY DEF A!Unwanted
<1>2. /\ request' \in [Job -> Asking] /\ request'[j] = "delete"
      /\ \A k \in Job : k # j => request'[k] = request[k]
  <2>1. request \in [Job -> Asking] /\ "delete" \in Asking
    BY JobFacts DEF Asking
  <2> QED
    BY <1>1, <2>1, RequestSet
<1>3. DocMoves(j) /\ HelpMoves(j)
  BY <1>1, <1>2 DEF DocMoves, HelpMoves, Stock, Pc, Offered
<1> QED
  BY <1>1, <1>2, <1>3, HelpStep, JobFacts

LEMMA DeletedMoves ==
  ASSUME AppleInv, NEW j \in Job, A!Deleted(j)
  PROVE  JobsTyped' /\ RoundMoves /\ ProjectMoves /\ MovesOnly(j)
<1>1. /\ UNCHANGED <<apple_jobs, project, allocation, stops, round, lost>>
      /\ request[j] = "delete" /\ request' = [request EXCEPT ![j] = "none"]
      /\ helper' = [helper EXCEPT ![j].pc = "result"] /\ artifacts' = artifacts \ {j}
  BY DEF A!Deleted, A!Reply, A!Step
<1>2. /\ request' \in [Job -> Asking] /\ request'[j] = "none"
      /\ \A k \in Job : k # j => request'[k] = request[k]
  <2>1. request \in [Job -> Asking] /\ "none" \in Asking
    BY JobFacts DEF Asking
  <2> QED
    BY <1>1, <2>1, RequestSet
<1>3. helper' \in [Job -> HelperDoc] /\ Pc(j)' = "result" /\ \A k \in Job : k # j => helper'[k] = helper[k]
  BY <1>1, PcSet, JobFacts
<1>4. /\ artifacts' \subseteq Job /\ j \notin artifacts'
      /\ \A k \in Job : k # j => (k \in artifacts' <=> k \in artifacts)
  BY <1>1, JobFacts
<1>5. DocMoves(j) /\ HelpMoves(j)
  BY <1>1, <1>2, <1>3, <1>4 DEF DocMoves, HelpMoves, Offered
<1> QED
  BY <1>1, <1>2, <1>3, <1>4, <1>5, HelpStep, JobFacts

\* The upload fails, wherever its object is then.
LEMMA CutMoves ==
  ASSUME AppleInv, NEW j \in Job, A!UploadCut(j)
  PROVE  JobsTyped' /\ RoundMoves /\ ProjectMoves /\ MovesOnly(j)
<1>1. /\ UNCHANGED <<apple_jobs, project, allocation, stops, artifacts, round>>
      /\ request[j] \in Storing /\ request' = [request EXCEPT ![j] = "failed"]
      /\ helper' = [helper EXCEPT ![j].pc = "result"]
  BY DEF A!UploadCut, A!Step, Storing
<1>2. lost' \in 0..JobFaults
  BY JobFacts DEF A!UploadCut, A!MayLose
<1>3. /\ request' \in [Job -> Asking] /\ request'[j] = "failed"
      /\ \A k \in Job : k # j => request'[k] = request[k]
  <2>1. request \in [Job -> Asking] /\ "failed" \in Asking
    BY JobFacts DEF Asking
  <2> QED
    BY <1>1, <2>1, RequestSet
<1>4. helper' \in [Job -> HelperDoc] /\ Pc(j)' = "result" /\ \A k \in Job : k # j => helper'[k] = helper[k]
  BY <1>1, PcSet, JobFacts
<1>5. DocMoves(j) /\ HelpMoves(j)
  BY <1>1, <1>3, <1>4 DEF DocMoves, HelpMoves, Stock, Offered
<1> QED
  BY <1>1, <1>2, <1>3, <1>4, <1>5, HelpStep, JobFacts

LEMMA LeftMoves ==
  ASSUME AppleInv, NEW j \in Job, A!NotUploaded(j) \/ A!NotReported(j)
  PROVE  JobsTyped' /\ RoundMoves /\ ProjectMoves /\ MovesOnly(j)
<1>1. UNCHANGED <<apple_jobs, project, allocation, stops, request, artifacts, round>>
  BY DEF A!NotUploaded, A!NotReported
<1>2. lost' \in 0..JobFaults
  BY JobFacts DEF A!NotUploaded, A!NotReported, A!MayLose
<1>3. PICK p \in {"result", "exit"} :
        /\ helper' = [helper EXCEPT ![j].pc = p]
        /\ \/ p = "result" /\ Pc(j) = "artifact" /\ request[j] = "none"
           \/ p = "exit" /\ Pc(j) = "result"
  BY DEF A!NotUploaded, A!NotReported, A!Step, Pc
<1>4. helper' \in [Job -> HelperDoc] /\ Pc(j)' = p /\ \A k \in Job : k # j => helper'[k] = helper[k]
  BY <1>3, PcSet, JobFacts
<1>5. DocMoves(j) /\ HelpMoves(j)
  BY <1>1, <1>3, <1>4 DEF DocMoves, HelpMoves, Stock, Offered
<1> QED
  BY <1>1, <1>2, <1>4, <1>5, HelpStep, JobFacts

LEMMA ReportedMoves ==
  ASSUME AppleInv, NEW j \in Job, A!Reported(j)
  PROVE  JobsTyped' /\ RoundMoves /\ ProjectMoves /\ MovesOnly(j)
<1>1. /\ UNCHANGED <<project, allocation, stops, request, artifacts, round, lost>>
      /\ helper' = [helper EXCEPT ![j].pc = "exit"] /\ Pc(j) = "result"
  BY DEF A!Reported, A!Step, Pc
<1>2. helper' \in [Job -> HelperDoc] /\ Pc(j)' = "exit" /\ \A k \in Job : k # j => helper'[k] = helper[k]
  BY <1>1, PcSet, JobFacts
<1>3. /\ apple_jobs' \in [Job -> JobDoc] /\ Offered(j)' = Offered(j) /\ DocMoves(j)
      /\ \A k \in Job : k # j => apple_jobs'[k] = apple_jobs[k]
  <2>1. apple_jobs \in [Job -> JobDoc] /\ helper[j].status \in Ends \cup {"none"}
    BY JobFacts DEF HelperDoc
  <2>2. CASE apple_jobs' = apple_jobs
    BY <2>1, <2>2 DEF DocMoves, Offered
  <2>3. CASE apple_jobs' # apple_jobs
    <3>1. apple_jobs' = [apple_jobs EXCEPT ![j].result = helper[j].status] /\ Status(j) \in Underway
      BY <2>3 DEF A!Reported, A!Status, Status, Underway
    <3>2. /\ apple_jobs' \in [Job -> JobDoc] /\ Status(j)' = Status(j) /\ Offered(j)' = Offered(j)
          /\ \A k \in Job : k # j => apple_jobs'[k] = apple_jobs[k]
      BY <2>1, <3>1, ResultSet
    <3> QED
      BY <3>1, <3>2 DEF DocMoves
  <2> QED
    BY <2>2, <2>3
<1>4. HelpMoves(j)
  BY <1>1, <1>2, <1>3 DEF HelpMoves, Stock
<1> QED
  BY <1>1, <1>2, <1>3, <1>4, HelpStep, JobFacts

\* Every step is one of these moves.
LEMMA AppleMoves ==
  ASSUME AppleInv, A!Next \/ UNCHANGED appleVars
  PROVE  JobsTyped' /\ RoundMoves /\ ProjectMoves /\ \A j \in Job : Moves(j)
<1> DEFINE Promised == JobsTyped' /\ RoundMoves /\ ProjectMoves /\ \A j \in Job : Moves(j)
<1>1. ASSUME NEW j \in Job, A!Request(j) \/ A!Accessed(j) \/ A!Queued(j) \/ A!Cancel(j)
      PROVE  Promised
  BY <1>1, UserMoves, OthersStill
<1>2. CASE A!Unlink \/ A!RemoveProject \/ A!ProjectRemoved
  BY <1>2, ProjectSteps, StillMoves
<1>3. CASE A!Alarm \/ A!Unconfirmed \/ \E e \in round.listed : A!Call(e)
  BY <1>3, RoundSteps, StillMoves
<1>4. ASSUME NEW j \in Job,
             A!NoteAllocations(j) \/ A!Deregister(j) \/ A!Cancelled(j) \/ A!Register(j) \/ A!Observed(j)
      PROVE  Promised
  <2>1. JobsTyped' /\ RoundMoves /\ ProjectMoves /\ MovesOnly(j)
    BY <1>4, StopSteps, CancelledMoves, AllocationMoves, ObservedMoves
  <2> QED
    BY <2>1, OthersStill
<1>5. ASSUME NEW j \in Job,
             \/ A!Place(j) \/ A!Run(j) \/ A!Send(j, "start", {"queued", "running"})
             \/ A!Started(j) \/ A!TokenReleased(j) \/ A!Halted(j) \/ A!Built(j)
             \/ A!Send(j, "artifact", {"running", "cancelling"}) \/ A!ObjectPut(j)
             \/ A!Recorded(j) \/ A!Unwanted(j) \/ A!Deleted(j) \/ A!UploadCut(j)
             \/ A!NotUploaded(j) \/ A!Reported(j) \/ A!NotReported(j) \/ A!Exit(j) \/ A!Lost(j)
      PROVE  Promised
  <2>1. JobsTyped' /\ RoundMoves /\ ProjectMoves /\ MovesOnly(j)
    BY <1>5, AllocationMoves, RunMoves, SendMoves, StartedMoves, ReleasedMoves, BuildMoves,
       PutMoves, RecordedMoves, UnwantedMoves, DeletedMoves, CutMoves, LeftMoves, ReportedMoves
  <2> QED
    BY <2>1, OthersStill
<1>6. CASE UNCHANGED appleVars
  <2>1. \A j \in Job : Still(j)
    BY <1>6 DEF appleVars, Still
  <2>2. RoundMoves /\ ProjectMoves /\ JobsTyped'
    BY <1>6, JobFacts DEF appleVars, RoundMoves, ProjectMoves, JobsTyped
  <2> QED
    BY <2>1, <2>2, StillMoves
<1> QED
  <2>1. CASE A!AlarmStep
    BY <1>3, <1>4, <2>1 DEF A!AlarmStep
  <2>2. CASE A!MacStep
    BY <1>5, <2>2 DEF A!MacStep
  <2> QED
    BY <1>1, <1>2, <1>6, <2>1, <2>2 DEF A!Next

\* What a step leaves of a build that has ended or is being cancelled, and to whom
\* it releases the token of the source.
EndHeld ==
  \A j \in Job :
    /\ A!Status(j) \in A!Final => apple_jobs'[j] = apple_jobs[j]
    /\ A!Status(j) = "cancelling" => A!Status(j)' \in {"cancelling", "cancelled"}
TokenHeld ==
  \A j \in Job : helper[j].pc = "start" /\ helper'[j].pc = "build" => A!Status(j) = "running"

LEMMA AppleKept ==
  ASSUME AppleInv, A!Next \/ UNCHANGED appleVars
  PROVE  AppleInv' /\ EndHeld /\ TokenHeld
<1>1. JobsTyped' /\ RoundMoves /\ ProjectMoves /\ \A j \in Job : Moves(j)
  BY AppleMoves
<1>2. \A j \in Job : DocMoves(j) /\ HelpMoves(j)
  BY <1>1 DEF Moves
<1>3. Rounds'
  BY <1>1, <1>2, RoundsKept
<1>4. Placed'
  BY <1>1, PlacedKept
<1>5. Stocked'
  BY <1>1, StockedKept
<1>6. A!EndIsTrue'
  BY <1>1, EndsKept
<1>7. A!ActiveHasProject'
  BY <1>1, <1>2, ProjectKept
<1>8. EndHeld
  <2> SUFFICES ASSUME NEW j \in Job
               PROVE  /\ Status(j) \in Over => apple_jobs'[j] = apple_jobs[j]
                      /\ Status(j) = "cancelling" => Status(j)' \in {"cancelling", "cancelled"}
    BY DEF EndHeld, A!Status, A!Final, A!Result, Status, Over, Ends
  <2>1. DocMoves(j)
    BY <1>2
  <2>2. apple_jobs'[j] = apple_jobs[j] => Status(j)' = Status(j)
    BY DEF Status
  <2> QED
    BY <2>1, <2>2 DEF DocMoves, EndsTruly, Asked, Underway, Over, Ends
<1>9. TokenHeld
  <2> SUFFICES ASSUME NEW j \in Job, Pc(j) = "start", Pc(j)' = "build"
               PROVE  Status(j) = "running"
    BY DEF TokenHeld, A!Status, Status, Pc
  <2> QED
    BY <1>2 DEF HelpMoves
<1> QED
  BY <1>1, <1>3, <1>4, <1>5, <1>6, <1>7, <1>8, <1>9 DEF AppleInv

LEMMA AppleBegins ==
  ASSUME A!Init
  PROVE  AppleInv
<1>1. /\ apple_jobs = [j \in Job |-> [status |-> "none", result |-> "none", artifact |-> FALSE]]
      /\ allocation = [j \in Job |-> "none"]
      /\ stops = [j \in Job |-> [phase |-> "none", seen |-> FALSE]]
      /\ helper = [j \in Job |-> [pc |-> "none", status |-> "none"]]
      /\ request = [j \in Job |-> "none"] /\ artifacts = {} /\ lost = 0
      /\ round = [listed |-> {}, call |-> {}] /\ project = "linked"
  BY DEF A!Init, A!NoJob, A!Unstopped, A!Sleep
<1>2. /\ [status |-> "none", result |-> "none", artifact |-> FALSE] \in JobDoc
      /\ [phase |-> "none", seen |-> FALSE] \in StopDoc
      /\ [pc |-> "none", status |-> "none"] \in HelperDoc
      /\ [listed |-> {}, call |-> {}] \in RoundDoc
  BY DEF JobDoc, StopDoc, HelperDoc, RoundDoc, Asked
<1>3. \A j \in Job : /\ Status(j) = "none" /\ ~Offered(j)
                     /\ stops[j].phase = "none" /\ allocation[j] = "none" /\ request[j] = "none"
                     /\ Pc(j) = "none"
  BY <1>1 DEF Status, Offered, Pc
<1>4. JobsTyped
  BY <1>1, <1>2, WorkAssumption DEF JobsTyped, Early, Asking
<1>5. Rounds
  BY <1>1 DEF Rounds
<1>6. Placed /\ Stocked
  BY <1>1, <1>3 DEF Placed, Stocked, Storing
<1>7. A!EndIsTrue
  BY <1>3 DEF A!EndIsTrue, A!Status, Status, A!Final, A!Result
<1>8. A!ActiveHasProject
  BY <1>1 DEF A!ActiveHasProject
<1> QED
  BY <1>4, <1>5, <1>6, <1>7, <1>8 DEF AppleInv

LEMMA ApplePromises ==
  ASSUME AppleInv
  PROVE  A!TypeOK /\ A!EndIsTrue /\ A!ActiveHasProject /\ A!ArtifactsMatch
<1>1. \A j \in Job : /\ apple_jobs[j].status \in Asked \cup Underway \cup Over
                     /\ apple_jobs[j].result \in Ends \cup {"none"} /\ request[j] \in Asking
  BY JobFacts DEF JobDoc
<1>2. round.listed \subseteq Job \X Underway /\ round.call \subseteq Job \X Underway
  BY JobFacts DEF RoundDoc
<1>3. artifacts \subseteq Job /\ lost \in 0..JobFaults
  BY JobFacts
<1>4. A!TypeOK
  BY <1>1, <1>2, <1>3 DEF A!TypeOK, A!Status, A!Requesting, A!Active, A!Final, A!Result, Asked,
     Underway, Over, Ends, Asking
<1>5. A!ArtifactsMatch
  BY DEF AppleInv, Stocked, Offered, A!ArtifactsMatch
<1> QED
  BY <1>4, <1>5 DEF AppleInv

-----------------------------------------------------------------------------
(***************************************************************************)
(* All together.  In a behaviour one part moves; where the mailbox moves   *)
(* as in the runtime, a mutation has one command at a time.                *)
(***************************************************************************)

WorkInv == /\ AppleInv /\ PushInv /\ TokenInv /\ MailInv
           /\ focus # "relay" => OneOpen
StepHeld == EndHeld /\ TokenHeld /\ GrantHeld /\ SignedOut /\ OrderHeld /\ OutcomeHeld
All == <<focus, appleVars, pushesVars, tokensVars, relayVars>>

LEMMA WorkBegins == Init => WorkInv
<1> SUFFICES ASSUME Init PROVE WorkInv
  OBVIOUS
<1>1. A!Init /\ P!Init /\ S!Init /\ R!Init
  BY DEF Init
<1> QED
  BY <1>1, AppleBegins, PushesBegin, TokensBegin, MailBegins DEF WorkInv

LEMMA WorkKept == WorkInv /\ [Next]_All => WorkInv' /\ StepHeld
<1> SUFFICES ASSUME WorkInv, [Next]_All PROVE WorkInv' /\ StepHeld
  OBVIOUS
<1>1. A!Next \/ UNCHANGED appleVars
  BY Zenon DEF Next, All
<1>2. P!Next \/ UNCHANGED pushesVars
  BY Zenon DEF Next, All
<1>3. S!Next \/ UNCHANGED tokensVars
  BY Zenon DEF Next, All
<1>4. \/ focus = "relay" /\ R!Next
      \/ focus # "relay" /\ Q!Next
      \/ UNCHANGED relayVars
  BY DEF Next, All
<1>5. focus' = focus
  BY Zenon DEF Next, All
<1>6. AppleInv /\ PushInv /\ TokenInv /\ MailInv /\ (focus # "relay" => OneOpen)
  BY DEF WorkInv
<1>7. AppleInv' /\ EndHeld /\ TokenHeld
  BY <1>1, <1>6, AppleKept
<1>8. PushInv'
  BY <1>2, <1>6, PushesAreKept
<1>9. TokenInv' /\ GrantHeld /\ SignedOut
  BY <1>3, <1>6, TokensKept
<1>10. MailInv' /\ OrderHeld /\ OutcomeHeld
  <2>1. R!Next \/ (Q!Next /\ OneOpen) \/ UNCHANGED relayVars
    BY <1>4, <1>6
  <2> QED
    BY <1>6, <2>1, MailKept, RelayHolds
<1>11. focus' # "relay" => OneOpen'
  BY <1>4, <1>5, <1>6, OneOpenKept
<1> QED
  BY <1>7, <1>8, <1>9, <1>10, <1>11 DEF WorkInv, StepHeld

LEMMA WorkAlways == Spec => []WorkInv
<1>1. WorkInv /\ [Next]_All => WorkInv'
  BY WorkKept
<1> QED
  BY <1>1, WorkBegins, PTL DEF Spec, All

LEMMA WorkPromises == WorkInv => TypeOK /\ DoneOnce /\ OwnersExist
<1> SUFFICES ASSUME WorkInv PROVE TypeOK /\ DoneOnce /\ OwnersExist
  OBVIOUS
<1>1. AppleInv /\ PushInv /\ TokenInv /\ MailInv /\ (focus = "mailbox" => OneOpen)
  BY DEF WorkInv
<1>2. A!TypeOK /\ A!EndIsTrue /\ A!ActiveHasProject /\ A!ArtifactsMatch
  BY <1>1, ApplePromises
<1>3. P!TypeOK /\ P!PushKept /\ P!DeployedOnce
  BY <1>1, PushPromises
<1>4. S!TypeOK /\ S!TokenKept /\ S!GrantsOfMembers
  BY <1>1, TokenPromises
<1>5. R!TypeOK /\ R!MutationRunsOnce /\ (OneOpen => Q!UnknownHolds)
  BY <1>1, MailPromises
<1> QED
  BY <1>1, <1>2, <1>3, <1>4, <1>5 DEF TypeOK, DoneOnce, OwnersExist

\* The documents and rows of every part have the shape their handlers give them,
\* for any number of builds, pushes, tokens and commands (apple-jobs.ts, github.ts,
\* workspace.ts, fleet.ts).
THEOREM WorkTyped == Spec => []TypeOK
BY WorkAlways, WorkPromises, PTL

\* Work that was accepted is neither lost nor done twice, and is told to have been
\* done only if it was.  A push that was acknowledged waits or is deployed, again only
\* if the object stopped in between; requests that refresh the source token at once
\* keep a good one while none stops; a mutation of a machine runs at most once, is not
\* repeated while its outcome is unknown, and is a success only if it ran; a build
\* that succeeded has reported so, and what it offers is stored (github.ts:145-180 and
\* 515-545, workspace.ts:193-231, 354-400 and 442-461, fleet.ts:429-484,
\* apple-jobs.ts:136-156, apple-nomad.ts:88-137).
THEOREM DoneOnceAlways == Spec => []DoneOnce
BY WorkAlways, WorkPromises, PTL

\* An active build has its project, and a workspace has an installation only of a
\* member, wherever the one goes while the other is being asked for
\* (apple-jobs.ts:229-258, runtime.ts:205-215, github.ts:290-308).
THEOREM OwnersAlwaysExist == Spec => []OwnersExist
BY WorkAlways, WorkPromises, PTL

\* A credential leaves only for a build that runs at that moment, or for a workspace
\* that has the installation at that moment, although the authority was checked
\* before calls that take long (apple-jobs.ts:95-134, github.ts:161-171 and 358-366).
THEOREM ReleasesAlwaysHold == Spec => ReleasesHold
<1>1. WorkInv /\ [Next]_All => [TokenHeld]_A!vars /\ [GrantHeld]_S!vars /\ [SignedOut]_S!vars
  BY WorkKept DEF StepHeld
<1> QED
  BY <1>1, WorkAlways, PTL DEF Spec, All, ReleasesHold, A!TokenForRunning,
     S!ReleasedUnderGrant, S!DisconnectHolds, TokenHeld, GrantHeld, SignedOut

\* Mutations of a machine run in the order they were asked for, and an outcome that
\* was recorded, of a command or of a build, is not replaced by a later answer
\* (fleet.ts:429-484, apple-nomad.ts:110-111).
THEOREM OutcomesAlwaysHold == Spec => OutcomesHold
<1>1. WorkInv /\ [Next]_All => [OrderHeld]_R!vars /\ [OutcomeHeld]_R!vars /\ [EndHeld]_A!vars
  BY WorkKept DEF StepHeld
<1> QED
  BY <1>1, WorkAlways, PTL DEF Spec, All, OutcomesHold, R!OutcomesHold, R!MutationsInOrder,
     R!OutcomeIsFinal, A!EndIsFinal, OrderHeld, OutcomeHeld, EndHeld
=============================================================================
