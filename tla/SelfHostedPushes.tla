--------------------------- MODULE SelfHostedPushes ---------------------------
(***************************************************************************)
(* Pushes to a repository and the deployments they ask for, in the self-   *)
(* hosted control plane (crates/control-plane, integrations.rs): webhooks  *)
(* and polling fill an outbox, which the controller drains into the queue  *)
(* of deployments.                                                         *)
(*                                                                         *)
(* One project with one service.  Commits are numbered in the order in     *)
(* which they were pushed.  A request is dated with the beginning of the   *)
(* transaction that creates it (created_at is now()) and is seen by others *)
(* when that commits, so beginning and commit are steps of their own, of   *)
(* the delivery of a webhook and of the poll.  The controller is one task, *)
(* whose every statement is a step, since a restart may end it between two *)
(* of them.                                                                *)
(***************************************************************************)
EXTENDS FiniteSets, Integers, Sequences

CONSTANTS
  MaxPushes,    \* bound: commits pushed
  MaxDeploys,   \* bound: deployments
  MaxStamps,    \* bound: transactions begun that may create a request
  PushTroubles, \* bound: restarts, refused calls
  Caller        \* deployments that set the webhook of the repository up

Commit == 1..MaxPushes
NoHead == 0
Sweep  == [pc |-> "rest", c |-> NoHead, queued |-> FALSE, at |-> 0]
Set    == {"unset", "list", "patch", "post"}

VARIABLES
  head,        \* GitHub: the branch
  sent,        \* deliveries on their way, or that may be repeated
  seen,        \* github_deliveries
  posts,       \* deliveries whose transaction is open: commit, and its beginning
  clock,       \* transactions begun
  request,     \* github_deploy_requests: status, created_at; history: what was done by then
  known,       \* github_branch_heads
  sweep,       \* the controller: next step, commit in hand, whether it was queued,
               \* the beginning of its transaction
  table,       \* deployments of the service, in order: commit, and whether a push asked
  busy,        \* whether one of them is active
  hooks,       \* GitHub: webhooks of the repository with our address
  setup,       \* per caller: the next step of ensure_repository_webhook
  hooklock,    \* its advisory lock
  bother       \* faults so far

shvars == <<head, sent, seen, posts, clock, request, known, sweep, table, busy, hooks, setup, hooklock, bother>>
hooking == <<hooks, setup, hooklock>>
outer   == <<head, sent, posts, clock>>

Init ==
  /\ head = NoHead /\ sent = {} /\ seen = {}
  /\ request = [c \in Commit |-> [status |-> "none", at |-> 0, after |-> {}]]
  /\ posts = {} /\ clock = 0
  /\ known = NoHead /\ sweep = Sweep /\ table = <<>> /\ busy = FALSE
  /\ hooks = 0 /\ setup = [k \in Caller |-> "unset"] /\ hooklock = 0 /\ bother = 0

Bother     == bother < PushTroubles /\ bother' = bother + 1
Is(c, s)   == request[c].status = s
\* What has left the queue, or is being marked so.
Past       == {e \in Commit : \/ Is(e, "queued") \/ Is(e, "superseded")
                              \/ sweep.pc = "mark" /\ sweep.queued /\ sweep.c = e}
\* ON CONFLICT DO NOTHING: the one that commits first is kept.
Insert(c, t) == request' = IF Is(c, "none")
                           THEN [request EXCEPT ![c] = [status |-> "pending", at |-> t, after |-> Past]]
                           ELSE request
-----------------------------------------------------------------------------
(* GitHub.                                                                 *)

Push ==
  /\ head < MaxPushes /\ head' = head + 1
  /\ sent' = IF hooks > 0 THEN sent \cup {head + 1} ELSE sent
  /\ UNCHANGED <<seen, posts, clock, request, known, sweep, table, busy, hooking, bother>>

\* receive_webhook: deliveries come in any order, more than once, or never.  Of a delivery
\* that is repeated, the first that commits counts; the others write nothing.
Open(c) ==
  /\ c \in sent \ seen /\ ~(\E p \in posts : p.c = c)
  /\ clock < MaxStamps /\ clock' = clock + 1
  /\ posts' = posts \cup {[c |-> c, at |-> clock + 1]}
  /\ UNCHANGED <<head, sent, seen, request, known, sweep, table, busy, hooking, bother>>

Deliver(p) ==
  /\ posts' = posts \ {p} /\ seen' = seen \cup {p.c}
  /\ Insert(p.c, p.at)
  /\ UNCHANGED <<head, sent, clock, known, sweep, table, busy, hooking, bother>>

Lose(c) ==
  /\ c \in sent /\ Bother /\ sent' = sent \ {c}
  /\ UNCHANGED <<head, seen, posts, clock, request, known, sweep, table, busy, hooking>>
-----------------------------------------------------------------------------
(* The controller: poll_github, then process_pushes.                       *)

Fetch ==
  /\ sweep.pc = "rest" /\ head # NoHead
  /\ sweep' = [sweep EXCEPT !.pc = "begin", !.c = head]
  /\ UNCHANGED <<outer, seen, request, known, table, busy, hooking, bother>>

\* The first head is a baseline; a later one asks for a deployment.
Moved == known \notin {NoHead, sweep.c}

\* The transaction of the poll; when it asks for nothing, it is one step.
Begin ==
  /\ sweep.pc = "begin"
  /\ IF Moved
     THEN /\ clock < MaxStamps /\ clock' = clock + 1
          /\ sweep' = [sweep EXCEPT !.pc = "compare", !.at = clock + 1]
          /\ UNCHANGED known
     ELSE known' = sweep.c /\ sweep' = Sweep /\ UNCHANGED clock
  /\ UNCHANGED <<head, sent, posts, seen, request, table, busy, hooking, bother>>

Compare ==
  /\ sweep.pc = "compare" /\ Insert(sweep.c, sweep.at)
  /\ known' = sweep.c /\ sweep' = Sweep
  /\ UNCHANGED <<outer, seen, table, busy, hooking, bother>>

BugNewest(c) == Is(c, "pending")
\* DISTINCT ON: the request that was created last, among the pending ones.
Newest(c) == Is(c, "pending") /\ \A e \in Commit : Is(e, "pending") => request[e].at <= request[c].at

\* A request that was refused is not tried again before its backoff ends, as it may
\* at any time.
Take(c) ==
  /\ sweep.pc = "rest" /\ Newest(c)
  /\ sweep' = [Sweep EXCEPT !.pc = "lock", !.c = c]
  /\ UNCHANGED <<outer, seen, request, known, table, busy, hooking, bother>>

BugAlready(c) == FALSE
Already(c) == \E r \in 1..Len(table) : table[r].commit = c

\* queue_deployment refuses while a deployment is active, or the runtime is not set up.
Queue ==
  LET c == sweep.c  ready == ~busy /\ Len(table) < MaxDeploys IN
  /\ sweep.pc = "lock"
  /\ IF ~Is(c, "pending") THEN sweep' = Sweep /\ UNCHANGED <<table, busy, bother>>
     ELSE IF Already(c)
     THEN sweep' = [sweep EXCEPT !.pc = "supersede", !.queued = TRUE] /\ UNCHANGED <<table, busy, bother>>
     ELSE \/ /\ ready /\ busy' = TRUE /\ table' = Append(table, [commit |-> c, pushed |-> TRUE])
             /\ sweep' = [sweep EXCEPT !.pc = "supersede", !.queued = TRUE]
             /\ UNCHANGED bother
          \/ /\ (IF ready THEN Bother ELSE UNCHANGED bother)
             /\ sweep' = [sweep EXCEPT !.pc = "mark"]
             /\ UNCHANGED <<table, busy>>
  /\ UNCHANGED <<outer, seen, request, known, hooking>>

BugOlder(c) == {}
\* Requests that a newer one has overtaken.
Older(c) == {e \in Commit : Is(e, "pending") /\ request[e].at < request[c].at}

Supersede ==
  /\ sweep.pc = "supersede" /\ sweep' = [sweep EXCEPT !.pc = "mark"]
  /\ request' = [e \in Commit |-> IF e \in Older(sweep.c) THEN [request[e] EXCEPT !.status = "superseded"]
                                  ELSE request[e]]
  /\ UNCHANGED <<outer, seen, known, table, busy, hooking, bother>>

Mark ==
  /\ sweep.pc = "mark" /\ sweep' = Sweep
  /\ request' = [request EXCEPT ![sweep.c].status = IF sweep.queued THEN "queued" ELSE "pending"]
  /\ UNCHANGED <<outer, seen, known, table, busy, hooking, bother>>
-----------------------------------------------------------------------------
(* The owner, the end of a deployment, restarts.                           *)

Manual(c) ==
  /\ ~busy /\ c <= head /\ Len(table) < MaxDeploys /\ busy' = TRUE
  /\ table' = Append(table, [commit |-> c, pushed |-> FALSE])
  /\ UNCHANGED <<outer, seen, request, known, sweep, hooking, bother>>

Finish ==
  /\ busy /\ busy' = FALSE
  /\ UNCHANGED <<outer, seen, request, known, sweep, table, hooking, bother>>

Restart ==
  /\ \/ sweep # Sweep \/ posts # {}
     \/ \E k \in Caller : setup[k] # "unset"
  /\ Bother /\ sweep' = Sweep /\ posts' = {}
  /\ setup' = [k \in Caller |-> "unset"] /\ hooklock' = 0
  /\ UNCHANGED <<head, sent, clock, seen, request, known, table, busy, hooks>>
-----------------------------------------------------------------------------
(* ensure_repository_webhook, which a deployment calls, under a lock.      *)

Ensure(k) ==
  /\ setup[k] = "unset" /\ hooklock = 0 /\ hooklock' = 1
  /\ setup' = [setup EXCEPT ![k] = "list"]
  /\ UNCHANGED <<outer, seen, request, known, sweep, table, busy, hooks, bother>>

ListHooks(k) ==
  /\ setup[k] = "list"
  /\ \/ setup' = [setup EXCEPT ![k] = IF hooks > 0 THEN "patch" ELSE "post"] /\ UNCHANGED <<hooklock, bother>>
     \/ Bother /\ setup' = [setup EXCEPT ![k] = "unset"] /\ hooklock' = 0
  /\ UNCHANGED <<outer, seen, request, known, sweep, table, busy, hooks>>

\* The answer may be lost; the branch is polled then.
SetHook(k) ==
  /\ setup[k] \in {"patch", "post"}
  /\ setup' = [setup EXCEPT ![k] = "unset"] /\ hooklock' = 0
  /\ \/ hooks' = hooks + (IF setup[k] = "post" THEN 1 ELSE 0) /\ UNCHANGED bother
     \/ Bother /\ UNCHANGED hooks
  /\ UNCHANGED <<outer, seen, request, known, sweep, table, busy>>
-----------------------------------------------------------------------------
Controller == Fetch \/ Begin \/ Compare \/ (\E c \in Commit : Take(c)) \/ Queue \/ Supersede \/ Mark

Next ==
  \/ Push \/ Controller \/ Finish \/ Restart
  \/ \E c \in Commit : Open(c) \/ Lose(c) \/ Manual(c)
  \/ \E p \in posts : Deliver(p)
  \/ \E k \in Caller : Ensure(k) \/ ListHooks(k) \/ SetHook(k)

Spec == Init /\ [][Next]_shvars
-----------------------------------------------------------------------------
(* Properties.                                                             *)

TypeOK ==
  /\ head \in 0..MaxPushes /\ known \in 0..MaxPushes
  /\ sent \subseteq Commit /\ seen \subseteq Commit
  /\ \A c \in Commit : request[c].status \in {"none", "pending", "queued", "superseded"}
  /\ \A k \in Caller : setup[k] \in Set

\* A push is deployed once, though its delivery is repeated, the poll finds it too,
\* and a restart may fall between the deployment and the mark (integrations.rs:1312).
DeployedOnce ==
  \A r, s \in 1..Len(table) :
    r < s /\ table[s].pushed => table[r].commit # table[s].commit

\* Once a newer request has left the queue, an older one is never deployed after it,
\* unless it was committed only then: what is in the queue is superseded by what is
\* newer, over refusals, backoffs and restarts (integrations.rs:1299, 1324-1327).
NewerStays ==
  \A r, s \in 1..Len(table) :
    r < s /\ table[r].pushed /\ table[s].pushed =>
      \/ request[table[r].commit].at < request[table[s].commit].at
      \/ table[r].commit \in request[table[s].commit].after

\* Finding: once a newer push is queued, an older request is never deployed later.  One
\* whose transaction commits after the newer was queued is dated before it, and nothing
\* supersedes it then.
OlderNeverLater ==
  \A r, s \in 1..Len(table) :
    r < s /\ table[r].pushed /\ table[s].pushed =>
      request[table[r].commit].at < request[table[s].commit].at

\* The repository has one webhook of ours, whatever is lost or restarted
\* (integrations.rs:471-528).
OneHook == hooks <= 1

\* Finding: what pushes deploy follows the branch.  A delivery that comes late asks
\* for its commit after a newer one.
FollowsBranch ==
  \A r, s \in 1..Len(table) :
    r < s /\ table[r].pushed /\ table[s].pushed => table[r].commit < table[s].commit
=============================================================================
