--------------------------- MODULE SelfHostedGitHub ---------------------------
(***************************************************************************)
(* The GitHub App of the self-hosted control plane: its registration, the  *)
(* linked owner, the sessions that rest on the link, the token of the      *)
(* owner, and the installations that may be deployed from (crates/         *)
(* control-plane, github_app.rs).                                          *)
(*                                                                         *)
(* A transaction that calls nobody is one step, taken when the advisory    *)
(* lock of the identity (74103904) is free.  The two that call GitHub with *)
(* the lock in hand, the refresh of the token and the synchronization,     *)
(* hold it over several steps.                                             *)
(***************************************************************************)
EXTENDS FiniteSets, Integers

CONSTANTS
  Person,        \* GitHub users
  Attempt,       \* browser authorizations: link and login
  Installation,  \* installations of the App
  Sees,          \* per person, the installations open to him
  MaxTokens,     \* bound: tokens issued
  GitFaults      \* bound: lost answers, restarts

Nobody  == "nobody"
NoToken == [person |-> Nobody, n |-> 0]
Free    == "free"
Sync    == "sync"
Work    == "work"       \* another request that needs the token
Holder  == {Sync, Work}

VARIABLES
  registered,  \* integration_secrets github.app: 0, or the registration kept
  linked,      \* github_owner
  token,       \* integration_secrets github.user
  grants,      \* github_installations
  flow,        \* github_flows, per attempt: purpose and whether it is used
  try,         \* per attempt: next step, person, and token in hand
  sessions,    \* owner_sessions of attempts: the person
  idlock,      \* the advisory lock of the identity
  use,         \* per holder: next step, the token it read, the list
  installed,   \* GitHub: installations of the App
  deleted,     \* webhooks of deleted installations, not handled yet
  spent,       \* GitHub: tokens that were exchanged for another
  revoked,     \* GitHub: tokens of an authorization that was revoked
  untold,      \* webhooks of revocations, not handled yet: the person
  outrun,      \* history: revoked tokens that were in hand when that was told
  issued,      \* tokens issued so far
  gaps         \* faults so far

ghvars == <<registered, linked, token, grants, flow, try, sessions, idlock, use,
            installed, deleted, spent, revoked, untold, outrun, issued, gaps>>
github == <<installed, deleted, spent, revoked, untold, outrun, issued>>
revocations == <<revoked, untold, outrun>>
local  == <<registered, linked, token, grants, sessions>>

NoTry == [pc |-> "rest", person |-> Nobody, n |-> 0]
NoFlow == [purpose |-> "none", used |-> FALSE]
NoUse == [pc |-> "rest", tok |-> NoToken, list |-> {}]

Init ==
  /\ registered = 0 /\ linked = Nobody /\ token = NoToken /\ grants = {}
  /\ flow = [a \in Attempt |-> NoFlow] /\ try = [a \in Attempt |-> NoTry]
  /\ sessions = {} /\ idlock = Free /\ use = [h \in Holder |-> NoUse]
  /\ installed = Installation /\ deleted = {} /\ spent = {} /\ issued = 0 /\ gaps = 0
  /\ revoked = {} /\ untold = {} /\ outrun = {}

Fault == gaps < GitFaults /\ gaps' = gaps + 1
-----------------------------------------------------------------------------
(* Registration.                                                           *)

BugVacant == TRUE
Vacant    == registered = 0

\* manifest_callback, of one of two registrations under way.
Register(k) ==
  /\ registered' = IF Vacant THEN k ELSE registered
  /\ UNCHANGED <<linked, token, grants, flow, try, sessions, idlock, use, github, gaps>>
-----------------------------------------------------------------------------
(* Link and login.                                                         *)

\* auth_start: the owner links, anyone may log in when there is a link.
Start(a, purpose) ==
  /\ registered # 0 /\ try[a].pc = "rest" /\ ~\E s \in sessions : s.of = a
  /\ purpose = "login" => linked # Nobody
  /\ flow' = [flow EXCEPT ![a] = [purpose |-> purpose, used |-> FALSE]]
  /\ try' = [try EXCEPT ![a] = [NoTry EXCEPT !.pc = "away"]]
  /\ UNCHANGED <<local, idlock, use, github, gaps>>

\* consume_flow: once; the flow has ended, or an unlink took it.
Consume(a) ==
  /\ try[a].pc = "away"
  /\ IF flow[a].purpose # "none" /\ ~flow[a].used
     THEN /\ flow' = [flow EXCEPT ![a].used = TRUE]
          /\ try' = [try EXCEPT ![a].pc = "exchange"]
     ELSE try' = [try EXCEPT ![a] = NoTry] /\ UNCHANGED flow
  /\ UNCHANGED <<local, idlock, use, github, gaps>>

\* The exchange of the code, and the identity behind it.
Exchange(a, p) ==
  /\ try[a].pc = "exchange" /\ issued < MaxTokens
  /\ issued' = issued + 1
  /\ try' = [try EXCEPT ![a] = [pc |-> "accept", person |-> p, n |-> issued + 1]]
  /\ UNCHANGED <<local, flow, idlock, use, installed, deleted, spent, revocations, gaps>>

BugMatches(a) == flow[a].purpose = "link" \/ linked = try[a].person
\* An owner is not replaced, and only the owner logs in.
Matches(a) ==
  /\ linked \in {Nobody, try[a].person}
  /\ flow[a].purpose = "login" => linked = try[a].person

\* accept_identity, in one transaction.
Accept(a) ==
  LET t == try[a] IN
  /\ t.pc = "accept" /\ idlock = Free
  /\ IF flow[a].used /\ Matches(a)
     THEN /\ linked' = t.person /\ token' = [person |-> t.person, n |-> t.n]
          /\ try' = [try EXCEPT ![a].pc = "session"]
     ELSE try' = [try EXCEPT ![a] = NoTry] /\ UNCHANGED <<linked, token>>
  /\ UNCHANGED <<registered, grants, sessions, flow, idlock, use, github, gaps>>

\* issue_session, after the transaction.
Issue(a) ==
  /\ try[a].pc = "session"
  /\ sessions' = sessions \cup {[of |-> a, person |-> try[a].person]}
  /\ try' = [try EXCEPT ![a] = NoTry]
  /\ UNCHANGED <<registered, linked, token, grants, flow, idlock, use, github, gaps>>

\* Logout, and the twelve hours of a session.
Logout(s) ==
  /\ sessions' = sessions \ {s}
  /\ UNCHANGED <<registered, linked, token, grants, flow, try, idlock, use, github, gaps>>

Unlink ==
  /\ idlock = Free /\ linked # Nobody
  /\ sessions' = {} /\ flow' = [a \in Attempt |-> NoFlow]
  /\ grants' = {} /\ linked' = Nobody /\ token' = NoToken
  /\ UNCHANGED <<registered, try, idlock, use, github, gaps>>
-----------------------------------------------------------------------------
(* The token and the installations.                                        *)

Step(h, pc) == use' = [use EXCEPT ![h].pc = pc]

\* user_token: read under the lock, which is kept when it has to be refreshed.
Read(h, old) ==
  /\ use[h].pc = "rest" /\ idlock = Free /\ token # NoToken
  /\ use' = [use EXCEPT ![h] = [pc |-> IF old THEN "refresh" ELSE "have", tok |-> token, list |-> {}]]
  /\ idlock' = IF old THEN h ELSE Free
  /\ UNCHANGED <<local, flow, try, github, gaps>>

\* GitHub exchanges a token once, and none that was revoked; an answer that is lost
\* ends the transaction.
Refresh(h) ==
  /\ use[h].pc = "refresh" /\ issued < MaxTokens
  /\ IF use[h].tok.n \in spent \cup revoked
     THEN /\ use' = [use EXCEPT ![h] = NoUse] /\ idlock' = Free
          /\ UNCHANGED <<spent, issued, gaps>>
     ELSE /\ spent' = spent \cup {use[h].tok.n} /\ issued' = issued + 1
          /\ \/ /\ use' = [use EXCEPT ![h].pc = "save", ![h].tok.n = issued + 1]
                /\ UNCHANGED <<idlock, gaps>>
             \/ Fault /\ use' = [use EXCEPT ![h] = NoUse] /\ idlock' = Free
  /\ UNCHANGED <<local, flow, try, installed, deleted, revocations>>

Save(h) ==
  /\ use[h].pc = "save" /\ token' = use[h].tok /\ idlock' = Free /\ Step(h, "have")
  /\ UNCHANGED <<registered, linked, grants, sessions, flow, try, github, gaps>>

Used ==
  /\ use[Work].pc = "have" /\ use' = [use EXCEPT ![Work] = NoUse]
  /\ UNCHANGED <<local, flow, try, idlock, github, gaps>>

\* synchronize: the lock is taken again, and kept over the list.
Lock ==
  /\ use[Sync].pc = "have" /\ idlock = Free
  /\ idlock' = Sync /\ Step(Sync, "list")
  /\ UNCHANGED <<local, flow, try, github, gaps>>

List ==
  /\ use[Sync].pc = "list"
  /\ use' = [use EXCEPT ![Sync].pc = "store", ![Sync].list = Sees[use[Sync].tok.person] \cap installed]
  /\ UNCHANGED <<local, flow, try, idlock, github, gaps>>

BugConnected == TRUE
\* An identity that was unlinked meanwhile is not brought back.
Connected == token # NoToken

Store ==
  /\ use[Sync].pc = "store"
  /\ grants' = IF Connected THEN use[Sync].list ELSE grants
  /\ idlock' = Free /\ use' = [use EXCEPT ![Sync] = NoUse]
  /\ UNCHANGED <<registered, linked, token, sessions, flow, try, github, gaps>>
-----------------------------------------------------------------------------
(* GitHub, and its webhooks.                                               *)

Uninstall(i) ==
  /\ i \in installed /\ installed' = installed \ {i} /\ deleted' = deleted \cup {i}
  /\ UNCHANGED <<local, flow, try, idlock, use, spent, revocations, issued, gaps>>

BugSettled == TRUE
\* The webhook waits for the lock.
Settled == idlock = Free

Forget(i) ==
  /\ i \in deleted /\ Settled
  /\ deleted' = deleted \ {i} /\ grants' = grants \ {i}
  /\ UNCHANGED <<registered, linked, token, sessions, flow, try, idlock, use, installed,
                 spent, revocations, issued, gaps>>

\* The tokens of a person that are exchanged and not accepted yet, and all that may
\* still be kept.
InHand(p) == {try[a].n : a \in {b \in Attempt : try[b].pc = "accept" /\ try[b].person = p}}
Saving == {use[h].tok : h \in {g \in Holder : use[g].pc = "save"}}
Holds(p) == InHand(p) \cup {t.n : t \in {u \in {token} \cup Saving : u.person = p}}

\* A person revokes the App at GitHub, at any moment; all his tokens are dead.
Revoke(p) ==
  /\ p \notin untold /\ ~ (Holds(p) \subseteq revoked)
  /\ revoked' = revoked \cup Holds(p) /\ untold' = untold \cup {p}
  /\ UNCHANGED <<local, flow, try, idlock, use, installed, deleted, spent, outrun, issued, gaps>>

BugDropped(p) == FALSE
\* It is the owner who revoked.
Dropped(p) == linked = p

\* The webhook of the revocation, under the lock: the sessions of the person and the
\* token of the owner go, the link stays.
Disown(p) ==
  /\ p \in untold /\ Settled
  /\ untold' = untold \ {p} /\ sessions' = {s \in sessions : s.person # p}
  /\ token' = IF Dropped(p) THEN NoToken ELSE token
  /\ outrun' = outrun \cup (InHand(p) \cap revoked)
  /\ UNCHANGED <<registered, linked, grants, flow, try, idlock, use, installed, deleted,
                 spent, revoked, issued, gaps>>

Restart ==
  /\ Fault /\ idlock' = Free
  /\ use' = [h \in Holder |-> NoUse] /\ try' = [a \in Attempt |-> NoTry]
  /\ UNCHANGED <<local, flow, github>>
-----------------------------------------------------------------------------
SignIn ==
  \/ \E a \in Attempt, purpose \in {"link", "login"} : Start(a, purpose)
  \/ \E a \in Attempt : Consume(a) \/ Accept(a) \/ Issue(a)
  \/ \E a \in Attempt, p \in Person : Exchange(a, p)
  \/ \E s \in sessions : Logout(s)
TokenStep ==
  \/ \E h \in Holder, old \in BOOLEAN : Read(h, old)
  \/ \E h \in Holder : Refresh(h) \/ Save(h)
  \/ Used \/ Lock \/ List \/ Store

Next ==
  \/ \E k \in 1..2 : Register(k)
  \/ SignIn \/ Unlink \/ TokenStep \/ Restart
  \/ \E i \in Installation : Uninstall(i) \/ Forget(i)
  \/ \E p \in Person : Revoke(p) \/ Disown(p)

Spec == Init /\ [][Next]_ghvars
-----------------------------------------------------------------------------
(* Properties.                                                             *)

TypeOK ==
  /\ registered \in 0..2 /\ linked \in Person \cup {Nobody}
  /\ grants \subseteq Installation /\ idlock \in Holder \cup {Free}
  /\ token.n \in 0..MaxTokens /\ issued \in 0..MaxTokens

\* The App and the identity are set once: a registration is never replaced, and an
\* owner gives way to another only through an unlink (github_app.rs:302-310, 413-420).
SetOnce ==
  [][/\ registered # 0 => registered' = registered
     /\ linked # Nobody => linked' \in {linked, Nobody}]_ghvars

\* Without a link there is neither token nor grant, whatever was on its way when the
\* link was cut (github_app.rs:573-580, 698-732).
UnlinkedIsClean == linked = Nobody => token = NoToken /\ grants = {}

\* Once the deletion of an installation is handled, no list that was read before
\* brings it back (github_app.rs:555-587, 757-770).
GrantsExist == grants \subseteq installed \cup deleted

\* The token that is kept was not exchanged before, unless an answer was lost.  If its
\* person revoked it, either the webhook that says so is still to come, or it came
\* while the token was on its way from the exchange to its acceptance
\* (github_app.rs:387-424, 478-514, 769-783).
TokenUsable ==
  /\ gaps = 0 /\ idlock = Free /\ token # NoToken => token.n \notin spent
  /\ token.n \in revoked => token.person \in untold \/ token.n \in outrun

\* Finding: a token is not kept once its revocation was handled.  One that was
\* exchanged before is accepted after it, and nothing tells again that it is dead.
RevokedIsDropped == token.n \in revoked => token.person \in untold

\* Finding: the grants are those of the owner.  A synchronization keeps the list of
\* an identity that was replaced while it waited for the lock.
GrantsOfOwner == linked # Nobody => grants \subseteq Sees[linked]

\* Finding: an unlink ends the sessions that rest on the link.  One that is issued
\* after it is valid again when the same person is linked.
UnlinkEnds ==
  [][\A s \in sessions' \ sessions : linked = s.person /\ flow[s.of].used]_ghvars
=============================================================================
