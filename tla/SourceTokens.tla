---------------------------- MODULE SourceTokens ----------------------------
(***************************************************************************)
(* Credentials for source code (github.ts): the token a user got by        *)
(* signing in, refreshed by whichever request finds that it has expired,   *)
(* the installations granted to a workspace, and the repository            *)
(* credentials minted from both.                                           *)
(*                                                                         *)
(* One user, one workspace and one installation.  Tokens are numbered; a   *)
(* refresh token is good once.  A request awaits D1 or GitHub between its  *)
(* steps.                                                                  *)
(***************************************************************************)
EXTENDS FiniteSets, Integers

CONSTANTS
  Request,      \* requests under way
  MaxTokens,    \* bound: tokens ever issued
  TokenFaults   \* bound: workers that stop, lost answers of GitHub, locks that run
                \* out under a request that has them

VARIABLES
  github_token,   \* D1: the token stored, or 0
  expired,        \* tokens that are to be refreshed
  lock,           \* token_refresh_lock: the request that has it, or "free"
  good,           \* GitHub: tokens it accepts
  spent,          \* GitHub: tokens it was asked to refresh
  issued,
  member, grant,  \* D1: the membership, and the installation of the workspace
  work,           \* the requests: next step, token found, and token in use
  mishaps

vars == <<github_token, expired, lock, good, spent, issued, member, grant, work,
          mishaps>>
provider  == <<expired, good, spent, issued>>
directory == <<github_token, member, grant>>

Free   == "free"
NoWork == [pc |-> "none", row |-> 0, token |-> 0]
Mishap == mishaps < TokenFaults /\ mishaps' = mishaps + 1

Init ==
  /\ github_token = 1 /\ good = {1} /\ issued = 1
  /\ expired = {} /\ spent = {}
  /\ lock = Free
  /\ member = TRUE /\ grant = TRUE
  /\ work = [r \in Request |-> NoWork]
  /\ mishaps = 0

At(r, pc)     == work[r].pc = pc
To(r, pc)     == work' = [work EXCEPT ![r].pc = pc]
Hold(r, w)    == work' = [work EXCEPT ![r] = w]
New           == issued + 1
Issue(tokens) == issued' = New /\ issued < MaxTokens /\ good' = tokens \cup {New}
-----------------------------------------------------------------------------
(* userToken.                                                              *)

ReadToken(r) ==
  /\ At(r, "none") /\ github_token # 0
  /\ Hold(r, [pc |-> IF github_token \in expired THEN "lock" ELSE "use",
              row |-> github_token, token |-> github_token])
  /\ UNCHANGED <<directory, provider, lock, mishaps>>

BugLockable(r) == github_token = work[r].row
\* The lock is free, and the token is still the one that was read.
Lockable(r) == github_token = work[r].row /\ lock = Free

Lock(r) ==
  /\ At(r, "lock")
  /\ IF Lockable(r) THEN lock' = r /\ To(r, "refresh")
     ELSE UNCHANGED lock /\ Hold(r, NoWork)
  /\ UNCHANGED <<directory, provider, mishaps>>

\* GitHub takes the old token for a new one.
Refresh(r) ==
  LET old == work[r].row IN
  /\ At(r, "refresh")
  /\ spent' = spent \cup {old}
  /\ IF old \in good
     THEN Issue(good \ {old}) /\ Hold(r, [pc |-> "save", row |-> old, token |-> New])
     ELSE UNCHANGED <<issued, good>> /\ Hold(r, [pc |-> "unlock", row |-> old, token |-> 0])
  /\ UNCHANGED <<directory, expired, lock, mishaps>>

RefreshLost(r) ==
  /\ At(r, "refresh") /\ Mishap
  /\ spent' = spent \cup {work[r].row} /\ good' \in {good, good \ {work[r].row}}
  /\ Hold(r, [pc |-> "unlock", row |-> work[r].row, token |-> 0])
  /\ UNCHANGED <<directory, expired, issued, lock>>

BugReplaces(r) == TRUE
\* The new token replaces the one it was made from, and no other.
Replaces(r) == github_token = work[r].row

Save(r) ==
  /\ At(r, "save")
  /\ github_token' = IF Replaces(r) THEN work[r].token ELSE github_token
  /\ Hold(r, [work[r] EXCEPT !.pc = "unlock", !.token = IF Replaces(r) THEN @ ELSE 0])
  /\ UNCHANGED <<provider, member, grant, lock, mishaps>>

Unlock(r) ==
  /\ At(r, "unlock") /\ lock' = Free
  /\ IF work[r].token = 0 THEN Hold(r, NoWork) ELSE To(r, "use")
  /\ UNCHANGED <<directory, provider, mishaps>>

\* A worker stops; a lock is over after 30 seconds, be it that nobody releases it or
\* that the request which has it still waits for GitHub.
Stop(r) ==
  /\ ~At(r, "none") /\ Mishap /\ Hold(r, NoWork)
  /\ UNCHANGED <<directory, provider, lock>>

LockEnds ==
  /\ lock # Free /\ lock' = Free
  /\ IF work[lock].pc \in {"refresh", "save", "unlock"} THEN Mishap ELSE UNCHANGED mishaps
  /\ UNCHANGED <<directory, provider, work>>
-----------------------------------------------------------------------------
(* What the token is for: a repository credential, or an installation.     *)

\* The repository, its installation and the credential are asked for.
Mint(r) ==
  /\ At(r, "use") /\ grant /\ work[r].token \in good /\ To(r, "minted")
  /\ UNCHANGED <<directory, provider, lock, mishaps>>

BugStillGranted == github_token # 0
StillGranted == grant /\ member /\ github_token # 0

\* The credential is released if the grant is still there.
Release(r) ==
  /\ At(r, "minted")
  /\ IF StillGranted THEN To(r, "released") ELSE Hold(r, NoWork)
  /\ UNCHANGED <<directory, provider, lock, mishaps>>

\* The installations of the user are listed, and one saved: by the callback of an
\* installation, or by a synchronization.
Accessible(r) ==
  /\ At(r, "use") /\ work[r].token \in good /\ To(r, "accessible")
  /\ UNCHANGED <<directory, provider, lock, mishaps>>

BugMayGrant == TRUE
\* The user still is a member, connected and signed in.
MayGrant == member /\ github_token # 0

SaveInstallation(r) ==
  /\ At(r, "accessible") /\ Hold(r, NoWork)
  /\ grant' = (grant \/ MayGrant)
  /\ UNCHANGED <<github_token, member, provider, lock, mishaps>>

\* GitHub refuses the token, or the request is done.
Done(r) ==
  /\ \/ At(r, "use") /\ (work[r].token \notin good \/ ~grant)
     \/ At(r, "released")
  /\ Hold(r, NoWork)
  /\ UNCHANGED <<directory, provider, lock, mishaps>>
-----------------------------------------------------------------------------
(* The user, the owner of the workspace, and GitHub.                       *)

SignIn ==
  /\ Issue(good) /\ github_token' = New
  /\ UNCHANGED <<expired, spent, member, grant, lock, work, mishaps>>

\* DELETE identity.
Disconnect ==
  /\ github_token' = 0 /\ grant' = FALSE
  /\ UNCHANGED <<member, provider, lock, work, mishaps>>

\* The webhook of a revoked authorization.
Revoke ==
  /\ github_token' = 0 /\ grant' = FALSE /\ good' = {}
  /\ UNCHANGED <<member, expired, spent, issued, lock, work, mishaps>>

\* The webhook of an installation that is deleted or suspended, or its removal
\* from the workspace by a synchronization.
Uninstall ==
  /\ grant' = FALSE
  /\ UNCHANGED <<github_token, member, provider, lock, work, mishaps>>

RemoveMember ==
  /\ member' = FALSE /\ grant' = FALSE
  /\ UNCHANGED <<github_token, provider, lock, work, mishaps>>

AddMember ==
  /\ member' = TRUE
  /\ UNCHANGED <<github_token, grant, provider, lock, work, mishaps>>

Expire ==
  /\ github_token # 0 /\ expired' = expired \cup {github_token}
  /\ UNCHANGED <<directory, good, spent, issued, lock, work, mishaps>>
-----------------------------------------------------------------------------
Next ==
  \/ \E r \in Request :
       \/ ReadToken(r) \/ Lock(r) \/ Refresh(r) \/ RefreshLost(r) \/ Save(r) \/ Unlock(r)
       \/ Stop(r) \/ Mint(r) \/ Release(r) \/ Accessible(r) \/ SaveInstallation(r) \/ Done(r)
  \/ LockEnds \/ SignIn \/ Disconnect \/ Revoke \/ Uninstall \/ RemoveMember \/ AddMember
  \/ Expire

Spec == Init /\ [][Next]_vars
-----------------------------------------------------------------------------
(* Properties.                                                             *)

TypeOK ==
  /\ github_token \in 0..issued /\ lock \in Request \cup {Free}
  /\ good \cup spent \cup expired \subseteq 1..issued
  /\ \A r \in Request : work[r].row \in 0..issued /\ work[r].token \in 0..issued

\* Requests that refresh a token at once never lose it, while no worker stops, no
\* answer is lost and each takes less than the 30 seconds of its lock: the token
\* stored is one that GitHub accepts, or its successor is about to be stored, and
\* GitHub is not asked twice (github.ts:145-180).
TokenKept ==
  mishaps = 0 =>
    /\ github_token # 0 => \/ github_token \in good
                           \/ \E r \in Request : At(r, "save") /\ Replaces(r)
    /\ \A r \in Request : At(r, "refresh") => work[r].row \notin spent

\* A user who has disconnected stays so until they sign in, whatever refresh was
\* under way; a workspace has an installation only of a member (github.ts:161-171,
\* 290-308).
DisconnectHolds ==
  [][github_token = 0 /\ github_token' # 0 => issued' > issued]_vars
GrantsOfMembers == grant => member /\ github_token # 0

\* A credential reaches a caller only while the workspace has the installation,
\* although it may have been taken away since the caller began (github.ts:358-366).
ReleasedUnderGrant ==
  [][\A r \in Request : work[r].pc # "released" /\ work'[r].pc = "released" => grant /\ member]_vars
=============================================================================
