------------------------------ MODULE Registry ------------------------------
(***************************************************************************)
(* Image pushes to the hosted registry (registry.ts): blobs, which belong  *)
(* to the workspace, and the manifests and tags of its repositories, all   *)
(* of them objects of one bucket.                                          *)
(*                                                                         *)
(* A push of a manifest awaits the bucket for every descriptor, and for    *)
(* each of the objects it writes; the worker may end at any of them.  What *)
(* an upload does with the bytes of a blob is in RegistryUpload.           *)
(***************************************************************************)
EXTENDS FiniteSets

CONSTANTS
  Blob,   \* contents of layers and configurations
  Image,  \* manifests that refer to every blob
  Index,  \* manifests that refer to every image
  Repo,   \* repositories of the workspace
  Client  \* builders, each with one request at a time

VARIABLES
  blobs,      \* blobs stored
  manifests,  \* manifests of a repository, by digest
  tag,        \* what the tag of a repository names, or Untagged
  pushing     \* what each builder's request does

regvars == <<blobs, manifests, tag, pushing>>
bucket  == <<blobs, manifests, tag>>
Untagged == "untagged"
NoRepo   == "none"
Free == [pc |-> "free", repo |-> NoRepo, digest |-> Untagged, tagged |-> FALSE, left |-> {}]

Init ==
  /\ blobs = {} /\ manifests = [r \in Repo |-> {}] /\ tag = [r \in Repo |-> Untagged]
  /\ pushing = [c \in Client |-> Free]

Needs(d)       == IF d \in Image THEN Blob ELSE Image
Stored(r, d)   == IF d \in Image THEN blobs ELSE manifests[r]
At(c, pc)      == pushing[c].pc = pc
Step(c, pc)    == pushing' = [pushing EXCEPT ![c] = IF pc = "free" THEN Free ELSE [@ EXCEPT !.pc = pc]]
-----------------------------------------------------------------------------
\* handleRegistry, once the workspace has accepted the builder's credential.
Authorize(c, r, d, tagged) ==
  /\ At(c, "free")
  /\ pushing' = [pushing EXCEPT ![c] = [pc |-> "check", repo |-> r, digest |-> d, tagged |-> tagged,
                                        left |-> Needs(d)]]
  /\ UNCHANGED bucket

\* An upload that completes, or a mount of a blob the workspace has.
Upload(b) ==
  /\ b \notin blobs /\ blobs' = blobs \cup {b} /\ UNCHANGED <<manifests, tag, pushing>>

BugPresent(c, x) == TRUE
\* head finds the content, with the size the descriptor gives.
Present(c, x) == x \in Stored(pushing[c].repo, pushing[c].digest)

Check(c, x) ==
  /\ At(c, "check") /\ x \in pushing[c].left
  /\ IF Present(c, x)
     THEN pushing' = [pushing EXCEPT ![c].left = @ \ {x}, ![c].pc = IF pushing[c].left = {x} THEN "digest" ELSE "check"]
     ELSE Step(c, "free")
  /\ UNCHANGED bucket

\* The manifest under its digest, then under its tag.
PutDigest(c) ==
  LET p == pushing[c] IN
  /\ At(c, "digest") /\ manifests' = [manifests EXCEPT ![p.repo] = @ \cup {p.digest}]
  /\ Step(c, IF p.tagged THEN "tag" ELSE "free") /\ UNCHANGED <<blobs, tag>>

PutTag(c) ==
  LET p == pushing[c] IN
  /\ At(c, "tag") /\ tag' = [tag EXCEPT ![p.repo] = p.digest]
  /\ Step(c, "free") /\ UNCHANGED <<blobs, manifests>>

\* The bucket fails, or the worker ends: what was written stays.
Ends(c) ==
  /\ ~At(c, "free") /\ Step(c, "free") /\ UNCHANGED bucket
-----------------------------------------------------------------------------
Next ==
  \/ (\E b \in Blob : Upload(b))
  \/ \E c \in Client : \/ PutDigest(c) \/ PutTag(c) \/ Ends(c) \/ (\E x \in Blob \cup Image : Check(c, x))
                       \/ \E r \in Repo, d \in Image \cup Index, t \in BOOLEAN : Authorize(c, r, d, t)

Spec == Init /\ [][Next]_regvars
-----------------------------------------------------------------------------
(* Properties.                                                             *)

TypeOK ==
  /\ blobs \subseteq Blob /\ \A r \in Repo : manifests[r] \subseteq Image \cup Index
  /\ \A c \in Client : ~At(c, "free") => pushing[c].left \subseteq Needs(pushing[c].digest)

\* What a tag or a digest names can be pulled: its content is there at every depth,
\* under digests of its own, however pushes interleave and end (registry.ts:257-290).
Pullable ==
  \A r \in Repo :
    /\ tag[r] # Untagged => tag[r] \in manifests[r]
    /\ \A d \in manifests[r] : Needs(d) \subseteq Stored(r, d)
=============================================================================
