--------------------------- MODULE UploadContract ---------------------------
(***************************************************************************)
(* What an upload promises to its clients, without leases, operations,     *)
(* crashes or objects: acknowledged bytes only grow, and completing makes  *)
(* exactly the acknowledged bytes readable under their digest.             *)
(***************************************************************************)
EXTENDS Sequences

CONSTANTS Data, Digest

VARIABLES
  phase,      \* "absent", "open", "complete", "cancelled" or "gone"
  content,    \* the bytes acknowledged so far
  readable    \* digests that can be pulled

vars == <<phase, content, readable>>

Init == phase = "absent" /\ content = <<>> /\ readable = {}

Create == /\ phase = "absent" /\ phase' = "open"
          /\ UNCHANGED <<content, readable>>

AppendBytes == /\ phase = "open"
               /\ \E d \in Data : content' = Append(content, d)
               /\ UNCHANGED <<phase, readable>>

\* Blobs belong to the workspace: they appear at any time and stay.
Publish == /\ \E d \in Digest : readable' = readable \union {d}
           /\ UNCHANGED <<phase, content>>

Complete == /\ phase = "open" /\ content \in readable
            /\ phase' = "complete"
            /\ UNCHANGED <<content, readable>>

\* By the client, or by inactivity even after completion.
Abandon == /\ phase \in {"open", "complete"} /\ phase' = "cancelled"
           /\ UNCHANGED <<content, readable>>

Forget == /\ phase = "cancelled" /\ phase' = "gone" /\ content' = <<>>
          /\ UNCHANGED readable

Next == Create \/ AppendBytes \/ Publish \/ Complete \/ Abandon \/ Forget

Spec == Init /\ [][Next]_vars
=============================================================================
