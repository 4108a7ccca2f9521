-------------------------- MODULE MCRegistryUpload --------------------------
(* Small instances of RegistryUpload.                                      *)
EXTENDS RegistryUpload, TLC
CONSTANTS a, b
MCData   == {a, b}
MCDigest == {<<a>>, <<a, b>>}

Patch(body, start) ==
  [method |-> "PATCH", body |-> body, start |-> start, digest |-> None]
Put(body, digest) ==
  [method |-> "PUT", body |-> body, start |-> -1, digest |-> digest]
Delete == [method |-> "DELETE", body |-> None, start |-> -1, digest |-> None]

\* Two chunks in order and a retry of the first, a finalization that brings
\* the last chunk, one that brings none, and a cancellation.
MCRequest == {Patch(a, 0), Patch(b, 1), Put(b, <<a, b>>), Put(None, <<a>>),
              Delete}
\* Without the cancellation, for three overlapping requests.
Uploads   == MCRequest \ {Delete}
\* Also requests without a range, and an empty PATCH.
WideRequest == MCRequest \union {Patch(a, -1), Patch(None, -1)}

Symmetry == Permutations(Op)
=============================================================================
