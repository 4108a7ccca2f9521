---------------------------- MODULE MCDeployment ----------------------------
(* Small instances of Deployment.                                          *)
EXTENDS Deployment
Exposed     == {<<TRUE, "healthy">>}
Released    == Exposed \union {<<TRUE, "none">>}
New         == {<<FALSE, "none">>}
NewOrExposed == New \union Exposed
AnyDomain   == Released \union {<<TRUE, "pending">>}
NoFailures  == {}
NoLostPut   == FailureKinds \ {"put"}
AllFailures == FailureKinds
=============================================================================
