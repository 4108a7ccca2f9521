------------------------------ MODULE MCFleet -------------------------------
(* Small instances of Fleet.                                               *)
EXTENDS Fleet, TLC
\* Monitored only, or provisioned.
Reports == {[key |-> NoKey, nomad |-> FALSE]} \cup [key : Key, nomad : {TRUE}]
Symmetry == Permutations(Request) \cup Permutations(Grant)
            \cup Permutations(Machine) \cup Permutations(Key)
=============================================================================
