--------------------------- MODULE LeaseContract ---------------------------
(***************************************************************************)
(* What the lease manager promises to the rest of the Gate, without locks, *)
(* index or tasks: a register of leases in which a lease is issued or      *)
(* handed down from one in force, is spent only while it is in force, and  *)
(* ends, together with all that was handed down from it when it is         *)
(* withdrawn.  LeaseManager implements it.                                 *)
(***************************************************************************)
EXTENDS Naturals

CONSTANTS
    LeaseId,     \* lease identifiers
    Permission,  \* what a lease may permit
    None         \* a lease that was not handed down has no lease above it

VARIABLE
    register   \* of each lease: its standing ("none", "inForce", "lapsed" or
               \* "withdrawn"), the lease above it, what it permits, its uses

\* All that was handed down from l, directly or not.
HandedDown(r, l) ==
    {d \in LeaseId :
        \A S \in SUBSET LeaseId :
            (\A c \in LeaseId : r[c].above \in {l} \cup S => c \in S) => d \in S}

\* The register once the leases of S have ended.
Ended(r, S, standing) ==
    [l \in LeaseId |-> IF l \in S THEN [r[l] EXCEPT !.standing = standing] ELSE r[l]]

ContractInit ==
    register = [l \in LeaseId |->
        [standing |-> "none", above |-> None, permits |-> {}, spent |-> 0]]

\* A lease that has just come into force.
Fresh(above, P) == [standing |-> "inForce", above |-> above, permits |-> P, spent |-> 0]

Issue(l) ==
    /\ register[l].standing = "none"
    /\ \E P \in SUBSET Permission : register' = [register EXCEPT ![l] = Fresh(None, P)]

\* Nothing is handed down from a lease that has ended, or beyond what it permits.
HandDown(l, p) ==
    /\ register[l].standing = "none"
    /\ register[p].standing = "inForce"
    /\ \E P \in SUBSET register[p].permits : register' = [register EXCEPT ![l] = Fresh(p, P)]

Spend(l) ==
    /\ register[l].standing = "inForce"
    /\ register' = [register EXCEPT ![l].spent = @ + 1]

\* Leases in force lapse; what was handed down from them need not.
Lapse(S) ==
    /\ \A l \in S : register[l].standing = "inForce"
    /\ register' = Ended(register, S, "lapsed")

\* A lease is withdrawn with all that was handed down from it, in one step.
Withdraw(l) ==
    /\ register[l].standing # "none"
    /\ register' = Ended(register, {l} \cup HandedDown(register, l), "withdrawn")

ContractNext ==
    \/ \E S \in SUBSET LeaseId : Lapse(S)
    \/ \E l \in LeaseId : Issue(l) \/ Spend(l) \/ Withdraw(l)
    \/ \E l, p \in LeaseId : HandDown(l, p)

ContractSpec == ContractInit /\ [][ContractNext]_register

=============================================================================
