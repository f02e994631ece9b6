---------------------------- MODULE MCRegistries ----------------------------
(* Instances of the registries of the node for TLC: the quota and the keys of *)
(* proposals, the delegations, the claims, the reputation log, the list of     *)
(* certificates.  They do not touch each other: a behaviour is one of them.    *)
EXTENDS Propose, Delegation, ClaimRegistry, ReputationLog, Certifications, TLC

VARIABLE part

CONSTANT e1

Chain2    == <<11, 12>>
Small     == e1 :> 2
Amounts   == {-1}
Symmetric == Permutations(Thread) \cup Permutations(Claim) \cup Permutations(Agent)

Init ==
  /\ part \in {"propose", "delegation", "claims", "log", "certs"}
  /\ ProposeInit /\ DelegationInit /\ ClaimInit /\ LogInit /\ CertsInit

Proposals   == /\ part = "propose" /\ ProposeNext
               /\ UNCHANGED <<part, delegationVars, claimVars, logVars, certVars>>
Delegations == /\ part = "delegation" /\ DelegationNext
               /\ UNCHANGED <<part, proposeVars, claimVars, logVars, certVars>>
Claims      == /\ part = "claims" /\ ClaimNext
               /\ UNCHANGED <<part, proposeVars, delegationVars, logVars, certVars>>
Reputation  == /\ part = "log" /\ LogNext
               /\ UNCHANGED <<part, proposeVars, delegationVars, claimVars, certVars>>
Certificates == /\ part = "certs" /\ CertsNext
                /\ UNCHANGED <<part, proposeVars, delegationVars, claimVars, logVars>>

Next == Proposals \/ Delegations \/ Claims \/ Reputation \/ Certificates

Spec == Init /\ [][Next]_<<part, proposeVars, delegationVars, claimVars, logVars, certVars>>
=============================================================================
