------------------------------ MODULE MCAgents ------------------------------
(* Instances of the agents' side for TLC, and of what agents meet at a node: *)
(* the gate of their requests and the judges of their deliveries.  The parts *)
(* do not touch each other: a behaviour is a behaviour of one of them, while *)
(* the others rest.                                                          *)
EXTENDS AdopterRuntime, Composer, SitePatrol, SupplyChain, Wallet,
        AgentTools, Verdicts, RequestGate, TLC

VARIABLE part

CONSTANTS k1, k2, i1, i2, l1, l2, l3, p1, p2

Listed    == <<l3, l1, l2>>
Subtasks  == <<"s1", "s2">>
PriceOf   == p1 :> 3 @@ p2 :> 9
ScoreOf   == p1 :> 20 @@ p2 :> 50
Price     == [d \in Deal |-> 3]
SpareFee  == [fee |-> 1, owns |-> 1]

Verifiers == {[kind |-> k] : k \in {"schema", "accept-all", "stub", "remote"}} \cup
  {[kind |-> "panel", strategy |-> s, panel |-> <<"regex", "field_match">>] :
     s \in {"left out", "majority"}} \cup
  {[kind |-> "panel", strategy |-> "majority", panel |-> <<"regex", "regex", "field_match">>],
   [kind |-> "panel", strategy |-> "unanimous", panel |-> <<"regex">>]}
Ruled == {[type |-> "plain",  schema |-> TRUE,  rubric |-> TRUE],
          [type |-> "plain",  schema |-> FALSE, rubric |-> TRUE],
          [type |-> "energy", schema |-> FALSE, rubric |-> FALSE],
          [type |-> "energy", schema |-> TRUE,  rubric |-> TRUE],
          [type |-> "robot",  schema |-> FALSE, rubric |-> TRUE]}
Delivered ==
  {[whole |-> TRUE, session |-> "m1", kwh |-> k, sig |-> 1, fits |-> f, says |-> {"regex"}] :
     k \in {1, 2}, f \in BOOLEAN} \cup
  {[whole |-> TRUE, session |-> OwnMeter, kwh |-> 1, sig |-> 1, fits |-> f, says |-> j] :
     f \in BOOLEAN, j \in {{"regex"}, {"keywords"}, {"regex", "field_match"}}} \cup
  {[whole |-> FALSE, session |-> OwnMeter, kwh |-> 1, sig |-> 1, fits |-> TRUE,
    says |-> {"regex", "field_match", "keywords"}]}
Requests == {[from |-> "p", op |-> "deliver", nonce |-> 1],
             [from |-> "c", op |-> "verify",  nonce |-> 1],
             [from |-> "c", op |-> "cancel",  nonce |-> 2],
             [from |-> "x", op |-> "cancel",  nonce |-> 1]}
Signers == [deliver |-> {"p"}, verify |-> {"c", "p"}, cancel |-> {"c", "p"}]

Parts == {"adopter", "composer", "patrol", "supply", "wallet", "tools", "verdicts", "gate"}

\* The parts that rest while p moves.
OthersRest(p) ==
  /\ p # "adopter"  => UNCHANGED adopterVars
  /\ p # "composer" => UNCHANGED composerVars
  /\ p # "patrol"   => UNCHANGED patrolVars
  /\ p # "supply"   => UNCHANGED supplyVars
  /\ p # "wallet"   => UNCHANGED walletVars
  /\ p # "tools"    => UNCHANGED toolVars
  /\ p # "verdicts" => UNCHANGED verdictVars
  /\ p # "gate"     => UNCHANGED gateVars

Init ==
  /\ part \in Parts
  /\ AdopterInit /\ ComposerInit /\ PatrolInit /\ SupplyInit /\ WalletInit /\ ToolsInit
  /\ VerdictsInit /\ GateInit
  /\ part # "supply" => chained /\ mode = "client"
  /\ part # "tools" => till.kind = "mock" /\ wired = {} /\ obeys
  /\ part # "verdicts" => shop.kind = "schema" /\ parcel.rule.type = "robot"
  /\ part # "gate" => way = "memory"

Adopter  == part = "adopter" /\ AdopterNext
Compose  == part = "composer" /\ ComposerNext
Patrol   == part = "patrol" /\ PatrolNext
Supply   == part = "supply" /\ SupplyNext
Pay      == part = "wallet" /\ WalletNext
Tools    == part = "tools" /\ ToolsNext
Judge    == part = "verdicts" /\ VerdictsNext
Gate     == part = "gate" /\ GateNext

Next ==
  /\ Adopter \/ Compose \/ Patrol \/ Supply \/ Pay \/ Tools
     \/ Judge \/ Gate
  /\ UNCHANGED part /\ OthersRest(part)

Spec == Init /\ [][Next]_<<part, adopterVars, composerVars, patrolVars, supplyVars, walletVars,
                          toolVars, verdictVars, gateVars>>
=============================================================================
