----------------------------- MODULE SitePatrol -----------------------------
(***************************************************************************)
(* The site patrol: one goal of three exchanges and an optional charge,    *)
(* which the owner's process drives one after the other against the node:  *)
(* src/novapanda/adopter/patrol.py, charge.py, draft.py.  A call on the    *)
(* way may raise, before or after it had its effect; then the leg ends     *)
(* there, and it can be called again under the same idempotency key.       *)
(***************************************************************************)
EXTENDS StateMachine, Bundle

CONSTANT MaxCalls   \* bound on the calls of legs

VARIABLES
  plan,       \* the legs that the running call still has to run
  at,         \* the leg in work and the step it is at
  node,       \* the exchange of each leg at the node, "none" before it is proposed
  acks,       \* its contract_acks
  draft,      \* the provider's newest draft of the leg
  outcomes,   \* legs with an outcome
  vaulted,    \* who keeps the document of a leg
  queued,     \* confirms and verifies in the owner's outbox
  ownerUp,    \* network_up of the owner's outbox
  goal,       \* the legs of the finished bundle
  frozen,     \* history: how often money was frozen for a leg
  calls       \* history: number of calls

patrolVars == <<plan, at, node, acks, draft, outcomes, vaulted, queued, ownerUp, goal, frozen, calls>>

Tour      == <<"arrival", "drone", "robot", "charge">>
PatrolLeg == Range(Tour)

\* The legs whose documents a leg refers to
Prior(l) == CASE l = "arrival" -> {}
              [] l = "drone"   -> {"arrival"}
              [] l = "robot"   -> {"drone"}
              [] l = "charge"  -> {"arrival", "robot"}

Steps == <<"draft", "propose", "contract", "countersign", "escrow", "prepare", "deliver",
           "commit", "verify", "confirm", "keep", "keepProvider", "record">>
Resting == [leg |-> "none", step |-> "none"]

NoDraft == [status |-> "none", bound |-> FALSE, filled |-> FALSE]

PatrolInit ==
  /\ plan = <<>> /\ at = Resting
  /\ node = [l \in PatrolLeg |-> "none"] /\ acks = [l \in PatrolLeg |-> {}]
  /\ draft = [l \in PatrolLeg |-> NoDraft]
  /\ outcomes = {} /\ vaulted = [l \in PatrolLeg |-> {}]
  /\ queued = {} /\ ownerUp = TRUE /\ goal = {}
  /\ frozen = [l \in PatrolLeg |-> 0] /\ calls = 0

ordersOf == <<plan, at, goal, calls>>
nodeOf   == <<node, acks, frozen>>
keptOf   == <<outcomes, vaulted, queued>>
---------------------------------------------------------------------------
(* Calls of the owner.                                                     *)

\* Mutant: a leg does not ask for the documents it builds on.
BeginLeg_Unchecked(l) == at' = [leg |-> l, step |-> "draft"]

\* The start of a leg, which raises without the outcomes of the legs before it and
\* valid documents in them.
BeginLeg(l) ==
  /\ PriorRefsHold({[vdc |-> p, required |-> TRUE] : p \in Prior(l)}, outcomes)
  /\ at' = [leg |-> l, step |-> "draft"]

\* run_all, with the charge or without, or one of run_arrival ... run_charge
Call ==
  /\ at = Resting /\ plan = <<>> /\ calls < MaxCalls
  /\ \E legs \in {Tour, SubSeq(Tour, 1, 3)} \cup {<<l>> : l \in PatrolLeg} :
       /\ BeginLeg(legs[1])
       /\ plan' = legs
  /\ calls' = calls + 1
  /\ UNCHANGED <<goal, draft, nodeOf, keptOf, ownerUp>>

\* The leg is through; the call goes on with the next one.
NextLeg ==
  /\ at = Resting /\ plan # <<>>
  /\ plan' = Tail(plan)
  /\ IF plan' = <<>> THEN UNCHANGED at ELSE BeginLeg(Head(plan'))
  /\ UNCHANGED <<goal, calls, draft, nodeOf, keptOf, ownerUp>>

Following(step) ==
  LET k == CHOOSE i \in DOMAIN Steps : Steps[i] = step
  IN  IF k = Len(Steps) THEN Resting ELSE [leg |-> at.leg, step |-> Steps[k + 1]]

Goes  == at' = Following(at.step) /\ UNCHANGED plan
Stops == at' = Resting /\ plan' = <<>>
---------------------------------------------------------------------------
(* The requests of a leg and what the node does for them.                  *)

\* A move of the exchange that the lifecycle table has
Moves(l, s) == node[l] # "none" /\ CanTransition(node[l], s) /\ node' = [node EXCEPT ![l] = s]

\* The request of the step, carried out at the node.
Requested(l, step) ==
  CASE step = "propose" ->      \* the same key answers the exchange there is
         node' = [node EXCEPT ![l] = IF @ = "none" THEN "PROPOSED" ELSE @]
         /\ UNCHANGED <<acks, frozen>>
    [] step \in {"contract", "countersign"} ->
         /\ node[l] \in {"PROPOSED", "CONTRACTED"}
         /\ acks' = [acks EXCEPT ![l] = @ \cup {step}]
         /\ node' = [node EXCEPT ![l] = IF Cardinality(acks'[l]) = 2 THEN "CONTRACTED" ELSE @]
         /\ UNCHANGED frozen
    [] step = "escrow"  -> /\ Moves(l, "ESCROWED")
                           /\ frozen' = [frozen EXCEPT ![l] = @ + 1] /\ UNCHANGED acks
    [] step = "deliver" -> Moves(l, "DELIVERED") /\ UNCHANGED <<acks, frozen>>
    [] step = "verify"  -> /\ node[l] = "DELIVERED"
                           /\ Moves(l, "VERIFIED") /\ UNCHANGED <<acks, frozen>>
    [] step = "confirm" -> Moves(l, "SETTLED") /\ UNCHANGED <<acks, frozen>>

\* Whether the request leaves the process: verify and confirm go to the outbox
\* while it is offline, and deliver_from_draft looks at the draft first.
Sent == /\ at.step \in {"verify", "confirm"} => ownerUp
        /\ at.step = "deliver" => draft[at.leg].bound /\ draft[at.leg].filled

AtNode == {"propose", "contract", "countersign", "escrow", "deliver", "verify", "confirm"}

Request ==
  LET l == at.leg IN
  /\ at.step \in AtNode /\ Sent
  /\ Requested(l, at.step)
  /\ draft' = IF at.step = "propose" THEN [draft EXCEPT ![l].bound = TRUE] ELSE draft
  /\ vaulted' = IF at.step = "confirm" THEN [vaulted EXCEPT ![l] = @ \cup {"owner"}] ELSE vaulted
  /\ Goes
  /\ UNCHANGED <<goal, calls, outcomes, queued, ownerUp>>

\* The request raises: it is refused or lost, or only its answer is lost, or the
\* delivery is rejected.
RequestRaises ==
  /\ at.step \in AtNode
  /\ \/ UNCHANGED nodeOf
     \/ Sent /\ Requested(at.leg, at.step)
     \/ /\ at.step = "verify" /\ Sent /\ node[at.leg] = "DELIVERED"
        /\ Moves(at.leg, "REJECTED") /\ UNCHANGED <<acks, frozen>>
  /\ Stops
  /\ UNCHANGED <<goal, calls, draft, keptOf, ownerUp>>

\* Offline, verify and confirm answer with a queued item, which the caller takes for
\* the exchange and fails on; only the charge goes on after its confirm.
Queue ==
  /\ at.step \in {"verify", "confirm"} /\ ~ownerUp
  /\ queued' = queued \cup {[leg |-> at.leg, op |-> at.step]}
  /\ IF at.leg = "charge" /\ at.step = "confirm" THEN Goes ELSE Stops
  /\ UNCHANGED <<goal, calls, nodeOf, draft, outcomes, vaulted, ownerUp>>
---------------------------------------------------------------------------
(* Drafts, the vaults and the outcome.                                     *)

\* open_draft; prepare_deliverable, for a charge after the session; mark_committed.
DraftStep ==
  LET l == at.leg IN
  /\ \/ /\ at.step = "draft"
        /\ draft' = [draft EXCEPT ![l] = [NoDraft EXCEPT !.status = "drafting"]]
     \/ /\ at.step = "prepare" /\ draft[l].status # "discarded"
        /\ draft' = [draft EXCEPT ![l].status = "ready", ![l].filled = TRUE]
     \/ /\ at.step = "commit"
        /\ draft' = [draft EXCEPT ![l].status = "committed"]
  /\ Goes
  /\ UNCHANGED <<goal, calls, nodeOf, keptOf, ownerUp>>

\* The draft is over, or the session gave nothing that can be delivered.
PrepareRaises ==
  /\ at.step = "prepare"
  /\ draft[at.leg].status = "discarded" \/ at.leg = "charge"
  /\ Stops
  /\ UNCHANGED <<goal, calls, nodeOf, draft, keptOf, ownerUp>>

\* The provider throws the draft away.
Discard(l) ==
  /\ draft[l].status \in {"drafting", "ready"}
  /\ draft' = [draft EXCEPT ![l].status = "discarded"]
  /\ UNCHANGED <<ordersOf, nodeOf, keptOf, ownerUp>>

\* remember_settled on either side, which asks for a document and not for its state
Keep ==
  /\ at.step \in {"keep", "keepProvider"}
  /\ vaulted' = [vaulted EXCEPT ![at.leg] = @ \cup {IF at.step = "keep" THEN "owner" ELSE "provider"}]
  /\ Goes
  /\ UNCHANGED <<goal, calls, nodeOf, draft, outcomes, queued, ownerUp>>

KeepRaises ==
  /\ at.step \in {"keep", "keepProvider"}
  /\ Stops
  /\ UNCHANGED <<goal, calls, nodeOf, draft, keptOf, ownerUp>>

\* The outcome is written; a charge that is not settled raises.
Record ==
  /\ at.step = "record"
  /\ IF at.leg = "charge" /\ node[at.leg] # "SETTLED"
     THEN Stops /\ UNCHANGED outcomes
     ELSE Goes /\ outcomes' = outcomes \cup {at.leg}
  /\ UNCHANGED <<goal, calls, nodeOf, draft, vaulted, queued, ownerUp>>

\* finalize_bundle builds the document of the legs that have an outcome.
PatrolBundle(ls) ==
  [ids |-> SelectSeq(Tour, LAMBDA l : l \in ls),
   depends |-> [l \in ls |-> Prior(l) \ (IF l = "charge" THEN {"arrival"} ELSE {})],
   rule |-> "all_settled"]

Finalize ==
  /\ at = Resting /\ plan = <<>>
  /\ {"arrival", "drone", "robot"} \subseteq outcomes
  /\ \E ls \in {outcomes, outcomes \ {"charge"}} :
       /\ Ordered(PatrolBundle(ls))
       /\ BundleReady(PatrolBundle(ls), [l \in ls |-> "SETTLED"])
       /\ goal' = ls
  /\ UNCHANGED <<plan, at, calls, nodeOf, draft, keptOf, ownerUp>>
---------------------------------------------------------------------------
(* Around the calls.                                                       *)

\* flush_outbox when the network is back
FlushLater ==
  /\ at = Resting /\ plan = <<>> /\ ownerUp
  /\ \E q \in queued :
       /\ queued' = queued \ {q}
       /\ \/ UNCHANGED <<nodeOf, vaulted>>
          \/ /\ Requested(q.leg, q.op)
             /\ vaulted' = IF q.op = "confirm" THEN [vaulted EXCEPT ![q.leg] = @ \cup {"owner"}]
                                               ELSE vaulted
  /\ UNCHANGED <<ordersOf, draft, outcomes, ownerUp>>

OwnerNetwork ==
  /\ ownerUp' = ~ownerUp
  /\ UNCHANGED <<ordersOf, nodeOf, draft, keptOf>>

\* A deadline at the node ends the exchange, or the provider disputes it.
Elsewhere(l) ==
  /\ \E s \in {"EXPIRED_REFUNDED", "DISPUTED"} : Moves(l, s)
  /\ UNCHANGED <<acks, frozen, ordersOf, draft, keptOf, ownerUp>>

PatrolNext ==
  \/ Call \/ NextLeg
  \/ Request \/ RequestRaises \/ Queue
  \/ DraftStep \/ PrepareRaises \/ Keep \/ KeepRaises \/ Record \/ Finalize
  \/ FlushLater \/ OwnerNetwork
  \/ \E l \in PatrolLeg : Discard(l) \/ Elsewhere(l)

PatrolSpec == PatrolInit /\ [][PatrolNext]_patrolVars
---------------------------------------------------------------------------
(* Properties.                                                             *)

\* An outcome stands for an exchange that settled, kept by both sides.
OutcomesAreSettled ==
  \A l \in outcomes : node[l] = "SETTLED" /\ vaulted[l] = {"owner", "provider"}

\* However often a leg is called, its money is frozen once, and only after the legs
\* it builds on have settled.
FrozenOnce ==
  \A l \in PatrolLeg : /\ frozen[l] <= 1
                       /\ frozen[l] > 0 => \A p \in Prior(l) : node[p] = "SETTLED"

\* A committed draft was delivered.
CommittedWasDelivered ==
  \A l \in PatrolLeg : draft[l].status = "committed" =>
    node[l] \notin {"none", "PROPOSED", "CONTRACTED", "ESCROWED"}

\* patrol.py: a goal is declared reached only when every exchange it names has settled,
\* although finalize_bundle itself takes them all for settled; a leg pays once over
\* all retries.
PatrolIsBacked ==
  /\ OutcomesAreSettled /\ FrozenOnce /\ CommittedWasDelivered
  /\ goal # {} => /\ {"arrival", "drone", "robot"} \subseteq goal
                  /\ \A l \in goal : node[l] = "SETTLED"
---------------------------------------------------------------------------
(* The inductive invariant of PatrolIsBacked (AgentProofs).                *)

Early   == {"none", "PROPOSED", "CONTRACTED"}
Work    == [leg : PatrolLeg, step : Range(Steps)]
Drafted == [status : {"none", "drafting", "ready", "committed", "discarded"}, bound : BOOLEAN, filled : BOOLEAN]

PatrolTypeOK ==
  /\ plan \in Seq(PatrolLeg) /\ at \in Work \cup {Resting}
  /\ node \in [PatrolLeg -> State \cup {"none"}]
  /\ acks \in [PatrolLeg -> SUBSET {"contract", "countersign"}]
  /\ draft \in [PatrolLeg -> Drafted] /\ outcomes \subseteq PatrolLeg /\ goal \subseteq PatrolLeg
  /\ vaulted \in [PatrolLeg -> SUBSET {"owner", "provider"}]
  /\ queued \subseteq [leg : PatrolLeg, op : {"verify", "confirm"}]
  /\ frozen \in [PatrolLeg -> Nat]

\* A leg is in work only after those that it builds on; what its step tells of it.
WorkIsBacked ==
  at # Resting =>
    LET l == at.leg IN
    /\ Prior(l) \subseteq outcomes
    /\ at.step \in {"commit", "verify", "confirm", "keep", "keepProvider", "record"} =>
         node[l] \notin Early \cup {"ESCROWED"}
    /\ at.step \in {"keep", "keepProvider", "record"} /\ l # "charge" => node[l] = "SETTLED"
    /\ at.step \in {"keepProvider", "record"} => "owner" \in vaulted[l]
    /\ at.step = "record" => "provider" \in vaulted[l]

\* Money is frozen on the way from CONTRACTED to ESCROWED, which no exchange goes twice.
FrozenOnTheWay == \A l \in PatrolLeg : node[l] \in Early => frozen[l] = 0

\* Inductive together with PatrolTypeOK; PatrolIsBacked is a part of it.
PatrolInv == WorkIsBacked /\ FrozenOnTheWay /\ PatrolIsBacked
=============================================================================
