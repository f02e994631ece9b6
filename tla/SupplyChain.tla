----------------------------- MODULE SupplyChain -----------------------------
(***************************************************************************)
(* The orchestrator that splits a goal into legs, auctions them and runs   *)
(* each through the engine in this process: src/novapanda/autonomy.        *)
(* A run ends with the first leg that does not settle; the same goal can   *)
(* be run again, and its legs keep their idempotency keys.                 *)
(***************************************************************************)
EXTENDS StateMachine, Naturals, Sequences, SequencesExt, FiniteSets

CONSTANTS
  Sub,         \* the subtasks, in the order of the graph
  Provider,
  NoProvider,
  Asked,       \* what the pricing engine works out for a provider, before the cap
  Standing,    \* its effective reputation, in hundredths
  Budget,      \* budget of the goal
  PriceWeight, RepWeight,  \* weights of the auction
  MaxGoalRuns  \* bound on the runs of the goal

ASSUME SupplyChainAssumption ==
  /\ Sub \in Seq(Range(Sub))
  /\ NoProvider \notin Provider
  /\ Asked \in [Provider -> Nat] /\ Standing \in [Provider -> 0 .. 100]
  /\ Budget \in Nat \ {0} /\ PriceWeight \in Nat /\ RepWeight \in Nat /\ MaxGoalRuns \in Nat

VARIABLES
  chained,   \* whether the subtasks are steps, each after the one before it
  mode,      \* the runner: all in this process, up to the escrow, or as client only
  phase,     \* phase of the report
  award,     \* winner of each subtask
  leg,       \* state of each leg in the report
  linked,    \* whether the report names its exchange
  exch,      \* the exchange under the leg's key, at the engine
  started,   \* legs started in this run, in order
  paidLeg,   \* history: the amounts paid for a leg
  goalRuns   \* number of runs

supplyVars == <<chained, mode, phase, award, leg, linked, exch, started, paidLeg, goalRuns>>

SubTask == Range(Sub)
NoExch  == [state |-> "none", provider |-> NoProvider, price |-> 0]

\* split_task: explicit steps depend on the one before, the parts of a payload on nothing.
Depends(i) == IF chained /\ i > 1 THEN {Sub[i - 1]} ELSE {}
DependsOn(s) == Depends(CHOOSE i \in DOMAIN Sub : Sub[i] = s)

SupplyInit ==
  /\ chained \in BOOLEAN
  /\ mode \in {"complete", "escrow", "client"}
  /\ phase = "idle"
  /\ award = [s \in SubTask |-> NoProvider]
  /\ leg = [s \in SubTask |-> "pending"] /\ linked = [s \in SubTask |-> FALSE]
  /\ exch = [s \in SubTask |-> NoExch]
  /\ started = <<>> /\ paidLeg = [s \in SubTask |-> <<>>] /\ goalRuns = 0

\* run: a new report for the graph
RunGoal ==
  /\ phase \in {"idle", "failed"} /\ goalRuns < MaxGoalRuns
  /\ phase' = "split"
  /\ award' = [s \in SubTask |-> NoProvider]
  /\ leg' = [s \in SubTask |-> "pending"] /\ linked' = [s \in SubTask |-> FALSE]
  /\ started' = <<>> /\ goalRuns' = goalRuns + 1
  /\ UNCHANGED <<chained, mode, exch, paidLeg>>
---------------------------------------------------------------------------
(* The auction.                                                            *)

\* DynamicPricingEngine.quote under the cap of the invitation
Quoted(p) == IF Asked[p] < Budget THEN Asked[p] ELSE Budget

\* _score_bid; all bids of a leg have the same SLA.
BidScore(p) == PriceWeight * ((100 * (Budget - Quoted(p))) \div Budget) + RepWeight * Standing[p]

\* _auction_one, among the providers that the registry and the router leave.
Winners(found) == {p \in found : \A q \in found : BidScore(q) <= BidScore(p)}

HoldAuction ==
  /\ phase = "split"
  /\ \E found \in [SubTask -> SUBSET Provider] :
       IF \E s \in SubTask : found[s] = {}
       THEN phase' = "failed" /\ UNCHANGED award
       ELSE /\ award' \in {w \in [SubTask -> Provider] : \A s \in SubTask : w[s] \in Winners(found[s])}
            /\ phase' = "executing"
  /\ UNCHANGED <<chained, mode, leg, linked, exch, started, paidLeg, goalRuns>>
---------------------------------------------------------------------------
(* The legs.                                                               *)

Done(s) == \E k \in DOMAIN started : started[k] = s /\ leg[s] = "SETTLED"

\* The next leg of the pass of _execute_dag: the first whose parents have settled.
Startable(s) ==
  /\ phase = "executing" /\ \A r \in SubTask : leg[r] \in {"pending", "SETTLED"}
  /\ leg[s] = "pending" /\ \A p \in DependsOn(s) : leg[p] = "SETTLED"

\* Mutant: every run proposes anew.
ProposedTo_Anew(s) == [state |-> "PROPOSED", provider |-> award[s], price |-> Quoted(award[s])]

\* The exchange that propose answers: the one under the key, if there is one.
ProposedTo(s) == IF exch[s] = NoExch
                 THEN [state |-> "PROPOSED", provider |-> award[s], price |-> Quoted(award[s])]
                 ELSE exch[s]

\* The states that start_leg can take a fresh or half-made exchange to, by the end or
\* where a call raises.  Another provider cannot sign it, another price is not
\* escrowed, and the contract of one that is past CONTRACTED is refused.
Path(e, s) ==
  IF e.provider # award[s] \/ e.state \notin {"PROPOSED", "CONTRACTED"} \/ mode = "client"
  THEN {e.state}
  ELSE {e.state, "CONTRACTED"}
       \cup (IF e.price = Quoted(award[s]) THEN {"ESCROWED"} ELSE {})
       \cup (IF e.price = Quoted(award[s]) /\ mode = "complete"
             THEN {"DELIVERED", "VERIFIED", "REJECTED", "SETTLED"} ELSE {})

\* Where start_leg returns instead of raising
Returns(e, s, to) ==
  CASE mode = "complete" -> to \in {"SETTLED", "REJECTED"} /\ to # e.state
    [] mode = "escrow"   -> to = "ESCROWED" /\ to # e.state
    [] mode = "client"   -> e.state \in {"PROPOSED", "CONTRACTED"}

Paid(s, e, to) == IF to = "SETTLED" /\ e.state # "SETTLED"
                  THEN [paidLeg EXCEPT ![s] = Append(@, e.price)] ELSE paidLeg

StartLeg(s) ==
  LET e == ProposedTo(s) IN
  /\ Startable(s)
  /\ started' = Append(started, s)
  /\ \E to \in Path(e, s), answered \in BOOLEAN :
       /\ answered => Returns(e, s, to)
       /\ exch' = [exch EXCEPT ![s] = [e EXCEPT !.state = to]]
       /\ paidLeg' = Paid(s, e, to)
       /\ linked' = [linked EXCEPT ![s] = answered]
       /\ leg' = [leg EXCEPT ![s] = IF answered /\ to \in {"SETTLED", "REJECTED"}
                                    THEN to ELSE "running"]
       /\ phase' = CASE ~answered \/ to = "REJECTED" -> "failed"
                     [] to = "SETTLED"               -> "executing"
                     [] OTHER                        -> "polling"
  /\ UNCHANGED <<chained, mode, award, goalRuns>>

\* poll_leg, once; a leg that has not settled by then ends the run.
PollLeg ==
  /\ phase = "polling"
  /\ \E s \in SubTask :
       /\ leg[s] = "running"
       /\ leg' = [leg EXCEPT ![s] = exch[s].state]
       /\ phase' = IF exch[s].state = "SETTLED" THEN "executing" ELSE "failed"
  /\ UNCHANGED <<chained, mode, award, linked, exch, started, paidLeg, goalRuns>>

\* Every leg is through: the results are collected.
Aggregate ==
  /\ phase = "executing" /\ \A s \in SubTask : Done(s)
  /\ phase' = "done"
  /\ UNCHANGED <<chained, mode, award, leg, linked, exch, started, paidLeg, goalRuns>>

\* The parties and the timers go on with an exchange that was left open.
LegMoves(s) ==
  /\ exch[s] # NoExch /\ phase # "done"
  /\ \E to \in Transitions[exch[s].state] :
       /\ exch' = [exch EXCEPT ![s].state = to]
       /\ paidLeg' = Paid(s, exch[s], to)
  /\ UNCHANGED <<chained, mode, phase, award, leg, linked, started, goalRuns>>

\* on_terminal_leg_update: an observer of closed exchanges writes into the report.
Observe(s) ==
  /\ linked[s] /\ exch[s].state \in TerminalStates /\ leg[s] # exch[s].state
  /\ phase = "failed"
  /\ leg' = [leg EXCEPT ![s] = exch[s].state]
  /\ UNCHANGED <<chained, mode, phase, award, linked, exch, started, paidLeg, goalRuns>>

SupplyNext ==
  \/ RunGoal \/ HoldAuction \/ PollLeg \/ Aggregate
  \/ \E s \in SubTask : StartLeg(s) \/ LegMoves(s) \/ Observe(s)

SupplySpec == SupplyInit /\ [][SupplyNext]_supplyVars
---------------------------------------------------------------------------
(* Properties.                                                             *)

\* A goal that is done has all its legs settled and paid, each with its own exchange.
DoneIsSettled ==
  phase = "done" => \A s \in SubTask : exch[s].state = "SETTLED" /\ leg[s] = "SETTLED"

\* However often the goal is run and whoever wins the auction, a leg is paid at most
\* once, at the price it was first proposed for, and that price is in the budget.
LegPaidOnce ==
  \A s \in SubTask : /\ Len(paidLeg[s]) <= 1
                     /\ exch[s].price <= Budget
                     /\ paidLeg[s] # <<>> => paidLeg[s][1] = exch[s].price

\* A leg is started only when the legs it depends on are paid, and after a leg that
\* failed no other is started in the same run.
ChainIsKept ==
  \A k \in DOMAIN started :
    /\ \A p \in DependsOn(started[k]) : exch[p].state = "SETTLED"
    /\ k < Len(started) => exch[started[k]].state = "SETTLED"

\* What the report says of a leg is what became of its exchange.
ReportIsTrue == \A s \in SubTask : leg[s] \in {"SETTLED", "REJECTED"} => exch[s].state = leg[s]

\* autonomy/orchestrator.py with real_runner.py: a failed leg leaves the settled ones as
\* they are, and no run of the goal pays them again.
SupplyChainIsSound == DoneIsSettled /\ LegPaidOnce /\ ChainIsKept /\ ReportIsTrue
---------------------------------------------------------------------------
(* What the soundness of the chain rests on.                               *)

Exchanges == [state : State \cup {"none"}, provider : Provider \cup {NoProvider}, price : Nat]

SupplyTypeOK ==
  /\ chained \in BOOLEAN /\ mode \in {"complete", "escrow", "client"}
  /\ phase \in {"idle", "split", "executing", "polling", "failed", "done"}
  /\ award \in [SubTask -> Provider \cup {NoProvider}]
  /\ leg \in [SubTask -> {"pending", "running", "none"} \cup State]
  /\ linked \in [SubTask -> BOOLEAN]
  /\ exch \in [SubTask -> Exchanges]
  /\ started \in Seq(SubTask) /\ paidLeg \in [SubTask -> Seq(Nat)] /\ goalRuns \in Nat

\* Legs are started after an auction in which every subtask found its winner.
Awarded == phase \in {"executing", "polling"} => award \in [SubTask -> Provider]

\* There is nothing between no exchange and one in a state, and a leg that was started
\* in this run is not pending again.
Underway ==
  /\ \A s \in SubTask : exch[s].state = "none" => exch[s] = NoExch
  /\ \A k \in DOMAIN started : leg[started[k]] # "pending"

\* What was paid for a leg is what its exchange says.
PaidAsSettled ==
  \A s \in SubTask :
    /\ exch[s].price <= Budget
    /\ paidLeg[s] = IF exch[s].state = "SETTLED" THEN <<exch[s].price>> ELSE <<>>

SupplyInv ==
  /\ Awarded /\ Underway /\ PaidAsSettled
  /\ DoneIsSettled /\ ChainIsKept /\ ReportIsTrue
=============================================================================
