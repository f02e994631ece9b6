------------------------------ MODULE Composer ------------------------------
(***************************************************************************)
(* The client-side composer that runs the legs of a bundle one after the   *)
(* other and spends a claim for each of them: src/novapanda/composer.py    *)
(* with bundle.py and the claims of node/claim_registry.py.                *)
(***************************************************************************)
EXTENDS Bundle, FiniteSets

CONSTANTS
  Leg,
  LegOrder,  \* the legs as the document lists them
  Optional,  \* optional_legs
  MaxRuns    \* bound on the number of times that one leg is run

ASSUME ComposerAssumption == LegOrder \in Seq(Leg) /\ Range(LegOrder) = Leg /\ MaxRuns \in Nat

VARIABLES
  bundle,    \* the document
  abortRest, \* on_leg_failure = "abort_rest"
  noted,     \* exchange_states: what the composer noted of each leg
  batch,     \* the legs of the ready list that are still to be run
  running,   \* whether run_all has not returned
  failed,    \* failed_legs
  claim,     \* the claim of each leg, in the registry
  truth,     \* history: whether the exchange of a leg ever settled
  runs,      \* history: how often run_leg was called for each leg
  begun,     \* history: how often run_fn was called for each leg
  lapse      \* history: how a leg settled of which run_all did not learn it

composerVars ==
  <<bundle, abortRest, noted, batch, running, failed, claim, truth, runs, begun, lapse>>

NotNoted == "none"

ComposerInit ==
  /\ bundle = [ids |-> LegOrder, depends |-> [l \in Leg |-> {}], rule |-> "all_settled"]
  /\ abortRest = TRUE
  /\ noted = [l \in Leg |-> NotNoted]
  /\ batch = {} /\ running = FALSE /\ failed = <<>>
  /\ claim = [l \in Leg |-> "open"]
  /\ truth = [l \in Leg |-> FALSE]
  /\ runs = [l \in Leg |-> 0]
  /\ begun = [l \in Leg |-> 0]
  /\ lapse = [l \in Leg |-> "none"]

\* run_all of a bundle: load and the fresh BundleRunState
RunAll ==
  /\ ~running /\ \A l \in Leg : runs[l] = 0
  /\ \E d \in [Leg -> SUBSET Leg] :
       /\ \A l \in Leg : l \notin d[l]
       /\ bundle' = [bundle EXCEPT !.depends = d]
  /\ abortRest' \in BOOLEAN
  /\ running' = TRUE
  /\ UNCHANGED <<noted, batch, failed, claim, truth, runs, begun, lapse>>

\* Mutant: a leg is ready as soon as one of its parents has settled.
NextReady_OneParent ==
  {l \in Range(bundle.ids) :
    /\ noted[l] \notin {"SETTLED", "failed"}
    /\ bundle.depends[l] # {} => \E p \in bundle.depends[l] : noted[p] = "SETTLED"}

\* next_ready: legs that are neither settled nor failed, whose parents are settled
NextReady ==
  {l \in Range(bundle.ids) :
    /\ noted[l] \notin {"SETTLED", "failed"}
    /\ \A p \in bundle.depends[l] : noted[p] = "SETTLED"}

\* The next round of run_all, which ends when no leg is ready or the order cannot
\* be found.
NextRound ==
  /\ running /\ batch = {}
  /\ batch' = IF Ordered(bundle) THEN NextReady ELSE {}
  /\ running' = (batch' # {})
  /\ UNCHANGED <<bundle, abortRest, noted, failed, claim, truth, runs, begun, lapse>>

\* What run_leg does to the reserved claim when run_fn returned with this state
ClaimAfter(state) == CASE state = "SETTLED"                -> "spent"
                       [] state \in {"REJECTED", "failed"} -> "released"
                       [] OTHER                            -> "reserved"

Ends == {"SETTLED", "REJECTED", "failed", "ESCROWED"}

\* What run_leg makes of leg l: the state in its result, whether the result names the
\* exchange, the claim, whether the exchange settled and whether run_fn was called.
\* Every call may raise, before or after its effect, and an exception makes run_leg
\* release the claim, which may raise too.
Results(l) ==
  LET none(c) == [state |-> "failed", named |-> FALSE, claim |-> c, settled |-> FALSE,
                  began |-> FALSE]
      done(s, n) == [state |-> s, named |-> n, claim |-> ClaimAfter(s), settled |-> s = "SETTLED",
                     began |-> TRUE]
      raised(s, c) == [state |-> "failed", named |-> FALSE, claim |-> c, settled |-> s = "SETTLED",
                       began |-> TRUE]
  IN  IF claim[l] # "open"
      THEN {none(claim[l])}                                               \* reserve refuses
      ELSE {none("open"), none("reserved")}                               \* reserve raises
           \cup {done(s, n) : s \in Ends, n \in BOOLEAN}
           \cup {raised(s, c) : s \in Ends, c \in {"released", "reserved"}} \* run_fn, capture
           \cup {raised("SETTLED", "spent")}                              \* or release raises

\* The ready leg that comes first in the order.
Foremost(l) ==
  LET order == TopologicalOrder(bundle)
  IN  \E k \in DOMAIN order : order[k] = l /\ \A j \in 1 .. k - 1 : order[j] \notin batch

\* One leg of the round, with run_leg and what run_all notes of its result.
RunLeg ==
  /\ running
  /\ \E l \in batch :
     /\ Foremost(l)
     /\ runs[l] < MaxRuns
     /\ runs' = [runs EXCEPT ![l] = @ + 1]
     /\ \E r \in Results(l) :
          /\ claim' = [claim EXCEPT ![l] = r.claim]
          /\ truth' = [truth EXCEPT ![l] = @ \/ r.settled]
          /\ begun' = [begun EXCEPT ![l] = @ + IF r.began THEN 1 ELSE 0]
          /\ lapse' = [lapse EXCEPT ![l] = IF r.settled /\ r.state # "SETTLED" THEN "raised"
                                           ELSE IF r.settled /\ ~r.named THEN "unnamed" ELSE @]
          /\ noted' = IF r.named THEN [noted EXCEPT ![l] = r.state] ELSE noted
          /\ failed' = IF r.state = "SETTLED" THEN failed ELSE Append(failed, l)
          /\ LET ends == r.state # "SETTLED" /\ l \notin Optional /\ abortRest IN
             /\ running' = ~ends
             /\ batch' = IF ends THEN {} ELSE batch \ {l}
  /\ UNCHANGED <<bundle, abortRest>>

ComposerNext == RunAll \/ NextRound \/ RunLeg

ComposerSpec == ComposerInit /\ [][ComposerNext]_composerVars
---------------------------------------------------------------------------
(* Properties.                                                             *)

\* A leg is run only after the exchanges of all its parents settled.
ParentsFirst ==
  \A l \in Leg : runs[l] > 0 => \A p \in bundle.depends[l] : truth[p]

\* A claim is spent for a leg that settled and for no other; a leg that settled has
\* its claim spent, unless its run raised an exception after it had settled.
ClaimsFollowLegs ==
  \A l \in Leg : /\ claim[l] = "spent" => truth[l]
                 /\ truth[l] => claim[l] = "spent" \/ lapse[l] = "raised"

\* A leg that settled is not run again, unless its run raised after it had settled or
\* its result did not name the exchange.
SettledRunsOnce == \A l \in Leg : truth[l] /\ lapse[l] = "none" => noted[l] = "SETTLED"

\* However often run_all comes back to a leg that it notes as rejected, as escrowed or not
\* at all, the claim lets the work of the leg begin once.
WorkBeginsOnce == \A l \in Leg : begun[l] <= 1

\* With abort_rest nothing follows a leg that failed and is not optional.
AbortStops ==
  abortRest => \A k \in 1 .. Len(failed) : failed[k] \notin Optional => k = Len(failed) /\ ~running

\* composer.py: the order of the graph is kept, claims follow what became of the
\* legs, and a bundle is ready only when all its exchanges have settled.
ComposerIsSound ==
  /\ ParentsFirst /\ ClaimsFollowLegs /\ SettledRunsOnce /\ WorkBeginsOnce /\ AbortStops
  /\ BundleReady(bundle, noted) => \A l \in Leg : truth[l]
---------------------------------------------------------------------------
(* What the soundness of the composer rests on.                            *)

Marks == {NotNoted, "SETTLED", "REJECTED", "failed", "ESCROWED"}

ComposerTypeOK ==
  /\ bundle \in [ids : {LegOrder}, depends : [Leg -> SUBSET Leg], rule : {"all_settled"}]
  /\ noted \in [Leg -> Marks] /\ batch \subseteq Leg
  /\ begun \in [Leg -> Nat] /\ lapse \in [Leg -> {"none", "raised", "unnamed"}]
  /\ running \in BOOLEAN /\ failed \in Seq(Leg)
  /\ claim \in [Leg -> {"open", "reserved", "spent", "released"}]
  /\ truth \in [Leg -> BOOLEAN] /\ runs \in [Leg -> Nat]

\* What is noted as settled did settle, and what is to be run has not, after parents
\* that have.
NotedIsTrue == \A l \in Leg : noted[l] = "SETTLED" => truth[l]
BatchMayRun == \A l \in batch : noted[l] # "SETTLED" /\ \A p \in bundle.depends[l] : truth[p]

\* The claim of a leg that has begun is not open any more.
OpenIsFresh == \A l \in Leg : claim[l] = "open" => begun[l] = 0 /\ ~truth[l]

\* A leg that was never run left no trace.
NoRunNoTrace ==
  /\ \A l \in batch : running
  /\ \A k \in DOMAIN failed : runs[failed[k]] > 0

ComposerInv == NotedIsTrue /\ BatchMayRun /\ OpenIsFresh /\ NoRunNoTrace /\ ComposerIsSound
=============================================================================
