----------------------------- MODULE AutoSettle -----------------------------
(***************************************************************************)
(* The orchestrator that settles an exchange twice: in the engine, and on  *)
(* a chain next to it.  Each operation calls the engine, the verification  *)
(* gateway and the chain one after the other, and nothing is undone when a *)
(* later call fails.  The chain is the twin of the contract; anybody may   *)
(* call it directly.  An engine operation is one step here: its insides    *)
(* are in ExchangeEngine.  One exchange.                                   *)
(***************************************************************************)
EXTENDS StateMachine, Integers

CONSTANTS
  Thread,   \* callers of the orchestrator
  Timeout,  \* seconds for a phase, or None
  Backend,  \* the verdicts of gateway and engine on a deliverable
  Sla,      \* verify_sla_seconds; 0 is no limit
  MaxTime,  \* bound on the clock
  None      \* no deadline

Phase == {"deliver", "verify", "confirm"}

ASSUME AutoSettleAssumption ==
  /\ None \notin Nat
  /\ Timeout \subseteq Nat \cup {None}
  /\ Backend \subseteq [gateway : {"passed", "rejected", "failed"},
                        engine : {"passed", "rejected", "raises"}]
  /\ Sla \in Nat /\ MaxTime \in Nat

\* LocalSchemaBackend and those that wrap it: the engine's verifier checks the same
\* document by the same rule, and fails where the backend fails.
SchemaBackend == {[gateway |-> "passed", engine |-> "passed"],
                  [gateway |-> "rejected", engine |-> "rejected"],
                  [gateway |-> "failed", engine |-> "raises"]}

\* HardwarePodBackend: it checks a signature that the engine does not know, and applies
\* the rule to a part of the document.
PodBackend == SchemaBackend \cup {[gateway |-> "passed", engine |-> "rejected"],
                                  [gateway |-> "rejected", engine |-> "passed"]}

Nothing == "none"  \* not created yet
OnChainStatus == {"NONE", "FUNDED", "FULFILLED", "SETTLED", "DISPUTED", "REFUNDED"}
Instant == Nat \cup {None}

VARIABLES
  timeouts, \* seconds of each phase, fixed with the terms
  ex,       \* the exchange in the engine: state and deadline
  job,      \* the gateway's job, in memory
  read,     \* the deadline that create read after the escrow
  chain,    \* the record on the chain
  verdict,  \* what gateway and engine say of the deliverable
  th,       \* where each caller is
  now,      \* the clock
  reached,  \* history: the states the engine was in
  direct,   \* history: whether the chain was called past the orchestrator
  calm      \* history: no two operations overlapped and none was cut short

vars == <<timeouts, ex, job, read, chain, verdict, th, now, reached, direct, calm>>

NoVerdict == [gateway |-> "failed", engine |-> "raises"]
NoJob == [status |-> "none", started |-> 0]

Init ==
  /\ timeouts \in [Phase -> Timeout]
  /\ ex = [state |-> Nothing, deadline |-> None]
  /\ job = NoJob /\ read = None
  /\ chain = [status |-> "NONE", deliver |-> None, verify |-> None]
  /\ verdict = NoVerdict
  /\ th = [t \in Thread |-> "idle"]
  /\ now = 0
  /\ reached = {} /\ direct = FALSE /\ calm = TRUE
---------------------------------------------------------------------------
(* The engine.                                                             *)

\* _set_deadline.
After(phase) == IF timeouts[phase] = None THEN None ELSE now + timeouts[phase]

\* The deadline that goes with a state; a closed exchange has none, and a dispute
\* keeps the one that was set before it.
DeadlineIn(state) ==
  CASE state = "ESCROWED"  -> After("deliver")
    [] state = "DELIVERED" -> After("verify")
    [] state = "VERIFIED"  -> After("confirm")
    [] state = "DISPUTED"  -> ex.deadline
    [] OTHER               -> None

Enter(state) ==
  /\ ex' = [state |-> state, deadline |-> DeadlineIn(state)]
  /\ reached' = reached \cup {state}

Can(state) == ex.state # Nothing /\ CanTransition(ex.state, state)

\* The deadline is over, as sweep sees it.
Due == ex.deadline # None /\ now >= ex.deadline
Expires == Due /\ Can("EXPIRED_REFUNDED")

\* Thread t moves from step to step; the history notes overlaps.
Go(t, from, to) ==
  /\ th[t] = from
  /\ th' = [th EXCEPT ![t] = to]
  /\ calm' = (calm /\ \A u \in Thread \ {t} : th[u] = "idle")

\* An exception ends the operation.
Raise(t, from) == Go(t, from, "idle") /\ UNCHANGED <<ex, chain, reached>>
---------------------------------------------------------------------------
(* create, fulfill_with_proof.                                             *)

\* Proposed, acknowledged and escrowed by both parties, who know the exchange from here.
Create(t) ==
  /\ ex.state = Nothing
  /\ Go(t, "idle", "createVdc")
  /\ Enter("ESCROWED") /\ read' = After("deliver")
  /\ UNCHANGED <<timeouts, job, chain, verdict, now, direct>>

\* _verify_deadline.
VerifyDeadline == IF Sla = 0 \/ read = None THEN None ELSE read + Sla

CreateVdc(t) ==
  /\ \/ /\ chain.status = "NONE"
        /\ Go(t, "createVdc", "idle")
        /\ chain' = [status |-> "FUNDED", deliver |-> read, verify |-> VerifyDeadline]
        /\ UNCHANGED <<ex, reached>>
     \/ chain.status # "NONE" /\ Raise(t, "createVdc")
  /\ UNCHANGED <<timeouts, read, job, verdict, now, direct>>

\* A delivery; the document fixes the verdicts.  Without the rule, which is kept in
\* memory, both reject.
Deliver(t, v) ==
  /\ Can("DELIVERED")
  /\ Go(t, "idle", "submit")
  /\ Enter("DELIVERED")
  /\ verdict' = v
  /\ UNCHANGED <<timeouts, read, job, chain, now, direct>>

Submit(t) ==
  /\ Go(t, "submit", "backend")
  /\ job' = [status |-> "verifying", started |-> now]
  /\ UNCHANGED <<timeouts, read, ex, chain, verdict, now, reached, direct>>

\* The backend answers, or raises and the gateway notes a failure.
Answer(t) ==
  /\ Go(t, "backend", IF verdict.gateway = "passed" THEN "accepted" ELSE "refused")
  /\ job' = [job EXCEPT !.status = verdict.gateway]
  /\ UNCHANGED <<timeouts, read, ex, chain, verdict, now, reached, direct>>

\* Mutant: a refused delivery is anchored too.
AfterVerify_Always(from) == "anchor"

\* What follows the engine's verification, whatever state it led to.
AfterVerify(from) == IF from = "accepted" THEN "anchor" ELSE "idle"

Verify(t) ==
  /\ th[t] \in {"accepted", "refused"}
  /\ \/ /\ ex.state = "DELIVERED" /\ verdict.engine # "raises"
        /\ Go(t, th[t], AfterVerify(th[t]))
        /\ Enter(IF verdict.engine = "passed" THEN "VERIFIED" ELSE "REJECTED")
        /\ UNCHANGED chain
     \/ /\ ex.state # "DELIVERED" \/ verdict.engine = "raises"
        /\ Raise(t, th[t])
  /\ UNCHANGED <<timeouts, read, job, verdict, now, direct>>

\* A call of the chain that moves it from one of these states, or raises.
OnChain(t, step, from, to) ==
  /\ \/ /\ chain.status \in from
        /\ Go(t, step, "idle")
        /\ chain' = [chain EXCEPT !.status = to]
        /\ UNCHANGED <<ex, reached>>
     \/ chain.status \notin from /\ Raise(t, step)
  /\ UNCHANGED <<timeouts, read, job, verdict, now, direct>>

Anchor(t) == OnChain(t, "anchor", {"FUNDED"}, "FULFILLED")
---------------------------------------------------------------------------
(* settle, dispute, sweep_timeouts.                                        *)

\* The client confirms and the engine pays; a dispute may be confirmed too.
Confirm(t) ==
  /\ Can("SETTLED")
  /\ Go(t, "idle", "release")
  /\ Enter("SETTLED")
  /\ UNCHANGED <<timeouts, read, job, chain, verdict, now, direct>>

\* The engine pays before it looks at the state: a confirmation that comes before the
\* verdict raises once the money has moved, and the exchange stays as it is.
ConfirmEarly(t) ==
  /\ ex.state = "DELIVERED" /\ th[t] = "idle"
  /\ calm' = FALSE
  /\ UNCHANGED <<timeouts, read, ex, job, chain, verdict, th, now, reached, direct>>

\* Mutant: only a disputed record is paid.
Payable_Disputed == {"DISPUTED"}

\* The states from which the twin pays the provider.  The credential that is sent is
\* the only one there is, or none: it is never a wrong one.
Payable == {"FULFILLED", "DISPUTED"}

Release(t) == OnChain(t, "release", Payable, "SETTLED")

Dispute(t) ==
  /\ Can("DISPUTED")
  /\ Go(t, "idle", "contest")
  /\ Enter("DISPUTED")
  /\ UNCHANGED <<timeouts, read, job, chain, verdict, now, direct>>

Contest(t) == OnChain(t, "contest", {"FULFILLED"}, "DISPUTED")

\* The chain's deadlines are over; at the deadline itself they are not.
Overdue == \E d \in {chain.deliver, chain.verify} : d # None /\ now > d

\* Mutant: a refund although nothing expired.
AfterSweep_Always(expired) == "swept"

AfterSweep(expired) == IF expired THEN "swept" ELSE "jobs"

\* The engine's sweep.
Sweep(t) ==
  /\ Go(t, "idle", AfterSweep(Expires))
  /\ IF Expires THEN Enter("EXPIRED_REFUNDED") ELSE UNCHANGED <<ex, reached>>
  /\ UNCHANGED <<timeouts, read, job, chain, verdict, now, direct>>

\* The refund on the chain that follows an expiry: silent unless funded, an exception
\* when it is not due there or the record is missing.
ChainRefund(t, step, next) ==
  /\ \/ /\ chain.status = "FUNDED" /\ Overdue
        /\ Go(t, step, next)
        /\ chain' = [chain EXCEPT !.status = "REFUNDED"]
        /\ UNCHANGED <<ex, reached>>
     \/ /\ chain.status \notin {"NONE", "FUNDED"}
        /\ Go(t, step, next)
        /\ UNCHANGED <<ex, chain, reached>>
     \/ /\ chain.status = "NONE" \/ (chain.status = "FUNDED" /\ ~Overdue)
        /\ Raise(t, step)
  /\ UNCHANGED <<timeouts, read, job, verdict, now, direct>>

RefundSwept(t) == ChainRefund(t, "swept", "jobs")

\* A job that takes longer than the gateway promised, of an exchange still waiting.
Late == /\ Sla > 0 /\ job.status = "verifying" /\ now - job.started > Sla
        /\ ex.state = "DELIVERED"

LookAtJobs(t) ==
  /\ Go(t, "jobs", IF Late THEN "expire" ELSE "idle")
  /\ UNCHANGED <<timeouts, read, ex, job, chain, verdict, now, reached, direct>>

Expire(t) ==
  /\ \/ /\ Can("EXPIRED_REFUNDED")
        /\ Go(t, "expire", "refund")
        /\ Enter("EXPIRED_REFUNDED")
        /\ UNCHANGED chain
     \/ ~Can("EXPIRED_REFUNDED") /\ Raise(t, "expire")
  /\ UNCHANGED <<timeouts, read, job, verdict, now, direct>>

RefundLate(t) == ChainRefund(t, "refund", "idle")
---------------------------------------------------------------------------
(* What others do, and what goes wrong.                                    *)

\* The engine's arbitration; the orchestrator does not pass it on.
Resolve(outcome) ==
  /\ ex.state = "DISPUTED"
  /\ Enter(outcome)
  /\ calm' = FALSE
  /\ UNCHANGED <<timeouts, read, job, chain, verdict, th, now, direct>>

\* The chain called directly: anybody refunds and settles, a party or the arbitrator
\* disputes, the arbitrator rules.
DirectMove(from, to) ==
  \/ from = "FUNDED" /\ to = "REFUNDED" /\ Overdue
  \/ from \in Payable /\ to = "SETTLED"
  \/ from = "FULFILLED" /\ to = "DISPUTED"
  \/ from = "DISPUTED" /\ to \in {"SETTLED", "REFUNDED"}

DirectCall(to) ==
  /\ DirectMove(chain.status, to)
  /\ chain' = [chain EXCEPT !.status = to]
  /\ direct' = TRUE /\ calm' = FALSE
  /\ UNCHANGED <<timeouts, read, ex, job, verdict, th, now, reached>>

\* A call of the engine or the chain fails for a reason of its own, or the gateway dies.
CallFails(t) ==
  /\ th[t] \in {"createVdc", "backend", "accepted", "refused", "anchor", "release",
                "contest", "swept", "refund"}
  /\ th' = [th EXCEPT ![t] = "idle"]
  /\ calm' = FALSE
  /\ UNCHANGED <<timeouts, read, ex, job, chain, verdict, now, reached, direct>>

\* The process restarts: the engine's store and the chain remain.
Crash ==
  /\ th' = [t \in Thread |-> "idle"]
  /\ job' = NoJob
  /\ calm' = FALSE
  /\ UNCHANGED <<timeouts, read, ex, chain, verdict, now, reached, direct>>

Tick ==
  /\ now < MaxTime
  /\ now' = now + 1
  /\ UNCHANGED <<timeouts, read, ex, job, chain, verdict, th, reached, direct, calm>>

Step(t) ==
  \/ Create(t) \/ CreateVdc(t)
  \/ (\E v \in Backend : Deliver(t, v)) \/ Submit(t) \/ Answer(t) \/ Verify(t) \/ Anchor(t)
  \/ Confirm(t) \/ ConfirmEarly(t) \/ Release(t) \/ Dispute(t) \/ Contest(t)
  \/ Sweep(t) \/ RefundSwept(t) \/ LookAtJobs(t) \/ Expire(t) \/ RefundLate(t)
  \/ CallFails(t)

Next ==
  \/ \E t \in Thread : Step(t)
  \/ \E outcome \in {"SETTLED", "REJECTED"} : Resolve(outcome)
  \/ \E to \in OnChainStatus : DirectCall(to)
  \/ Crash \/ Tick

Spec == Init /\ [][Next]_vars
---------------------------------------------------------------------------
(* Properties.                                                             *)

Pc == {"idle", "createVdc", "submit", "backend", "accepted", "refused", "anchor", "release",
       "contest", "swept", "jobs", "expire", "refund"}

\* The types; a closed exchange waits for nothing, and a chain record has the deadline
\* of the delivery.
TypeOK ==
  /\ timeouts \in [Phase -> Timeout] /\ read \in Instant
  /\ ex \in [state : State \cup {Nothing}, deadline : Instant]
  /\ ex.state \in TerminalStates => ex.deadline = None
  /\ job \in [status : {"none", "verifying", "passed", "rejected", "failed"}, started : Nat]
  /\ chain \in [status : OnChainStatus, deliver : Instant, verify : Instant]
  /\ verdict \in Backend \cup {NoVerdict}
  /\ th \in [Thread -> Pc]
  /\ now \in 0 .. MaxTime /\ reached \subseteq State
  /\ direct \in BOOLEAN /\ calm \in BOOLEAN

\* A credential reaches the chain only for a delivery that the gateway passed and that
\* the engine verified: whatever is retried, expires, fails or is called directly, the
\* provider cannot be paid there for anything else (fulfill_with_proof).
ProofIsBacked ==
  chain.status \in {"FULFILLED", "DISPUTED", "SETTLED"}
    => verdict.gateway = "passed" /\ "VERIFIED" \in reached

\* The orchestrator's own calls move the chain's money only after the engine has closed
\* the exchange, and the way its state says: under all interleavings, failures and crashes
\* (settle, sweep_timeouts).
OrchestratorFollows ==
  ~direct => /\ chain.status = "SETTLED" => ex.state = "SETTLED"
             /\ chain.status = "REFUNDED" => ex.state = "EXPIRED_REFUNDED"

\* When operations do not overlap, fail, come too early or get bypassed, both sides have
\* paid the same party once an operation is through; what the engine refunds the chain may
\* still hold.
MoneyAgrees ==
  calm /\ (\A t \in Thread : th[t] = "idle")
    => /\ chain.status = "SETTLED" <=> ex.state = "SETTLED"
       /\ chain.status = "REFUNDED" => ex.state = "EXPIRED_REFUNDED"
       /\ chain.status = "DISPUTED" => ex.state = "DISPUTED"

\* The inductive invariant of the first two: what each step of an operation knows.
Delivered == ex.state \notin {Nothing, "ESCROWED"}

Knows(t) ==
  /\ th[t] = "release" => ex.state = "SETTLED"
  /\ th[t] \in {"swept", "refund"} => ex.state = "EXPIRED_REFUNDED"
  /\ th[t] \in {"submit", "backend", "accepted", "refused", "anchor"} => Delivered
  /\ th[t] \in {"accepted", "anchor"} => verdict.gateway = "passed"
  /\ th[t] = "anchor" => "VERIFIED" \in reached

AutoInv ==
  /\ ex.state \in State \cup {Nothing}
  /\ verdict \in Backend \cup {NoVerdict}
  /\ th \in [Thread -> Pc]
  /\ \A t \in Thread : Knows(t)
  /\ chain.status \in {"FULFILLED", "DISPUTED", "SETTLED"} => Delivered
  /\ ProofIsBacked /\ OrchestratorFollows

\* The inductive invariant of the third: between operations the two sides are in states
\* that belong together, and an operation that is alone finds them as it left them.
Standing ==
  /\ ex.state \in (State \ {"PROPOSED", "CONTRACTED", "CANCELLED"}) \cup {Nothing}
  /\ ex.state = Nothing => chain.status = "NONE"
  /\ ex.state \in {"ESCROWED", "DELIVERED", "REJECTED"} => chain.status = "FUNDED"
  /\ ex.state = "VERIFIED" => chain.status = "FULFILLED"
  /\ ex.state \in {"SETTLED", "DISPUTED"} => chain.status = ex.state
  /\ ex.state = "EXPIRED_REFUNDED" => chain.status \in {"FUNDED", "FULFILLED", "REFUNDED"}

Fits(pc) ==
  /\ pc \in {"idle", "jobs", "expire"} => Standing
  /\ pc = "createVdc" => ex.state = "ESCROWED" /\ chain.status = "NONE"
  /\ pc \in {"submit", "backend", "accepted", "refused"}
       => ex.state = "DELIVERED" /\ chain.status = "FUNDED"
  /\ pc \in {"accepted", "refused"} => (pc = "accepted" <=> verdict.gateway = "passed")
  /\ pc = "anchor" => ex.state = "VERIFIED" /\ chain.status = "FUNDED"
  /\ pc = "release" => ex.state = "SETTLED" /\ chain.status \in Payable
  /\ pc = "contest" => ex.state = "DISPUTED" /\ chain.status = "FULFILLED"
  /\ pc \in {"swept", "refund"}
       => ex.state = "EXPIRED_REFUNDED" /\ chain.status \in {"FUNDED", "FULFILLED"}

InStep ==
  /\ \A t, u \in Thread : th[t] # "idle" /\ th[u] # "idle" => t = u
  /\ \A t \in Thread : th[t] # "idle" => Fits(th[t])
  /\ (\A t \in Thread : th[t] = "idle") => Standing

CalmInv == calm => InStep
=============================================================================
