-------------------------- MODULE AutoSettleProofs --------------------------
(***************************************************************************)
(* Theorems about AutoSettle, for any number of callers, any timeouts and  *)
(* any promise of the gateway: the orchestrator moves the chain's money    *)
(* only after the engine's, anchors only what the engine verified, and     *)
(* both sides pay the same party when nothing disturbed an operation.      *)
(***************************************************************************)
EXTENDS AutoSettle, TLAPS

\* What the engine rejects no backend passes.
SameVerdict == \A v \in Backend : v.gateway = "passed" => v.engine # "rejected"

\* The closed states are final, and a delivery comes only out of escrow.
LEMMA Final ==
  ASSUME NEW s, ex.state \in State \cup {Nothing}, Can(s)
  PROVE  /\ ex.state \notin {"SETTLED", "EXPIRED_REFUNDED", Nothing}
         /\ s = "DELIVERED" => ~Delivered
BY DEF Can, CanTransition, Transitions, State, Nothing, Delivered

\* A thread moves on: what the others know stays true when the engine does not leave a
\* state that is closed, and the verdicts change only with a delivery.
LEMMA OthersKnow ==
  ASSUME AutoInv, NEW t \in Thread, NEW to \in Pc, th' = [th EXCEPT ![t] = to],
         ex.state \in {"SETTLED", "EXPIRED_REFUNDED"} => ex'.state = ex.state,
         Delivered => Delivered' /\ verdict' = verdict,
         reached \subseteq reached',
         to = th'[t] => Knows(t)'
  PROVE  th' \in [Thread -> Pc] /\ \A u \in Thread : Knows(u)'
<1>1. th \in [Thread -> Pc] /\ \A u \in Thread : Knows(u)
  BY DEF AutoInv
<1>2. th' \in [Thread -> Pc] /\ th'[t] = to
  BY <1>1
<1>3. ASSUME NEW u \in Thread, u # t PROVE Knows(u)'
  <2>1. th'[u] = th[u] /\ Knows(u)
    BY <1>1, <1>3
  <2> QED BY <2>1 DEF Knows
<1> QED BY <1>2, <1>3

\* A step of the engine: the chain stays, and was not settled by the orchestrator yet.
LEMMA EngineStep ==
  ASSUME AutoInv, NEW s \in State \ {"ESCROWED"}, Enter(s), UNCHANGED <<chain, direct>>,
         ex.state \notin {"SETTLED", "EXPIRED_REFUNDED"},
         verdict' \in Backend \cup {NoVerdict}, Delivered => verdict' = verdict,
         th' \in [Thread -> Pc], \A u \in Thread : Knows(u)'
  PROVE  AutoInv'
<1>1. ex'.state = s /\ reached \subseteq reached' /\ Delivered'
  BY DEF Enter, Delivered, State, Nothing
<1>2. ProofIsBacked'
  BY <1>1 DEF AutoInv, ProofIsBacked
<1>3. OrchestratorFollows'
  BY DEF AutoInv, OrchestratorFollows
<1> QED BY <1>1, <1>2, <1>3 DEF AutoInv

\* A step that leaves the engine alone.
LEMMA ChainStep ==
  ASSUME AutoInv, UNCHANGED <<ex, verdict, reached>>,
         th' \in [Thread -> Pc], \A u \in Thread : Knows(u)',
         chain'.status \in {"FULFILLED", "DISPUTED", "SETTLED"}
           => Delivered /\ verdict.gateway = "passed" /\ "VERIFIED" \in reached,
         OrchestratorFollows'
  PROVE  AutoInv'
BY DEF AutoInv, ProofIsBacked, Delivered

\* A thread moves on and nothing else that matters changes.
LEMMA OnlyMoves ==
  ASSUME AutoInv, NEW t \in Thread, NEW to \in Pc, th' = [th EXCEPT ![t] = to],
         UNCHANGED <<ex, verdict, reached, chain, direct>>,
         th'[t] = to => Knows(t)'
  PROVE  AutoInv'
<1>1. th' \in [Thread -> Pc] /\ \A u \in Thread : Knows(u)'
  BY OthersKnow DEF Delivered
<1>2. OrchestratorFollows'
  BY DEF AutoInv, OrchestratorFollows
<1> QED BY <1>1, <1>2, ChainStep DEF AutoInv, ProofIsBacked

\* An operation ends: the thread knows nothing any more.
LEMMA OnlyEnds ==
  ASSUME AutoInv, NEW t \in Thread, NEW to \in {"idle", "jobs", "expire"},
         th' = [th EXCEPT ![t] = to],
         UNCHANGED <<ex, verdict, reached, chain, direct>>
  PROVE  AutoInv'
<1>1. to \in Pc /\ (th'[t] = to => Knows(t)')
  BY DEF Pc, Knows
<1> QED BY <1>1, OnlyMoves

\* The engine's part of an operation.
LEMMA EngineThenMoves ==
  ASSUME AutoInv, NEW t \in Thread, NEW to \in Pc, th' = [th EXCEPT ![t] = to],
         NEW s \in State \ {"ESCROWED"}, Can(s), Enter(s), UNCHANGED <<chain, direct>>,
         verdict' \in Backend \cup {NoVerdict}, s # "DELIVERED" => verdict' = verdict,
         th'[t] = to => Knows(t)'
  PROVE  AutoInv'
<1>1. /\ ex.state \notin {"SETTLED", "EXPIRED_REFUNDED", Nothing}
      /\ Delivered => verdict' = verdict
  BY Final DEF AutoInv
<1>2. Delivered' /\ reached \subseteq reached'
  BY DEF Enter, Delivered, State, Nothing
<1>3. th' \in [Thread -> Pc] /\ \A u \in Thread : Knows(u)'
  BY <1>1, <1>2, OthersKnow
<1> QED BY <1>1, <1>3, EngineStep

\* The orchestrator's part on the chain, with what it asks of the states it starts from.
LEMMA OnChainStep ==
  ASSUME AutoInv, NEW t \in Thread, NEW step, NEW from, NEW to, OnChain(t, step, from, to),
         chain.status \in from /\ th[t] = step =>
           /\ to \in {"FULFILLED", "DISPUTED", "SETTLED"}
           /\ Delivered /\ verdict.gateway = "passed" /\ "VERIFIED" \in reached
           /\ to = "SETTLED" => ex.state = "SETTLED"
  PROVE  AutoInv'
<1>1. CASE chain.status \in from
  <2>1. /\ th' = [th EXCEPT ![t] = "idle"] /\ th[t] = step
        /\ UNCHANGED <<ex, verdict, reached, direct>>
        /\ chain' = [chain EXCEPT !.status = to]
    BY <1>1 DEF OnChain, Go, Raise
  <2>2. "idle" \in Pc /\ (th'[t] = "idle" => Knows(t)')
    BY DEF Pc, Knows
  <2>3. th' \in [Thread -> Pc] /\ \A u \in Thread : Knows(u)'
    BY <2>1, <2>2, OthersKnow DEF Delivered
  <2>4. chain'.status = to \/ chain'.status = chain.status
    BY <2>1
  <2>5. OrchestratorFollows'
    BY <1>1, <2>1, <2>4 DEF AutoInv, OrchestratorFollows
  <2> QED BY <1>1, <2>1, <2>3, <2>5, ChainStep
<1>2. CASE chain.status \notin from
  <2>1. th' = [th EXCEPT ![t] = "idle"] /\ UNCHANGED <<ex, verdict, reached, chain, direct>>
    BY <1>2 DEF OnChain, Go, Raise
  <2> QED BY <2>1, OnlyEnds
<1> QED BY <1>1, <1>2

\* The refund on the chain follows the engine's.
LEMMA ChainRefundStep ==
  ASSUME AutoInv, NEW t \in Thread, NEW step \in {"swept", "refund"},
         NEW next \in {"idle", "jobs"}, ChainRefund(t, step, next)
  PROVE  AutoInv'
<1>1. CASE chain.status = "FUNDED" /\ Overdue
  <2>1. /\ th' = [th EXCEPT ![t] = next] /\ th[t] = step
        /\ UNCHANGED <<ex, verdict, reached, direct>>
        /\ chain' = [chain EXCEPT !.status = "REFUNDED"]
    BY <1>1 DEF ChainRefund, Go, Raise
  <2>2. next \in Pc /\ (th'[t] = next => Knows(t)')
    BY DEF Pc, Knows
  <2>3. th' \in [Thread -> Pc] /\ \A u \in Thread : Knows(u)'
    BY <2>1, <2>2, OthersKnow DEF Delivered
  <2>4. chain'.status \in {"REFUNDED", "FUNDED"}
    BY <1>1, <2>1
  <2>5. ex.state = "EXPIRED_REFUNDED"
    BY <2>1 DEF AutoInv, Knows
  <2>6. OrchestratorFollows'
    BY <2>1, <2>4, <2>5 DEF OrchestratorFollows
  <2> QED BY <2>1, <2>3, <2>4, <2>6, ChainStep
<1>2. CASE ~(chain.status = "FUNDED" /\ Overdue)
  <2>1. /\ \E to \in {"idle", "jobs"} : th' = [th EXCEPT ![t] = to]
        /\ UNCHANGED <<ex, verdict, reached, chain, direct>>
    BY <1>2 DEF ChainRefund, Go, Raise
  <2> QED BY <2>1, OnlyEnds
<1> QED BY <1>1, <1>2

\* The verification: what the gateway passed and the engine answered is verified.
LEMMA VerifyStep ==
  ASSUME SameVerdict, AutoInv, NEW t \in Thread, Verify(t)
  PROVE  AutoInv'
<1> DEFINE s == IF verdict.engine = "passed" THEN "VERIFIED" ELSE "REJECTED"
           to == AfterVerify(th[t])
<1>1. CASE ex.state = "DELIVERED" /\ verdict.engine # "raises"
  <2>1. /\ th' = [th EXCEPT ![t] = to] /\ Enter(s)
        /\ UNCHANGED <<verdict, chain, direct>> /\ th[t] \in {"accepted", "refused"}
    BY <1>1 DEF Verify, Go, Raise
  <2>2. s \in State \ {"ESCROWED", "DELIVERED"} /\ Can(s)
    BY <1>1 DEF State, Can, CanTransition, Transitions, Nothing
  <2>3. to \in Pc /\ verdict \in Backend \cup {NoVerdict}
    BY DEF AfterVerify, Pc, AutoInv
  <2>4. ASSUME to = "anchor" PROVE verdict.gateway = "passed" /\ "VERIFIED" \in reached'
    <3>1. verdict.gateway = "passed"
      BY <2>1, <2>4 DEF AfterVerify, AutoInv, Knows
    <3>2. verdict \in Backend
      BY <3>1, <2>3 DEF NoVerdict
    <3>3. verdict.engine = "passed"
      <4>1. verdict.engine \in {"passed", "rejected", "raises"}
        BY <3>2, AutoSettleAssumption
      <4> QED BY <1>1, <3>1, <3>2, <4>1 DEF SameVerdict
    <3> QED BY <2>1, <3>1, <3>3 DEF Enter
  <2>5. ex'.state = s /\ Delivered'
    BY <2>1, <2>2 DEF Enter, Delivered, State, Nothing
  <2>6. th'[t] = to => Knows(t)'
    BY <2>1, <2>4, <2>5 DEF Knows, AfterVerify
  <2> HIDE DEF s, to
  <2> QED BY <2>1, <2>2, <2>3, <2>6, EngineThenMoves
<1>2. CASE ex.state # "DELIVERED" \/ verdict.engine = "raises"
  <2>1. th' = [th EXCEPT ![t] = "idle"] /\ UNCHANGED <<ex, verdict, reached, chain, direct>>
    BY <1>2 DEF Verify, Go, Raise
  <2> QED BY <2>1, OnlyEnds
<1> QED BY <1>1, <1>2

\* The initial states.
LEMMA InitSound == Init => AutoInv
<1> SUFFICES ASSUME Init PROVE AutoInv
  OBVIOUS
<1>1. th \in [Thread -> Pc] /\ \A t \in Thread : th[t] = "idle"
  BY DEF Init, Pc
<1>2. chain.status = "NONE" /\ ex.state = Nothing /\ verdict = NoVerdict
  BY DEF Init
<1> QED BY <1>1, <1>2 DEF AutoInv, Knows, ProofIsBacked, OrchestratorFollows

\* Every step keeps the invariant.
LEMMA StepSound ==
  ASSUME SameVerdict, AutoInv, [Next]_vars
  PROVE  AutoInv'
<1>1. ASSUME NEW t \in Thread, Create(t) PROVE AutoInv'
  <2>1. /\ ex.state = Nothing /\ Enter("ESCROWED") /\ th' = [th EXCEPT ![t] = "createVdc"]
        /\ UNCHANGED <<verdict, chain, direct>>
    BY <1>1 DEF Create, Go
  <2>2. ~Delivered /\ ex'.state = "ESCROWED" /\ reached \subseteq reached'
    BY <2>1 DEF Delivered, Enter
  <2>3. "createVdc" \in Pc /\ (th'[t] = "createVdc" => Knows(t)')
    BY DEF Pc, Knows
  <2>4. th' \in [Thread -> Pc] /\ \A u \in Thread : Knows(u)'
    BY <2>1, <2>2, <2>3, OthersKnow, Zenon DEF Nothing
  <2>5. chain.status \notin {"FULFILLED", "DISPUTED", "SETTLED"}
    BY <2>2 DEF AutoInv
  <2>6. ProofIsBacked' /\ OrchestratorFollows'
    BY <2>1, <2>5 DEF ProofIsBacked, OrchestratorFollows, AutoInv, Nothing
  <2> QED BY <2>1, <2>2, <2>4, <2>5, <2>6 DEF AutoInv, State
<1>2. ASSUME NEW t \in Thread, CreateVdc(t) PROVE AutoInv'
  <2>1. CASE chain.status = "NONE"
    <3>1. /\ th' = [th EXCEPT ![t] = "idle"] /\ UNCHANGED <<ex, verdict, reached, direct>>
          /\ chain'.status = "FUNDED"
      BY <1>2, <2>1 DEF CreateVdc, Go, Raise
    <3>2. "idle" \in Pc /\ (th'[t] = "idle" => Knows(t)')
      BY DEF Pc, Knows
    <3>3. th' \in [Thread -> Pc] /\ \A u \in Thread : Knows(u)'
      BY <3>1, <3>2, OthersKnow DEF Delivered
    <3>4. OrchestratorFollows'
      BY <3>1 DEF OrchestratorFollows
    <3> QED BY <3>1, <3>3, <3>4, ChainStep
  <2>2. CASE chain.status # "NONE"
    <3>1. /\ th' = [th EXCEPT ![t] = "idle"]
          /\ UNCHANGED <<ex, verdict, reached, chain, direct>>
      BY <1>2, <2>2 DEF CreateVdc, Go, Raise
    <3> QED BY <3>1, OnlyEnds
  <2> QED BY <2>1, <2>2
<1>3. ASSUME NEW t \in Thread, NEW v \in Backend, Deliver(t, v) PROVE AutoInv'
  <2>1. /\ Can("DELIVERED") /\ Enter("DELIVERED") /\ th' = [th EXCEPT ![t] = "submit"]
        /\ UNCHANGED <<chain, direct>> /\ verdict' = v
    BY <1>3 DEF Deliver, Go
  <2>2. Delivered' /\ "submit" \in Pc /\ "DELIVERED" \in State \ {"ESCROWED"}
    BY <2>1 DEF Delivered, Enter, Pc, State, Nothing
  <2>3. th'[t] = "submit" => Knows(t)'
    BY <2>2 DEF Knows
  <2> QED BY <2>1, <2>2, <2>3, EngineThenMoves
<1>4. ASSUME NEW t \in Thread, Submit(t) PROVE AutoInv'
  <2>1. /\ th[t] = "submit" /\ th' = [th EXCEPT ![t] = "backend"]
        /\ UNCHANGED <<ex, verdict, reached, chain, direct>>
    BY <1>4 DEF Submit, Go
  <2>2. "backend" \in Pc /\ Delivered'
    BY <2>1 DEF Pc, AutoInv, Knows, Delivered
  <2>3. th'[t] = "backend" => Knows(t)'
    BY <2>2 DEF Knows
  <2> QED BY <2>1, <2>2, <2>3, OnlyMoves
<1>5. ASSUME NEW t \in Thread, Answer(t) PROVE AutoInv'
  <2> DEFINE to == IF verdict.gateway = "passed" THEN "accepted" ELSE "refused"
  <2>1. /\ th[t] = "backend" /\ th' = [th EXCEPT ![t] = to]
        /\ UNCHANGED <<ex, verdict, reached, chain, direct>>
    BY <1>5 DEF Answer, Go
  <2>2. to \in Pc /\ Delivered'
    BY <2>1 DEF Pc, AutoInv, Knows, Delivered
  <2>3. th'[t] = to => Knows(t)'
    BY <2>1, <2>2 DEF Knows
  <2> HIDE DEF to
  <2> QED BY <2>1, <2>2, <2>3, OnlyMoves
<1>6. ASSUME NEW t \in Thread, Verify(t) PROVE AutoInv'
  BY <1>6, VerifyStep
<1>7. ASSUME NEW t \in Thread, Anchor(t) PROVE AutoInv'
  <2>1. OnChain(t, "anchor", {"FUNDED"}, "FULFILLED")
    BY <1>7 DEF Anchor
  <2>2. th[t] = "anchor" => Delivered /\ verdict.gateway = "passed" /\ "VERIFIED" \in reached
    BY DEF AutoInv, Knows
  <2> QED BY <2>1, <2>2, OnChainStep
<1>8. ASSUME NEW t \in Thread, Confirm(t) PROVE AutoInv'
  <2>1. /\ Can("SETTLED") /\ Enter("SETTLED") /\ th' = [th EXCEPT ![t] = "release"]
        /\ UNCHANGED <<verdict, chain, direct>>
    BY <1>8 DEF Confirm, Go
  <2>2. /\ ex'.state = "SETTLED" /\ "release" \in Pc /\ "SETTLED" \in State \ {"ESCROWED"}
        /\ verdict' \in Backend \cup {NoVerdict}
    BY <2>1 DEF Enter, Pc, State, AutoInv
  <2>3. th'[t] = "release" => Knows(t)'
    BY <2>2 DEF Knows
  <2> QED BY <2>1, <2>2, <2>3, EngineThenMoves
<1>9. ASSUME NEW t \in Thread, Release(t) PROVE AutoInv'
  <2>1. OnChain(t, "release", Payable, "SETTLED")
    BY <1>9 DEF Release
  <2>2. chain.status \in Payable => Delivered /\ verdict.gateway = "passed" /\ "VERIFIED" \in reached
    BY DEF AutoInv, ProofIsBacked, Payable
  <2>3. th[t] = "release" => ex.state = "SETTLED"
    BY DEF AutoInv, Knows
  <2> QED BY <2>1, <2>2, <2>3, OnChainStep
<1>10. ASSUME NEW t \in Thread, Dispute(t) PROVE AutoInv'
  <2>1. /\ Can("DISPUTED") /\ Enter("DISPUTED") /\ th' = [th EXCEPT ![t] = "contest"]
        /\ UNCHANGED <<verdict, chain, direct>>
    BY <1>10 DEF Dispute, Go
  <2>2. /\ "contest" \in Pc /\ "DISPUTED" \in State \ {"ESCROWED"}
        /\ verdict' \in Backend \cup {NoVerdict} /\ (th'[t] = "contest" => Knows(t)')
    BY <2>1 DEF Pc, State, AutoInv, Knows
  <2> QED BY <2>1, <2>2, EngineThenMoves
<1>11. ASSUME NEW t \in Thread, Contest(t) PROVE AutoInv'
  <2>1. OnChain(t, "contest", {"FULFILLED"}, "DISPUTED")
    BY <1>11 DEF Contest
  <2>2. chain.status = "FULFILLED" => Delivered /\ verdict.gateway = "passed" /\ "VERIFIED" \in reached
    BY DEF AutoInv, ProofIsBacked
  <2> QED BY <2>1, <2>2, OnChainStep
<1>12. ASSUME NEW t \in Thread, Sweep(t) PROVE AutoInv'
  <2>1. CASE Expires
    <3>1. /\ Can("EXPIRED_REFUNDED") /\ Enter("EXPIRED_REFUNDED")
          /\ th' = [th EXCEPT ![t] = "swept"] /\ UNCHANGED <<verdict, chain, direct>>
      BY <1>12, <2>1 DEF Sweep, Go, Expires, AfterSweep
    <3>2. /\ "swept" \in Pc /\ "EXPIRED_REFUNDED" \in State \ {"ESCROWED"}
          /\ verdict' \in Backend \cup {NoVerdict} /\ ex'.state = "EXPIRED_REFUNDED"
      BY <3>1 DEF Pc, State, AutoInv, Enter
    <3>3. th'[t] = "swept" => Knows(t)'
      BY <3>2 DEF Knows
    <3> QED BY <3>1, <3>2, <3>3, EngineThenMoves
  <2>2. CASE ~Expires
    <3>1. /\ th' = [th EXCEPT ![t] = "jobs"]
          /\ UNCHANGED <<ex, verdict, reached, chain, direct>>
      BY <1>12, <2>2 DEF Sweep, Go, AfterSweep
    <3> QED BY <3>1, OnlyEnds
  <2> QED BY <2>1, <2>2
<1>13. ASSUME NEW t \in Thread, RefundSwept(t) \/ RefundLate(t) PROVE AutoInv'
  BY <1>13, ChainRefundStep DEF RefundSwept, RefundLate
<1>14. ASSUME NEW t \in Thread, LookAtJobs(t) PROVE AutoInv'
  <2>1. /\ \E to \in {"idle", "expire"} : th' = [th EXCEPT ![t] = to]
        /\ UNCHANGED <<ex, verdict, reached, chain, direct>>
    BY <1>14 DEF LookAtJobs, Go
  <2> QED BY <2>1, OnlyEnds
<1>15. ASSUME NEW t \in Thread, Expire(t) PROVE AutoInv'
  <2>1. CASE Can("EXPIRED_REFUNDED")
    <3>1. /\ Enter("EXPIRED_REFUNDED") /\ th' = [th EXCEPT ![t] = "refund"]
          /\ UNCHANGED <<verdict, chain, direct>>
      BY <1>15, <2>1 DEF Expire, Go
    <3>2. /\ "refund" \in Pc /\ "EXPIRED_REFUNDED" \in State \ {"ESCROWED"}
          /\ verdict' \in Backend \cup {NoVerdict} /\ ex'.state = "EXPIRED_REFUNDED"
      BY <3>1 DEF Pc, State, AutoInv, Enter
    <3>3. th'[t] = "refund" => Knows(t)'
      BY <3>2 DEF Knows
    <3> QED BY <2>1, <3>1, <3>2, <3>3, EngineThenMoves
  <2>2. CASE ~Can("EXPIRED_REFUNDED")
    <3>1. /\ th' = [th EXCEPT ![t] = "idle"]
          /\ UNCHANGED <<ex, verdict, reached, chain, direct>>
      BY <1>15, <2>2 DEF Expire, Go, Raise
    <3> QED BY <3>1, OnlyEnds
  <2> QED BY <2>1, <2>2
<1>16. ASSUME NEW outcome \in {"SETTLED", "REJECTED"}, Resolve(outcome) PROVE AutoInv'
  <2>1. /\ ex.state = "DISPUTED" /\ Enter(outcome) /\ UNCHANGED <<verdict, chain, th, direct>>
    BY <1>16 DEF Resolve
  <2>2. /\ outcome \in State \ {"ESCROWED"} /\ verdict' \in Backend \cup {NoVerdict}
        /\ th' \in [Thread -> Pc]
    BY <2>1 DEF State, AutoInv
  <2>3. Delivered' /\ reached \subseteq reached'
    BY <2>1, <2>2 DEF Enter, Delivered, State, Nothing
  <2>4. \A u \in Thread : Knows(u)'
    BY <2>1, <2>3 DEF AutoInv, Knows
  <2> QED BY <2>1, <2>2, <2>4, EngineStep
<1>17. ASSUME NEW to \in OnChainStatus, DirectCall(to) PROVE AutoInv'
  <2>1. /\ DirectMove(chain.status, to) /\ direct'
        /\ UNCHANGED <<ex, verdict, th, reached>>
        /\ chain'.status = to \/ chain'.status = chain.status
    BY <1>17 DEF DirectCall
  <2>2. /\ th' \in [Thread -> Pc] /\ (\A u \in Thread : Knows(u)') /\ OrchestratorFollows'
    BY <2>1 DEF AutoInv, Knows, Delivered, OrchestratorFollows
  <2>3. chain'.status \in {"FULFILLED", "DISPUTED", "SETTLED"}
          => chain.status \in {"FULFILLED", "DISPUTED", "SETTLED"}
    BY <2>1 DEF DirectMove, Payable
  <2> QED BY <2>1, <2>2, <2>3, ChainStep DEF AutoInv, ProofIsBacked
<1>18. ASSUME NEW t \in Thread, CallFails(t) PROVE AutoInv'
  BY <1>18, OnlyEnds DEF CallFails
<1>23. ASSUME NEW t \in Thread, ConfirmEarly(t) PROVE AutoInv'
  BY <1>23 DEF ConfirmEarly, AutoInv, Knows, Delivered, ProofIsBacked, OrchestratorFollows
<1>19. ASSUME Crash PROVE AutoInv'
  <2>1. /\ th' = [t \in Thread |-> "idle"] /\ UNCHANGED <<ex, verdict, reached, chain, direct>>
    BY <1>19 DEF Crash
  <2>2. th' \in [Thread -> Pc] /\ \A u \in Thread : Knows(u)'
    BY <2>1 DEF Pc, Knows
  <2> QED BY <2>1, <2>2 DEF AutoInv, ProofIsBacked, OrchestratorFollows, Delivered
<1>20. ASSUME UNCHANGED <<ex, verdict, th, reached, chain, direct>> PROVE AutoInv'
  BY <1>20 DEF AutoInv, Knows, ProofIsBacked, OrchestratorFollows, Delivered
<1>21. Tick \/ UNCHANGED vars => UNCHANGED <<ex, verdict, th, reached, chain, direct>>
  BY DEF Tick, vars
<1>22. ASSUME NEW t \in Thread, Step(t) PROVE AutoInv'
  BY <1>1, <1>2, <1>3, <1>4, <1>5, <1>6, <1>7, <1>8, <1>9, <1>10, <1>11, <1>12, <1>13,
     <1>14, <1>15, <1>18, <1>22, <1>23 DEF Step
<1> QED BY <1>16, <1>17, <1>19, <1>20, <1>21, <1>22 DEF Next

\* Where gateway and engine judge alike, a step of an operation knows what the operation
\* did before it, under every interleaving, failure and crash (orchestrator.py).
THEOREM OperationsKnow == ASSUME SameVerdict PROVE Spec => []AutoInv
<1>1. AutoInv /\ [Next]_vars => AutoInv'
  BY StepSound
<1> QED BY <1>1, InitSound, PTL DEF Spec

\* Only what the gateway passed and the engine verified becomes payable on the chain.
THEOREM PayableIsVerified == ASSUME SameVerdict PROVE Spec => []ProofIsBacked
<1>1. AutoInv => ProofIsBacked
  BY DEF AutoInv
<1> QED BY <1>1, OperationsKnow, PTL

\* Unless the chain is called directly its money goes where the engine's went before.
THEOREM ChainFollows == ASSUME SameVerdict PROVE Spec => []OrchestratorFollows
<1>1. AutoInv => OrchestratorFollows
  BY DEF AutoInv
<1> QED BY <1>1, OperationsKnow, PTL
---------------------------------------------------------------------------
(* Money on both sides, when operations do not overlap.                    *)

\* Gateway and engine judge alike, unless the engine's verifier fails.
JudgeAlike == \A v \in Backend :
                v.engine # "raises" => (v.gateway = "passed" <=> v.engine = "passed")

\* The backends that wrap the schema verifier judge so (verification_gateway/backend.py).
LEMMA SchemaJudgesAlike == ASSUME Backend \subseteq SchemaBackend PROVE JudgeAlike
BY DEF JudgeAlike, SchemaBackend

LEMMA AlikeIsSame == ASSUME JudgeAlike PROVE SameVerdict
BY DEF JudgeAlike, SameVerdict

\* A step of a thread that is alone takes one fit of the two sides to the next.
LEMMA CalmStep ==
  ASSUME CalmInv, th \in [Thread -> Pc], NEW t \in Thread, NEW from, NEW to,
         Go(t, from, to), Fits(from) => Fits(to)'
  PROVE  CalmInv'
<1> SUFFICES ASSUME calm' PROVE InStep'
  BY DEF CalmInv
<1>1. /\ calm /\ th[t] = from /\ th' = [th EXCEPT ![t] = to]
      /\ \A u \in Thread \ {t} : th[u] = "idle"
  BY DEF Go
<1>2. Fits(from)
  <2>1. CASE from = "idle"
    <3>1. Standing
      BY <1>1, <2>1 DEF CalmInv, InStep
    <3> QED BY <2>1, <3>1 DEF Fits
  <2>2. CASE from # "idle"
    BY <1>1, <2>2 DEF CalmInv, InStep
  <2> QED BY <2>1, <2>2
<1>3. th'[t] = to /\ \A u \in Thread \ {t} : th'[u] = "idle"
  BY <1>1
<1>4. to = "idle" => Standing'
  BY <1>2 DEF Fits
<1> QED BY <1>2, <1>3, <1>4 DEF InStep

\* An operation that ends in an exception leaves the two sides as they are.
LEMMA CalmRaise ==
  ASSUME CalmInv, th \in [Thread -> Pc], NEW t \in Thread, NEW from, Raise(t, from),
         Fits(from) => Standing
  PROVE  CalmInv'
<1>1. Go(t, from, "idle") /\ UNCHANGED <<ex, chain>>
  BY DEF Raise
<1>2. Fits(from) => Fits("idle")'
  BY <1>1 DEF Fits, Standing
<1> QED BY <1>1, <1>2, CalmStep

\* An operation on the chain that finds it where it should be.
LEMMA CalmOnChain ==
  ASSUME CalmInv, th \in [Thread -> Pc], NEW t \in Thread, NEW step, NEW from, NEW to,
         OnChain(t, step, from, to), Fits(step) => chain.status \in from,
         Fits(step) /\ ex' = ex /\ chain'.status = to => Standing',
         chain \in [status : OnChainStatus, deliver : Instant, verify : Instant]
  PROVE  CalmInv'
<1>1. CASE chain.status \in from
  <2>1. Go(t, step, "idle") /\ ex' = ex /\ chain' = [chain EXCEPT !.status = to]
    BY <1>1 DEF OnChain, Raise
  <2>2. chain'.status = to
    BY <2>1
  <2>3. Fits(step) => Fits("idle")'
    BY <2>1, <2>2 DEF Fits
  <2> QED BY <2>1, <2>3, CalmStep
<1>2. CASE chain.status \notin from
  <2>1. Raise(t, step)
    BY <1>2 DEF OnChain
  <2>2. Fits(step) => Standing
    BY <1>2
  <2> QED BY <2>1, <2>2, CalmRaise
<1> QED BY <1>1, <1>2

\* The refund on the chain leaves it refunded or as it was.
LEMMA CalmRefund ==
  ASSUME CalmInv, th \in [Thread -> Pc], NEW t \in Thread, NEW step \in {"swept", "refund"},
         NEW next \in {"idle", "jobs"}, ChainRefund(t, step, next),
         chain \in [status : OnChainStatus, deliver : Instant, verify : Instant]
  PROVE  CalmInv'
<1>1. CASE Raise(t, step)
  <2>1. Fits(step) => Standing
    BY DEF Fits, Standing, State, Nothing
  <2> QED BY <1>1, <2>1, CalmRaise
<1>2. CASE Go(t, step, next) /\ ex' = ex /\ (chain'.status = "REFUNDED" \/ chain' = chain)
  <2>1. Fits(step) => Fits(next)'
    BY <1>2 DEF Fits, Standing, State, Nothing
  <2> QED BY <1>2, <2>1, CalmStep
<1>3. Raise(t, step) \/ (Go(t, step, next) /\ ex' = ex /\ (chain'.status = "REFUNDED" \/ chain' = chain))
  BY DEF ChainRefund
<1> QED BY <1>1, <1>2, <1>3

\* Only steps that leave the history calm matter.
LEMMA NoLongerCalm == ASSUME calm' = FALSE PROVE CalmInv'
BY DEF CalmInv

\* Every step keeps the two sides together.
LEMMA CalmStepSound ==
  ASSUME JudgeAlike, AutoInv, CalmInv, [Next]_vars,
         chain \in [status : OnChainStatus, deliver : Instant, verify : Instant]
  PROVE  CalmInv'
<1>0. /\ th \in [Thread -> Pc] /\ verdict \in Backend \cup {NoVerdict}
      /\ ex.state \in State \cup {Nothing}
  BY DEF AutoInv
<1>1. ASSUME NEW t \in Thread, Create(t) PROVE CalmInv'
  <2>1. Go(t, "idle", "createVdc") /\ ex'.state = "ESCROWED" /\ chain' = chain /\ ex.state = Nothing
    BY <1>1 DEF Create, Enter
  <2>2. Fits("idle") => Fits("createVdc")'
    BY <2>1 DEF Fits, Standing
  <2> QED BY <1>0, <2>1, <2>2, CalmStep
<1>2. ASSUME NEW t \in Thread, CreateVdc(t) PROVE CalmInv'
  <2>1. CASE chain.status = "NONE"
    <3>1. Go(t, "createVdc", "idle") /\ ex' = ex /\ chain'.status = "FUNDED"
      BY <1>2, <2>1 DEF CreateVdc, Raise
    <3>2. Fits("createVdc") => Fits("idle")'
      BY <3>1 DEF Fits, Standing, State, Nothing
    <3> QED BY <1>0, <3>1, <3>2, CalmStep
  <2>2. CASE chain.status # "NONE"
    <3>1. Raise(t, "createVdc") /\ (Fits("createVdc") => Standing)
      BY <1>2, <2>2 DEF CreateVdc, Fits
    <3> QED BY <1>0, <3>1, CalmRaise
  <2> QED BY <2>1, <2>2
<1>3. ASSUME NEW t \in Thread, NEW v \in Backend, Deliver(t, v) PROVE CalmInv'
  <2>1. /\ Go(t, "idle", "submit") /\ ex'.state = "DELIVERED" /\ chain' = chain
        /\ Can("DELIVERED")
    BY <1>3 DEF Deliver, Enter
  <2>2. ex.state = "ESCROWED"
    BY <1>0, <2>1 DEF Can, CanTransition, Transitions, State, Nothing
  <2>3. Fits("idle") => Fits("submit")'
    BY <2>1, <2>2 DEF Fits, Standing
  <2> QED BY <1>0, <2>1, <2>3, CalmStep
<1>4. ASSUME NEW t \in Thread, Submit(t) PROVE CalmInv'
  <2>1. Go(t, "submit", "backend") /\ UNCHANGED <<ex, chain>>
    BY <1>4 DEF Submit
  <2>2. Fits("submit") => Fits("backend")'
    BY <2>1 DEF Fits
  <2> QED BY <1>0, <2>1, <2>2, CalmStep
<1>5. ASSUME NEW t \in Thread, Answer(t) PROVE CalmInv'
  <2>1. PICK to \in {"accepted", "refused"} :
          /\ Go(t, "backend", to) /\ UNCHANGED <<ex, chain, verdict>>
          /\ to = "accepted" <=> verdict.gateway = "passed"
    BY <1>5 DEF Answer
  <2>2. Fits("backend") => Fits(to)'
    BY <2>1 DEF Fits
  <2> QED BY <1>0, <2>1, <2>2, CalmStep
<1>6. ASSUME NEW t \in Thread, Verify(t) PROVE CalmInv'
  <2>1. PICK from \in {"accepted", "refused"} : th[t] = from
    BY <1>6 DEF Verify
  <2>2. CASE ex.state = "DELIVERED" /\ verdict.engine # "raises"
    <3>1. /\ Go(t, from, AfterVerify(from)) /\ chain' = chain
          /\ ex'.state = IF verdict.engine = "passed" THEN "VERIFIED" ELSE "REJECTED"
      BY <1>6, <2>1, <2>2 DEF Verify, Raise, Enter
    <3>2. verdict.gateway = "passed" <=> verdict.engine = "passed"
      BY <1>0, <2>2 DEF JudgeAlike, NoVerdict
    <3>3. Fits("accepted") => Fits("anchor")'
      BY <3>1, <3>2 DEF Fits
    <3>4. Fits("refused") => Fits("idle")'
      BY <3>1, <3>2 DEF Fits, Standing, State, Nothing
    <3>5. CASE from = "accepted"
      <4>1. Go(t, "accepted", "anchor")
        BY <3>1, <3>5 DEF AfterVerify
      <4> QED BY <1>0, <3>3, <4>1, CalmStep
    <3>6. CASE from = "refused"
      <4>1. Go(t, "refused", "idle")
        BY <3>1, <3>6 DEF AfterVerify
      <4> QED BY <1>0, <3>4, <4>1, CalmStep
    <3> QED BY <3>5, <3>6
  <2>3. CASE ex.state # "DELIVERED" \/ verdict.engine = "raises"
    <3>1. Raise(t, from)
      BY <1>6, <2>1, <2>3 DEF Verify
    <3>2. Fits(from) => Standing
      BY DEF Fits, Standing, State, Nothing
    <3> QED BY <1>0, <3>1, <3>2, CalmRaise
  <2> QED BY <2>2, <2>3
<1>7. ASSUME NEW t \in Thread, Anchor(t) PROVE CalmInv'
  <2>1. OnChain(t, "anchor", {"FUNDED"}, "FULFILLED")
    BY <1>7 DEF Anchor
  <2>2. Fits("anchor") => chain.status \in {"FUNDED"}
    BY DEF Fits
  <2>3. Fits("anchor") /\ ex' = ex /\ chain'.status = "FULFILLED" => Standing'
    BY DEF Fits, Standing, State, Nothing
  <2> QED BY <1>0, <2>1, <2>2, <2>3, CalmOnChain
<1>8. ASSUME NEW t \in Thread, Confirm(t) PROVE CalmInv'
  <2>1. /\ Go(t, "idle", "release") /\ ex'.state = "SETTLED" /\ chain' = chain
        /\ Can("SETTLED")
    BY <1>8 DEF Confirm, Enter
  <2>2. ex.state \in {"VERIFIED", "DISPUTED"}
    BY <1>0, <2>1 DEF Can, CanTransition, Transitions, State, Nothing
  <2>3. Fits("idle") => Fits("release")'
    BY <2>1, <2>2 DEF Fits, Standing, Payable
  <2> QED BY <1>0, <2>1, <2>3, CalmStep
<1>9. ASSUME NEW t \in Thread, Release(t) PROVE CalmInv'
  <2>1. OnChain(t, "release", Payable, "SETTLED")
    BY <1>9 DEF Release
  <2>2. Fits("release") => chain.status \in Payable
    BY DEF Fits
  <2>3. Fits("release") /\ ex' = ex /\ chain'.status = "SETTLED" => Standing'
    BY DEF Fits, Standing, State, Nothing
  <2> QED BY <1>0, <2>1, <2>2, <2>3, CalmOnChain
<1>10. ASSUME NEW t \in Thread, Dispute(t) PROVE CalmInv'
  <2>1. /\ Go(t, "idle", "contest") /\ ex'.state = "DISPUTED" /\ chain' = chain
        /\ Can("DISPUTED")
    BY <1>10 DEF Dispute, Enter
  <2>2. ex.state = "VERIFIED"
    BY <1>0, <2>1 DEF Can, CanTransition, Transitions, State, Nothing
  <2>3. Fits("idle") => Fits("contest")'
    BY <2>1, <2>2 DEF Fits, Standing
  <2> QED BY <1>0, <2>1, <2>3, CalmStep
<1>11. ASSUME NEW t \in Thread, Contest(t) PROVE CalmInv'
  <2>1. OnChain(t, "contest", {"FULFILLED"}, "DISPUTED")
    BY <1>11 DEF Contest
  <2>2. Fits("contest") => chain.status \in {"FULFILLED"}
    BY DEF Fits
  <2>3. Fits("contest") /\ ex' = ex /\ chain'.status = "DISPUTED" => Standing'
    BY DEF Fits, Standing, State, Nothing
  <2> QED BY <1>0, <2>1, <2>2, <2>3, CalmOnChain
<1>12. Can("EXPIRED_REFUNDED") /\ Standing => chain.status \in {"FUNDED", "FULFILLED"}
  BY DEF Can, CanTransition, Transitions, State, Nothing, Standing
<1>13. ASSUME NEW t \in Thread, Sweep(t) PROVE CalmInv'
  <2>1. CASE Expires
    <3>1. /\ Go(t, "idle", "swept") /\ ex'.state = "EXPIRED_REFUNDED" /\ chain' = chain
          /\ Can("EXPIRED_REFUNDED")
      BY <1>13, <2>1 DEF Sweep, AfterSweep, Enter, Expires
    <3>2. Fits("idle") => Fits("swept")'
      BY <1>12, <3>1 DEF Fits
    <3> QED BY <1>0, <3>1, <3>2, CalmStep
  <2>2. CASE ~Expires
    <3>1. Go(t, "idle", "jobs") /\ UNCHANGED <<ex, chain>>
      BY <1>13, <2>2 DEF Sweep, AfterSweep
    <3>2. Fits("idle") => Fits("jobs")'
      BY <3>1 DEF Fits, Standing
    <3> QED BY <1>0, <3>1, <3>2, CalmStep
  <2> QED BY <2>1, <2>2
<1>14. ASSUME NEW t \in Thread, RefundSwept(t) \/ RefundLate(t) PROVE CalmInv'
  BY <1>0, <1>14, CalmRefund DEF RefundSwept, RefundLate
<1>15. ASSUME NEW t \in Thread, LookAtJobs(t) PROVE CalmInv'
  <2>1. PICK to \in {"idle", "expire"} : Go(t, "jobs", to) /\ UNCHANGED <<ex, chain>>
    BY <1>15 DEF LookAtJobs
  <2>2. Fits("jobs") => Fits(to)'
    BY <2>1 DEF Fits, Standing
  <2> QED BY <1>0, <2>1, <2>2, CalmStep
<1>16. ASSUME NEW t \in Thread, Expire(t) PROVE CalmInv'
  <2>1. CASE Can("EXPIRED_REFUNDED")
    <3>1. Go(t, "expire", "refund") /\ ex'.state = "EXPIRED_REFUNDED" /\ chain' = chain
      BY <1>16, <2>1 DEF Expire, Raise, Enter
    <3>2. Fits("expire") => Fits("refund")'
      BY <1>12, <2>1, <3>1 DEF Fits
    <3> QED BY <1>0, <3>1, <3>2, CalmStep
  <2>2. CASE ~Can("EXPIRED_REFUNDED")
    <3>1. Raise(t, "expire") /\ (Fits("expire") => Standing)
      BY <1>16, <2>2 DEF Expire, Fits
    <3> QED BY <1>0, <3>1, CalmRaise
  <2> QED BY <2>1, <2>2
<1>17. ASSUME NEW t \in Thread, Step(t) PROVE CalmInv'
  BY <1>1, <1>2, <1>3, <1>4, <1>5, <1>6, <1>7, <1>8, <1>9, <1>10, <1>11, <1>13, <1>14,
     <1>15, <1>16, <1>17, NoLongerCalm DEF Step, CallFails, ConfirmEarly
<1>18. ASSUME UNCHANGED <<ex, verdict, th, chain, calm>> PROVE CalmInv'
  BY <1>18 DEF CalmInv, InStep, Fits, Standing
<1> QED BY <1>17, <1>18, NoLongerCalm DEF Next, Resolve, DirectCall, Crash, Tick, vars
---------------------------------------------------------------------------
(* Types, and the theorem about money.                                     *)

LEMMA DeadlineType ==
  ASSUME TypeOK, NEW s \in State
  PROVE  /\ DeadlineIn(s) \in Instant
         /\ s \in TerminalStates => DeadlineIn(s) = None
<1>1. \A phase \in Phase : After(phase) \in Instant
  <2> SUFFICES ASSUME NEW phase \in Phase PROVE After(phase) \in Instant
    OBVIOUS
  <2>1. timeouts \in [Phase -> Timeout] /\ now \in 0 .. MaxTime
    BY DEF TypeOK
  <2>2. Timeout \subseteq Nat \cup {None} /\ MaxTime \in Nat
    BY AutoSettleAssumption
  <2>3. timeouts[phase] \in Nat \cup {None}
    BY <2>1, <2>2
  <2>4. now \in Nat
    BY <2>1, <2>2
  <2> QED BY <2>3, <2>4 DEF After, Instant
<1>2. ex.deadline \in Instant
  BY DEF TypeOK
<1>3. CASE s \in {"ESCROWED", "DELIVERED", "VERIFIED", "DISPUTED"}
  BY <1>1, <1>2, <1>3 DEF DeadlineIn, TerminalStates, Phase
<1>4. CASE s \notin {"ESCROWED", "DELIVERED", "VERIFIED", "DISPUTED"}
  BY <1>4 DEF DeadlineIn, Instant
<1> QED BY <1>3, <1>4

\* What a step of the engine leaves well formed.
LEMMA EnterType ==
  ASSUME TypeOK, NEW s \in State, Enter(s)
  PROVE  /\ ex' \in [state : State \cup {Nothing}, deadline : Instant]
         /\ ex'.state \in TerminalStates => ex'.deadline = None
         /\ reached' \subseteq State
BY DeadlineType DEF Enter, TypeOK

LEMMA GoType ==
  ASSUME TypeOK, NEW t \in Thread, NEW from, NEW to \in Pc, Go(t, from, to)
  PROVE  th' \in [Thread -> Pc] /\ calm' \in BOOLEAN
<1>1. th' \in [Thread -> Pc]
  BY DEF TypeOK, Go
<1>2. calm' \in BOOLEAN
  BY Zenon DEF TypeOK, Go
<1> QED BY <1>1, <1>2

\* The parts of the type invariant that a thread's step of one kind may change.
EngineType == /\ ex \in [state : State \cup {Nothing}, deadline : Instant]
              /\ ex.state \in TerminalStates => ex.deadline = None
              /\ reached \subseteq State
ThreadType == th \in [Thread -> Pc] /\ calm \in BOOLEAN
ChainType == chain \in [status : OnChainStatus, deliver : Instant, verify : Instant]
JobType == job \in [status : {"none", "verifying", "passed", "rejected", "failed"}, started : Nat]
FixedType == /\ timeouts \in [Phase -> Timeout] /\ verdict \in Backend \cup {NoVerdict}
             /\ now \in 0 .. MaxTime /\ direct \in BOOLEAN /\ read \in Instant

LEMMA TypeParts == TypeOK <=> EngineType /\ ThreadType /\ ChainType /\ JobType /\ FixedType
BY Zenon DEF TypeOK, EngineType, ThreadType, ChainType, JobType, FixedType

\* A thread's step is well typed if each of its parts is.
LEMMA ThreadStepType ==
  ASSUME TypeOK, NEW t \in Thread, Step(t)
  PROVE  TypeOK'
<1>0. /\ EngineType /\ ThreadType /\ ChainType /\ JobType /\ FixedType
      /\ now \in Nat /\ MaxTime \in Nat /\ Sla \in Nat
      /\ chain.status \in OnChainStatus /\ read \in Instant /\ th[t] \in Pc
  BY TypeParts, AutoSettleAssumption DEF ThreadType, FixedType, ChainType, EngineType
<1>1. UNCHANGED <<ex, reached>> => EngineType'
  BY <1>0 DEF EngineType
<1>2. ASSUME NEW s \in State, Enter(s) PROVE EngineType'
  BY <1>2, EnterType DEF EngineType
<1>3. ASSUME NEW from, NEW to \in Pc, Go(t, from, to) PROVE ThreadType'
  BY <1>3, GoType DEF ThreadType
<1>4. ASSUME NEW from, Raise(t, from) PROVE EngineType' /\ ThreadType' /\ ChainType'
  <2>1. "idle" \in Pc
    BY DEF Pc
  <2> QED BY <1>0, <1>1, <1>3, <1>4, <2>1 DEF Raise, ChainType
<1>5. (UNCHANGED chain => ChainType') /\ (UNCHANGED job => JobType')
      /\ (UNCHANGED <<timeouts, read, verdict, now, direct>> => FixedType')
  BY <1>0 DEF ChainType, JobType, FixedType
<1>6. ASSUME NEW status \in OnChainStatus, chain' = [chain EXCEPT !.status = status]
      PROVE ChainType'
  BY <1>0, <1>6 DEF ChainType
<1>7. ASSUME NEW step, NEW from, NEW to \in OnChainStatus, OnChain(t, step, from, to)
      PROVE EngineType' /\ ThreadType' /\ ChainType' /\ JobType' /\ FixedType'
  <2>1. "idle" \in Pc
    BY DEF Pc
  <2> QED BY <1>1, <1>3, <1>4, <1>5, <1>6, <1>7, <2>1 DEF OnChain
<1>8. ASSUME NEW step, NEW next \in {"idle", "jobs"}, ChainRefund(t, step, next)
      PROVE EngineType' /\ ThreadType' /\ ChainType' /\ JobType' /\ FixedType'
  <2>1. next \in Pc /\ "REFUNDED" \in OnChainStatus
    BY DEF Pc, OnChainStatus
  <2> QED BY <1>1, <1>3, <1>4, <1>5, <1>6, <1>8, <2>1 DEF ChainRefund
<1> DEFINE Good == EngineType' /\ ThreadType' /\ ChainType' /\ JobType' /\ FixedType'
<1>9. /\ {"ESCROWED", "DELIVERED", "VERIFIED", "REJECTED", "SETTLED", "DISPUTED",
          "EXPIRED_REFUNDED"} \subseteq State
      /\ {"idle", "createVdc", "submit", "backend", "accepted", "refused", "anchor", "release",
          "contest", "swept", "jobs", "expire", "refund"} \subseteq Pc
  BY DEF State, Pc
<1>10. ASSUME Create(t) PROVE Good
  <2>1. timeouts["deliver"] \in Nat \cup {None}
    BY <1>0, AutoSettleAssumption DEF FixedType, Phase
  <2>2. After("deliver") \in Instant
    BY <1>0, <2>1 DEF After, Instant
  <2>3. FixedType'
    BY <1>0, <1>10, <2>2 DEF Create, FixedType
  <2> QED BY <1>2, <1>3, <1>5, <1>9, <1>10, <2>3 DEF Create
<1>11. CreateVdc(t) => Good
  <2>1. VerifyDeadline \in Instant
    BY <1>0 DEF VerifyDeadline, Instant
  <2>2. chain' = [status |-> "FUNDED", deliver |-> read, verify |-> VerifyDeadline]
          => ChainType'
    BY <1>0, <2>1 DEF ChainType, OnChainStatus
  <2> QED BY <1>1, <1>3, <1>4, <1>5, <1>9, <2>2 DEF CreateVdc
<1>12. ASSUME NEW v \in Backend, Deliver(t, v) PROVE Good
  <2>1. FixedType'
    BY <1>0, <1>12 DEF Deliver, FixedType
  <2> QED BY <1>2, <1>3, <1>5, <1>9, <1>12, <2>1 DEF Deliver
<1>13. Submit(t) => Good
  <2>1. Submit(t) => JobType'
    BY <1>0 DEF Submit, JobType
  <2> QED BY <1>1, <1>3, <1>5, <1>9, <2>1 DEF Submit
<1>14. Answer(t) => Good
  <2>1. verdict.gateway \in {"passed", "rejected", "failed"}
    BY <1>0, AutoSettleAssumption DEF FixedType, NoVerdict
  <2>2. Answer(t) => JobType'
    BY <1>0, <2>1 DEF Answer, JobType
  <2> QED BY <1>1, <1>3, <1>5, <1>9, <2>2 DEF Answer
<1>15. Verify(t) => Good
  <2>1. AfterVerify(th[t]) \in Pc
    BY <1>9 DEF AfterVerify
  <2> QED BY <1>2, <1>3, <1>4, <1>5, <1>9, <2>1 DEF Verify
<1>16. Anchor(t) \/ Release(t) \/ Contest(t) => Good
  BY <1>7 DEF Anchor, Release, Contest, OnChainStatus
<1>17. Confirm(t) \/ Dispute(t) => Good
  BY <1>2, <1>3, <1>5, <1>9 DEF Confirm, Dispute
<1>24. ConfirmEarly(t) => Good
  BY <1>0, <1>1, <1>5 DEF ConfirmEarly, ThreadType
<1>18. Sweep(t) => Good
  <2>1. AfterSweep(Expires) \in Pc
    BY <1>9 DEF AfterSweep
  <2> QED BY <1>1, <1>2, <1>3, <1>5, <1>9, <2>1 DEF Sweep
<1>19. RefundSwept(t) \/ RefundLate(t) => Good
  BY <1>8 DEF RefundSwept, RefundLate
<1>20. LookAtJobs(t) => Good
  BY <1>1, <1>3, <1>5, <1>9 DEF LookAtJobs
<1>21. Expire(t) => Good
  BY <1>2, <1>3, <1>4, <1>5, <1>9 DEF Expire
<1>22. CallFails(t) => Good
  <2>1. CallFails(t) => ThreadType'
    BY <1>0, <1>9 DEF CallFails, ThreadType
  <2> QED BY <1>1, <1>5, <2>1 DEF CallFails
<1>23. Good
  BY <1>10, <1>11, <1>12, <1>13, <1>14, <1>15, <1>16, <1>17, <1>18, <1>19, <1>20, <1>21,
     <1>22, <1>24 DEF Step
<1> QED BY <1>23, TypeParts, PTL

\* Every step is well typed.
LEMMA TypeStep == ASSUME TypeOK, [Next]_vars PROVE TypeOK'
<1>1. ASSUME NEW outcome \in {"SETTLED", "REJECTED"}, Resolve(outcome) PROVE TypeOK'
  <2>1. outcome \in State
    BY DEF State
  <2> QED BY <1>1, <2>1, EnterType DEF Resolve, TypeOK
<1>2. ASSUME NEW to \in OnChainStatus, DirectCall(to) PROVE TypeOK'
  BY <1>2 DEF DirectCall, TypeOK
<1>3. ASSUME Crash PROVE TypeOK'
  BY <1>3 DEF Crash, TypeOK, Pc, NoJob
<1>4. ASSUME Tick PROVE TypeOK'
  BY <1>4, AutoSettleAssumption DEF Tick, TypeOK
<1>5. ASSUME UNCHANGED vars PROVE TypeOK'
  BY <1>5 DEF vars, TypeOK
<1> QED BY <1>1, <1>2, <1>3, <1>4, <1>5, ThreadStepType DEF Next

LEMMA TypeInit == Init => TypeOK
<1> SUFFICES ASSUME Init PROVE TypeOK
  OBVIOUS
<1>1. ex \in [state : State \cup {Nothing}, deadline : Instant] /\ ex.state \notin TerminalStates
  BY DEF Init, Instant, TerminalStates, Nothing
<1>2. chain \in [status : OnChainStatus, deliver : Instant, verify : Instant]
  BY DEF Init, OnChainStatus, Instant
<1>3. now \in 0 .. MaxTime
  BY AutoSettleAssumption DEF Init
<1> QED BY <1>1, <1>2, <1>3 DEF Init, TypeOK, NoJob, Pc

\* The types, for any timeouts and any backend; a closed exchange waits for nothing.
THEOREM TypesAreKept == Spec => []TypeOK
<1>1. TypeOK /\ [Next]_vars => TypeOK'
  BY TypeStep
<1> QED BY <1>1, TypeInit, PTL DEF Spec

\* The inductive invariant about the two sides when operations do not overlap.
THEOREM CalmOperationsFit == ASSUME JudgeAlike PROVE Spec => []CalmInv
<1>1. Init => CalmInv
  BY DEF Init, CalmInv, InStep, Standing, State, Nothing
<1>2. TypeOK /\ AutoInv /\ CalmInv /\ [Next]_vars => CalmInv'
  BY CalmStepSound DEF TypeOK
<1>3. Spec => []AutoInv
  BY AlikeIsSame, OperationsKnow
<1> QED BY <1>1, <1>2, <1>3, TypesAreKept, PTL DEF Spec

\* As long as operations do not overlap, fail or get bypassed, engine and chain have paid
\* the same party whenever no operation is under way, however often they raise.
THEOREM MoneyAlwaysAgrees == ASSUME JudgeAlike PROVE Spec => []MoneyAgrees
<1>1. CalmInv => MoneyAgrees
  BY DEF CalmInv, InStep, Standing, MoneyAgrees, State, Nothing
<1> QED BY <1>1, CalmOperationsFit, PTL
=============================================================================
