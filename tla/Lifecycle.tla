----------------------------- MODULE Lifecycle ------------------------------
(***************************************************************************)
(* What the node promises about one exchange, whatever its threads, its    *)
(* crashes and its payment rail do: the state follows the lifecycle table, *)
(* the escrowed money moves once, the provider is paid only after the      *)
(* delivery was verified, and no exchange is closed while money is held.   *)
(***************************************************************************)
EXTENDS StateMachine

VARIABLES state,   \* the exchange's state
          money    \* what became of the escrow the exchange refers to

lifecycleVars == <<state, money>>

Money == {"none", "held", "settled", "refunded"}

\* The states that a closed exchange may be in, given its money.
Closed == [m \in Money |->
             CASE m = "none"     -> RefundStates
               [] m = "held"     -> {}
               [] m = "settled"  -> {"SETTLED"}
               [] m = "refunded" -> TerminalStates]

Init == state = "PROPOSED" /\ money = "none"

Escrow == /\ CanTransition(state, "ESCROWED")
          /\ money = "none"
          /\ state' = "ESCROWED"
          /\ money' = "held"

Advance(s) == /\ CanTransition(state, s)
              /\ s \notin TerminalStates \union {"ESCROWED"}
              /\ state' = s
              /\ UNCHANGED money

Pay == /\ money = "held"
       /\ state \in {"VERIFIED", "DISPUTED"}
       /\ money' = "settled"
       /\ UNCHANGED state

Refund == /\ money = "held"
          /\ state \notin TerminalStates
          /\ money' = "refunded"
          /\ UNCHANGED state

Close(s) == /\ CanTransition(state, s)
            /\ s \in Closed[money]
            /\ state' = s
            /\ UNCHANGED money

Next == \/ Escrow \/ Pay \/ Refund
        \/ \E s \in State : Advance(s) \/ Close(s)

Spec == Init /\ [][Next]_lifecycleVars
=============================================================================
