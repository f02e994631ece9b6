---------------------------- MODULE StateMachine ----------------------------
(***************************************************************************)
(* The lifecycle table of an exchange, src/novapanda/state_machine.py.     *)
(***************************************************************************)

State == {"PROPOSED", "CONTRACTED", "ESCROWED", "DELIVERED", "VERIFIED",
          "DISPUTED", "SETTLED", "REJECTED", "EXPIRED_REFUNDED", "CANCELLED"}

\* TERMINAL_STATES; the last three are the ones that give the client back its money.
TerminalStates == {"SETTLED", "REJECTED", "EXPIRED_REFUNDED", "CANCELLED"}
RefundStates == TerminalStates \ {"SETTLED"}

Transitions ==
  [s \in State |->
     CASE s = "PROPOSED"   -> {"CONTRACTED", "CANCELLED", "EXPIRED_REFUNDED"}
       [] s = "CONTRACTED" -> {"ESCROWED", "CANCELLED", "EXPIRED_REFUNDED"}
       [] s = "ESCROWED"   -> {"DELIVERED", "EXPIRED_REFUNDED", "CANCELLED"}
       [] s = "DELIVERED"  -> {"VERIFIED", "REJECTED", "EXPIRED_REFUNDED"}
       [] s = "VERIFIED"   -> {"SETTLED", "DISPUTED", "EXPIRED_REFUNDED"}
       [] s = "DISPUTED"   -> {"SETTLED", "REJECTED"}
       [] OTHER            -> {}]

CanTransition(src, dst) == dst \in Transitions[src]
=============================================================================
