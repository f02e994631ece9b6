--------------------------- MODULE ExchangeSafety ---------------------------
(***************************************************************************)
(* What the exchange engine must guarantee, on top of ExchangeEngine.      *)
(***************************************************************************)
EXTENDS ExchangeEngine

Moved(h) == holds[h] \in Outcome

Quiescent == node = "serving" /\ \A t \in Thread : th[t].pc = "idle"
-----------------------------------------------------------------------------
(* Capture before execute: money that the rail has moved is the money of   *)
(* the escrow in the row, and the row holds either the receipt or an       *)
(* intent that recovery will replay.                                       *)
MoneyIsJournalled ==
  \A h \in Handle : Moved(h) => /\ row.handle = h
                                /\ row.receipt # "none" \/ Pending(row)

(* A receipt in the database tells what the rail did with the hold, and    *)
(* comes with an intent that is done; such a receipt survives every race.  *)
ReceiptIsTruthful ==
  row.receipt # "none" => /\ row.handle # NoHandle
                          /\ holds[row.handle] = row.receipt
                          /\ row.intent.status = "done"

(* A closed exchange leaves no work to recovery: an escrow it had is       *)
(* accounted for by a receipt, and its intent is not pending.              *)
ClosedIsAccounted ==
  row.state \in TerminalStates =>
     /\ ~ Pending(row)
     /\ row.handle # NoHandle => row.receipt # "none"

(* The ledger never claims more than what happened: entries of an outcome  *)
(* exist only for an exchange that was saved with it, and at most once,    *)
(* however often requests are repeated and recovery replays them.          *)
LedgerIsJustified ==
  /\ \A e \in Entry : ledger[e] <= 1
  /\ ledger["provider_settled"] + ledger["client_settled"] > 0 => row.state = "SETTLED"
  /\ ledger["provider_rejected"] > 0 => row.state = "REJECTED"
  /\ ledger["client_settled"] <= ledger["provider_settled"]

(* No save undoes another's: acknowledgements, the escrow handle and the   *)
(* receipt stay in the row once they are in it, although every thread      *)
(* writes back a whole row that it read some time ago.                     *)
NothingIsLost ==
  [][/\ row.acks \subseteq row'.acks
     /\ row.handle # NoHandle => row'.handle = row.handle
     /\ row.receipt # "none" => row'.receipt = row.receipt]_vars

(* A VDC is stored before a row refers to it, and a delivered exchange     *)
(* never loses its delivery to a conflict or a crash between the two.      *)
DeliveryIsStored ==
  /\ vdc.ref # NoVdc => vdc.ref \in Stored
  /\ row.state \in {"DELIVERED", "VERIFIED", "DISPUTED", "SETTLED"} => vdc.ref # NoVdc

(* The engine implements the promise of Lifecycle: whatever threads,       *)
(* crashes and the rail do, the saved state follows the lifecycle table    *)
(* and the money of the escrow moves once, in states that permit it.       *)
Promise == INSTANCE Lifecycle WITH
             state <- row.state,
             money <- IF row.handle = NoHandle THEN "none" ELSE holds[row.handle]

ImplementsLifecycle == Promise!Spec
-----------------------------------------------------------------------------
(* The inductive invariant behind these properties.                        *)

\* Row r, in the database or in a thread's copy, agrees with itself and with the
\* rail's record hs of the holds.
RowOK(r, hs) ==
  /\ r.state \in {"PROPOSED", "CONTRACTED"} => r.handle = NoHandle
  /\ r.intent.status # "none" => r.intent.handle = r.handle
  /\ r.intent.status = "done" <=> r.receipt # "none"
  /\ r.receipt # "none" => hs[r.handle] = r.receipt
  /\ r.state \in TerminalStates =>
       ~ Pending(r) /\ (r.handle # NoHandle => r.receipt # "none")

\* Row e keeps what was achieved in row r.
Keeps(e, r) == /\ r.acks \subseteq e.acks
               /\ r.receipt # "none" => e.receipt = r.receipt
               /\ r.handle # NoHandle => e.handle = r.handle
               /\ r.intent.status # "none" => e.intent.status # "none"

\* A thread with task k, when the database holds row r: versions grow with every
\* save, the copy that a save would accept keeps what the row holds, and a call of
\* the rail is journalled.
TaskOK(k, r, hs) ==
  /\ RowOK(k.ex, hs)
  /\ k.pv <= r.version
  /\ k.pv <= k.ex.version
  /\ k.pc \in {"capture", "commit"} => k.pv < k.ex.version
  /\ k.pc \in {"authorize", "capture", "call", "commit"} /\ k.pv = r.version
       => Keeps(k.ex, r)
  /\ k.pc \in {"capture", "call"} => Pending(k.ex)
  /\ k.pc = "call" => k.ex.handle = r.handle /\ r.intent.status # "none"

(* The row is sound, every thread is, and moved money is journalled: true  *)
(* in every state, and kept by every step from any state where it is true. *)
EngineInv == /\ RowOK(row, holds)
             /\ \A t \in Thread : TaskOK(th[t], row, holds)
             /\ MoneyIsJournalled
-----------------------------------------------------------------------------
(* The way of the saved state, on top of EngineInv.                        *)

Delivered == {"DELIVERED", "VERIFIED", "DISPUTED", "SETTLED"}

\* A save of copy e over row r follows the lifecycle table, and brings a hold of the
\* rail into the row at the escrow and nowhere else.
Follows(e, r, hs) ==
  /\ e.state \in {r.state} \union Transitions[r.state]
  /\ \/ e.handle = r.handle /\ (e.state = "ESCROWED" => r.state = "ESCROWED")
     \/ r.state = "CONTRACTED" /\ e.state = "ESCROWED" /\ e.handle \in Handle /\ hs[e.handle] = "held"

\* A thread with task k, when the database holds row r that refers to VDC ref: its
\* copy has the hold that its state calls for and its VDC is signed.  While the row is
\* as the thread read it, the copy has the row's state until the last save, which
\* follows the table and keeps a VDC.
PathOK(k, r, hs, ref) ==
  /\ k.ex.state \in {"ESCROWED"} \union Delivered => k.ex.handle # NoHandle
  /\ k.vdc.id # NoVdc => k.vdc.by # "none"
  /\ k.pv = r.version =>
       /\ k.pc \in {"authorize", "capture", "call"} =>
            k.ex.state = r.state /\ k.ex.handle = r.handle
       /\ k.pc \in {"capture", "call", "commit"} => r.state \notin TerminalStates
       /\ k.pc \in {"authorize", "capture", "call", "commit"} /\ ref # NoVdc => k.vdc.id # NoVdc
       /\ k.pc = "commit" => /\ Follows(k.ex, r, hs)
                             /\ k.ex.state \in Delivered => k.vdc.id # NoVdc

(* The row has the hold and the VDC that its state calls for, and every    *)
(* save that the optimistic lock still accepts keeps it so.                *)
PathInv == /\ row.state \in {"ESCROWED"} \union Delivered => row.handle # NoHandle
           /\ \A t \in Thread : PathOK(th[t], row, holds, vdc.ref)
           /\ DeliveryIsStored

\* The steps of a thread that has entries to append.
Recording == {"record", "record_client"}

\* At most one thread, the one whose save closed the exchange, still has entries to
\* append, and it is the only one who ever appends any.
LedgerInv ==
  /\ \A t, u \in Thread : th[t].pc \in Recording /\ th[u].pc \in Recording => t = u
  /\ \A t \in Thread :
       /\ th[t].pc = "record" => /\ Entries(th[t].op) # {}
                                 /\ row.state = Target(th[t].op)
                                 /\ \A e \in Entry : ledger[e] = 0
       /\ th[t].pc = "record_client" => /\ row.state = "SETTLED"
                                        /\ ledger["provider_settled"] = 1
                                        /\ ledger["client_settled"] = 0
  /\ LedgerIsJustified

\* Money is paid, or meant to be paid, only once the delivery of row r was verified.
PaidOK(r) ==
  /\ r.intent.action = "settle" => r.state \in {"VERIFIED", "DISPUTED"} \union TerminalStates
  /\ r.receipt = "settled" => r.state = "SETTLED"

(* With the operations behind the endpoints alone: a thread about to pay   *)
(* finds a verified delivery or a closed exchange, whatever others saved.  *)
PaymentInv ==
  /\ PaidOK(row)
  /\ row.handle # NoHandle => holds[row.handle] # "none"
  /\ \A t \in Thread :
       /\ PaidOK(th[t].ex)
       /\ th[t].op # "confirm_local"
       /\ th[t].pc \in {"capture", "call"} =>
            /\ th[t].ex.intent.action = "settle" =>
                 row.state \in {"VERIFIED", "DISPUTED"} \union TerminalStates
            /\ th[t].op # "recover" => th[t].op \in SettleOp \union RefundOp
                                       /\ th[t].ex.intent.action = Action(th[t].op)
-----------------------------------------------------------------------------
(* Liveness.  A running request goes on until it ends and a starting node  *)
(* runs its recovery: uvicorn's lifespan and its thread pool see to both.  *)
(* Requests of callers need not come.                                      *)
Fairness == /\ \A t \in Thread : WF_vars(Continue(t))
            /\ WF_vars(node = "starting" /\ \E t \in Thread : Recover(t))
            /\ WF_vars(StartWithNothingToRecover)

FairSpec == Spec /\ Fairness

\* The process stops crashing, in the middle of its start-up recovery too.
NoMoreCrashes ==
  <>[][/\ ~ Crash
       /\ node = "serving" \/ \A t \in Thread : ~ (CallFailed(t) /\ End(t))]_vars

(* Once crashes cease, a node that starts with a pending intent serves     *)
(* again, and by then the rail was asked once more: the intent is done and *)
(* its receipt saved, or the row tells that the rail failed.               *)
RecoveryIsCompleted ==
  NoMoreCrashes =>
    (node = "starting" /\ Pending(row)
       ~> /\ node = "serving"
          /\ \/ row.intent.status = "done" /\ row.receipt # "none"
             \/ row.intent.status = "failed")
-----------------------------------------------------------------------------
(* What documents and comments say and the code does not keep: TLC refutes *)
(* each of these on a small instance, the first and the two about VDCs in  *)
(* runs of the project.                                                    *)

(* profiles/NP-SETTLE.md:59: settle pays the provider on the path to       *)
(* SETTLED.  A settled exchange has paid the escrow to the provider.       *)
SettledIsPaid ==
  row.state = "SETTLED" /\ row.handle # NoHandle => holds[row.handle] = "settled"

(* spec/CORE.md:42, NP-SM-03: a refund state releases the frozen funds.    *)
(* No hold of the exchange stays frozen once it is closed and all requests *)
(* have ended.                                                             *)
RefundReleasesHolds ==
  row.state \in RefundStates /\ Quiescent => \A h \in Handle : holds[h] # "held"

(* reputation.py:125: SETTLED leaves one settled entry for each party.     *)
SettledIsRecorded ==
  row.state = "SETTLED" /\ Quiescent =>
     ledger["provider_settled"] = 1 /\ ledger["client_settled"] = 1

(* exchange.py:555: recover completes the terminal states that a crash     *)
(* left unfinished.  An intent that is done belongs to a closed exchange.  *)
RecoveredIsClosed == row.intent.status = "done" => row.state \in TerminalStates

(* exchange.py:424: REJECTED is where a failed verification leads.  A      *)
(* delivery whose saved verdict is a rejection is closed as REJECTED.      *)
RejectedVerdictRejects ==
  row.verdict = "rejected" /\ row.state \in TerminalStates => row.state = "REJECTED"

(* exchange.py:596: sweep expires what is overdue.                         *)
SweepTakesOnlyOverdue ==
  \A t \in Thread : th[t].op = "sweep" /\ th[t].pc = "capture"
                       => th[t].ex.deadline \in passed

(* spec/BINDING-MCP.md:54: success is SETTLED and a VDC that both parties  *)
(* signed.  An exchange settled without a dispute has such a VDC.          *)
SettledIsDualSigned ==
  row.state = "SETTLED" /\ row.dispute = "none" => vdc.sigs[vdc.ref] = "both"

(* vdc.py:171: a VDC that says SETTLED and that both parties signed is a   *)
(* delivery that was closed as valid.  None is left of a refunded one.     *)
RefundedIsNotDualSigned ==
  row.state \in RefundStates => \A v \in Vdc : vdc.sigs[v] # "both"

(* spec/CORE.md:41, NP-SM-02: an illegal transition is refused.  The money *)
(* of a delivery that was not verified is not paid out.                    *)
UnverifiedIsUnpaid ==
  row.handle # NoHandle /\ holds[row.handle] = "settled"
     => row.state \in {"VERIFIED", "DISPUTED", "SETTLED"}
=============================================================================
