------------------------------ MODULE NodeDesk ------------------------------
(***************************************************************************)
(* What the node's operators see and do across exchanges: the sweep of     *)
(* overdue exchanges, dispute tickets, the export for reconciliation and   *)
(* the scan for interrupted settlements (RB-04).  The rail is the mock, or *)
(* the sandbox, whose holds the reports read and a crash loses, or that of *)
(* a partner, who keeps its own and may fail.  The engine's operations are *)
(* taken step by step, from the copy they read to the save that its version*)
(* check may refuse.                                                       *)
(***************************************************************************)
EXTENDS StateMachine, Naturals, FiniteSets, Sequences, SequencesExt

CONSTANTS
  Deal,      \* number of exchanges; the store lists them in their order
  MaxFreeze, \* bound on the holds that are made
  MaxOp,     \* bound on the operations of users
  MaxTicket  \* number of ticket ids: the code draws one of 65536 for each day

ASSUME DeskAssumption ==
  /\ Deal \in Nat /\ MaxFreeze \in Nat /\ MaxFreeze >= Deal /\ MaxOp \in Nat
  /\ MaxTicket \in Nat

Deals == 1 .. Deal
Handle == 1 .. MaxFreeze
TicketId == 1 .. MaxTicket

VARIABLES
  store,    \* the rows: state, hold, intent and its action, receipt, version, deadline over
  holds,    \* the holds of the rail: exchange and status
  desk,     \* the two threads, of a user and of the sweep: step, operation, exchange, copy
  queue,    \* the rows that the sweep still has to look at
  due,      \* history: the exchanges that the sweep found overdue
  swept,    \* history: how the last sweep ended
  tickets,  \* _by_exchange and _by_id of the dispute tickets, 0 for none
  asked,    \* number of operations of users
  process   \* whether it was started again, whether its rail is a partner's, and the
            \* exchanges whose intents it still has to replay

deskVars == <<store, holds, desk, queue, due, swept, tickets, asked, process>>

DeskThread == {"user", "sweep"}
NoTicket == [of |-> [e \in Deals |-> 0], by |-> [id \in TicketId |-> 0]]
NoWork == [pc |-> "idle", op |-> "none", deal |-> 0, copy |-> [state |-> "CONTRACTED"]]

\* The exchanges are contracted, or verified with their money held.
DeskInit ==
  /\ store \in [Deals -> [state : {"CONTRACTED", "VERIFIED"}, hold : 0 .. Deal, intent : {"none"},
                         action : {"none"}, receipt : {"none"}, version : {0}, overdue : {FALSE}]]
  /\ \A e \in Deals : store[e].hold = IF store[e].state = "CONTRACTED" THEN 0 ELSE e
  /\ holds = [h \in Handle |-> IF h \in Deals /\ store[h].hold = h
                              THEN [deal |-> h, status |-> "held"] ELSE [deal |-> 0, status |-> "none"]]
  /\ desk = [w \in DeskThread |-> NoWork]
  /\ queue = <<>> /\ due = {} /\ swept = "no"
  /\ tickets = NoTicket /\ asked = 0
  /\ process \in [rebooted : {FALSE}, partner : BOOLEAN, recovering : {{}}]

---------------------------------------------------------------------------
(* The operations of the engine.                                           *)

Closing == {"confirm", "settle", "reject", "cancel", "expire"}

\* The state an operation leads to.
Leads(op) ==
  CASE op = "escrow"  -> "ESCROWED"  [] op = "deliver" -> "DELIVERED"
    [] op = "verify"  -> "VERIFIED"  [] op = "dispute" -> "DISPUTED"
    [] op \in {"confirm", "settle"} -> "SETTLED"
    [] op = "reject"  -> "REJECTED"  [] op = "cancel" -> "CANCELLED"
    [] op = "expire"  -> "EXPIRED_REFUNDED"

Allows(op, state) ==
  /\ CanTransition(state, Leads(op))
  /\ op = "confirm" => state = "VERIFIED"
  /\ op = "settle" => state = "DISPUTED"

Direction(op) == IF Leads(op) = "SETTLED" THEN "settled" ELSE "refunded"

\* The step after the row was read: money first, if the exchange has some to move.
FirstStep(op, row) ==
  CASE op = "escrow" -> "freeze"
    [] op \in Closing /\ row.hold # 0 /\ row.receipt = "none" -> "capture"
    [] OTHER -> "save"

Take(w, op, e) ==
  desk' = [desk EXCEPT ![w] = [pc |-> FirstStep(op, store[e]), op |-> op, deal |-> e, copy |-> store[e]]]

\* The operation raises; a sweep ends with it.
Raise(w) ==
  /\ desk' = [desk EXCEPT ![w] = NoWork]
  /\ IF w = "sweep" THEN queue' = <<>> /\ swept' = "raised" ELSE UNCHANGED <<queue, swept>>

BeginOp(op, e) ==
  /\ desk["user"].pc = "idle" /\ process.recovering = {}
  /\ op = "escrow" \/ Allows(op, store[e].state)
  /\ asked < MaxOp /\ asked' = asked + 1
  /\ Take("user", op, e)
  /\ UNCHANGED <<store, holds, queue, due, swept, tickets>>

\* The rail makes the next hold for an exchange.
Holds(h, e) ==
  /\ holds[h].status = "none" /\ \A k \in Handle : holds[k].status = "none" => h <= k
  /\ holds' = [holds EXCEPT ![h] = [deal |-> e, status |-> "held"]]

\* settle or refund at the rail: once is enough, and never in both directions.
Movable(h, to) == holds[h].status \in {"held", to}
Moves(h, to)   == Movable(h, to) /\ holds' = [holds EXCEPT ![h].status = to]

\* escrow: the rail freezes the money, then the lifecycle table is consulted.
Freeze(w) ==
  LET d == desk[w] IN
  /\ d.pc = "freeze"
  /\ \E h \in Handle :
       /\ Holds(h, d.deal)
       /\ IF CanTransition(d.copy.state, "ESCROWED")
          THEN /\ desk' = [desk EXCEPT ![w].pc = "save", ![w].copy.hold = h]
               /\ UNCHANGED <<queue, swept>>
          ELSE Raise(w)
  /\ UNCHANGED <<store, due, tickets>>

\* Mutant: the intent is noted and not saved before the money moves.
Capture_Unsaved(w) ==
  LET d == desk[w] IN
  /\ d.pc = "capture"
  /\ desk' = [desk EXCEPT ![w].pc = "move", ![w].copy.intent = "pending", ![w].copy.action = Direction(d.op)]
  /\ UNCHANGED <<store, holds, queue, due, swept, tickets>>

\* _capture_intent
Capture(w) ==
  LET d == desk[w]
      row == [d.copy EXCEPT !.intent = "pending", !.action = Direction(d.op), !.version = @ + 1] IN
  /\ d.pc = "capture"
  /\ IF store[d.deal].version = d.copy.version
     THEN /\ store' = [store EXCEPT ![d.deal] = row]
          /\ desk' = [desk EXCEPT ![w].pc = "move", ![w].copy = row]
          /\ UNCHANGED <<queue, swept>>
     ELSE Raise(w) /\ UNCHANGED store
  /\ UNCHANGED <<holds, due, tickets>>

\* The money moves and the receipt is noted, or the rail refuses.
Move(w) ==
  LET d == desk[w]  to == Direction(d.op) IN
  /\ d.pc = "move"
  /\ IF Movable(d.copy.hold, to)
     THEN /\ Moves(d.copy.hold, to)
          /\ desk' = [desk EXCEPT ![w].pc = "save", ![w].copy.receipt = to, ![w].copy.intent = "done"]
          /\ UNCHANGED <<queue, swept>>
     ELSE Raise(w) /\ UNCHANGED holds
  /\ UNCHANGED <<store, due, tickets>>

\* A partner does not answer, before or after it did what it was asked.
Unanswered(w) ==
  LET d == desk[w] IN
  /\ process.partner /\ d.pc \in {"freeze", "move"}
  /\ \/ UNCHANGED holds
     \/ d.pc = "freeze" /\ \E h \in Handle : Holds(h, d.deal)
     \/ d.pc = "move" /\ Moves(d.copy.hold, Direction(d.op))
  /\ Raise(w)
  /\ UNCHANGED <<store, due, tickets>>

\* The row in its new state; a new phase has a new deadline, a dispute keeps its own.
Save(w) ==
  LET d == desk[w]
      row == [d.copy EXCEPT !.state = Leads(d.op), !.version = @ + 1,
                            !.overdue = @ /\ d.op = "dispute"] IN
  /\ d.pc = "save"
  /\ IF store[d.deal].version = d.copy.version
     THEN /\ store' = [store EXCEPT ![d.deal] = row]
          /\ desk' = [desk EXCEPT ![w] = IF d.op = "dispute" THEN [d EXCEPT !.pc = "ticket"] ELSE NoWork]
          /\ UNCHANGED <<queue, swept>>
     ELSE Raise(w) /\ UNCHANGED store
  /\ UNCHANGED <<holds, due, tickets>>

\* The endpoint of a dispute opens its ticket, unless it has one, under an id that is
\* drawn and not looked up: the ticket that had it is replaced.
OpenTicket ==
  LET e == desk["user"].deal IN
  /\ desk["user"].pc = "ticket"
  /\ IF tickets.of[e] # 0 THEN UNCHANGED tickets
     ELSE \E id \in TicketId :
            tickets' = [of |-> [tickets.of EXCEPT ![e] = id], by |-> [tickets.by EXCEPT ![id] = e]]
  /\ desk' = [desk EXCEPT !["user"] = NoWork]
  /\ UNCHANGED <<store, holds, queue, due, swept>>

---------------------------------------------------------------------------
(* The sweep.                                                              *)

\* What the sweep takes of its list.
Expires(row) ==
  /\ row.state \notin TerminalStates /\ row.overdue
  /\ CanTransition(row.state, "EXPIRED_REFUNDED")

\* Bound: one sweep in a life of the process.
BeginSweep ==
  /\ swept = "no" /\ process.recovering = {}
  /\ queue' = [e \in Deals |-> [deal |-> e, row |-> store[e]]]
  /\ due' = {e \in Deals : Expires(store[e])} /\ swept' = "begun"
  /\ UNCHANGED <<store, holds, desk, tickets>>

\* The next row of the list; expire reads it again and checks its state, and a row
\* that has moved on ends the sweep.
SweepNext ==
  LET e == Head(queue).deal IN
  /\ desk["sweep"].pc = "idle" /\ queue # <<>>
  /\ IF ~Expires(Head(queue).row)
     THEN queue' = Tail(queue) /\ UNCHANGED <<desk, swept>>
     ELSE IF CanTransition(store[e].state, "EXPIRED_REFUNDED")
     THEN Take("sweep", "expire", e) /\ queue' = Tail(queue) /\ UNCHANGED swept
     ELSE Raise("sweep")
  /\ UNCHANGED <<store, holds, due, tickets>>

EndSweep ==
  /\ desk["sweep"].pc = "idle" /\ queue = <<>> /\ swept = "begun"
  /\ swept' = "ok"
  /\ UNCHANGED <<store, holds, desk, queue, due, tickets>>

\* A deadline passes.
Overdue(e) ==
  /\ store[e].state \notin TerminalStates /\ ~store[e].overdue
  /\ store' = [store EXCEPT ![e].overdue = TRUE]
  /\ UNCHANGED <<holds, desk, queue, due, swept, tickets>>

\* The process ends and starts: what was in memory is gone, the tickets and the holds
\* of any rail but a partner's, and the pending intents are to be replayed.
RestartDesk ==
  /\ ~process.rebooted
  /\ process' = [process EXCEPT !.rebooted = TRUE,
                                !.recovering = {e \in Deals : store[e].intent = "pending"}]
  /\ holds' = IF process.partner THEN holds
              ELSE [h \in Handle |-> [deal |-> 0, status |-> IF holds[h].status = "none" THEN "none" ELSE "lost"]]
  /\ desk' = [w \in DeskThread |-> NoWork] /\ queue' = <<>> /\ tickets' = NoTicket
  /\ swept' = "no" /\ due' = {}
  /\ UNCHANGED <<store, asked>>

\* recover, before the first request: an intent is replayed in its own direction, and
\* the row closed where the table allows it; without an answer the intent stays.
RecoverDesk(e) ==
  LET row  == [store[e] EXCEPT !.version = @ + 1]
      to   == IF row.action = "settled" THEN "settled" ELSE "refunded"
      end  == IF to = "settled" THEN "SETTLED" ELSE "EXPIRED_REFUNDED"
      ends == CanTransition(row.state, end) IN
  /\ e \in process.recovering /\ row.intent = "pending"
  /\ process' = [process EXCEPT !.recovering = @ \ {e}]
  /\ \/ /\ Moves(row.hold, to)
        /\ store' = [store EXCEPT ![e] = [row EXCEPT !.receipt = to, !.intent = "done",
                        !.state = IF ends THEN end ELSE @, !.overdue = @ /\ ~ends]]
     \/ /\ process.partner \/ ~Movable(row.hold, to)
        /\ UNCHANGED holds \/ Moves(row.hold, to)
        /\ store' = [store EXCEPT ![e] = row]
  /\ UNCHANGED <<desk, queue, due, swept, tickets, asked>>

EngineStep(w) == Freeze(w) \/ Capture(w) \/ Move(w) \/ Unanswered(w) \/ Save(w)

DeskNext ==
  \/ /\ \E e \in Deals, op \in Closing \cup {"escrow", "deliver", "verify", "dispute"} : BeginOp(op, e)
     /\ UNCHANGED process
  \/ /\ \/ \E w \in DeskThread : EngineStep(w)
        \/ OpenTicket \/ BeginSweep \/ SweepNext \/ EndSweep
        \/ \E e \in Deals : Overdue(e)
     /\ UNCHANGED <<asked, process>>
  \/ RestartDesk
  \/ \E e \in Deals : RecoverDesk(e)

DeskSpec == DeskInit /\ [][DeskNext]_deskVars

---------------------------------------------------------------------------
(* The reports.                                                            *)

ReceiptRows ==
  {[deal |-> e, handle |-> store[e].hold, status |-> store[e].receipt] :
     e \in {d \in Deals : store[d].receipt # "none"}}

Receipted(h) == \E r \in ReceiptRows : r.handle = h

\* The holds of a rail in this process; a partner's are not seen.
HoldRows ==
  {[deal |-> holds[h].deal, handle |-> h, status |-> holds[h].status] :
     h \in {k \in Handle : /\ ~process.partner /\ ~Receipted(k)
                           /\ holds[k].status \in {"held", "settled", "refunded"}}}

\* collect_reconcile_rows
ReconcileRows == ReceiptRows \cup HoldRows

\* scan_settlement_health; it shows a pending intent once 15 minutes are over.
StalePending == {e \in Deals : store[e].intent = "pending"}
HeldEscrows  == {h \in Handle : ~process.partner /\ holds[h].status = "held"}

\* settlement_rail_stressed: the banner of the console.
Stressed == StalePending # {} \/ HeldEscrows # {}

---------------------------------------------------------------------------
(* Properties.                                                             *)

\* Every hold of the rail is in the export once, for its exchange and with the status
\* it has at the rail; of a partner's rail, every one that a receipt is of.
ExportAgrees ==
  \A h \in Handle : holds[h].status \notin {"none", "lost"} /\ (process.partner => Receipted(h)) =>
    {r \in ReconcileRows : r.handle = h} =
      {[deal |-> holds[h].deal, handle |-> h, status |-> holds[h].status]}

\* Money that moved without a receipt is found by the scan, also after a crash between
\* the movement and the save, and where the partner's answer was lost.
InterruptedIsFound ==
  \A h \in Handle : holds[h].status \in {"settled", "refunded"} /\ ~Receipted(h) =>
    holds[h].deal \in StalePending

\* A sweep that returned has closed every exchange that it found overdue.
SweepIsComplete == swept = "ok" => \A e \in due : store[e].state = "EXPIRED_REFUNDED"

\* A ticket is one of a dispute; in one life of the process every dispute has drawn an
\* id, and the ticket under it is its own, unless another dispute drew the same.
TicketsFollow ==
  /\ \A id \in TicketId : tickets.by[id] # 0 =>
       /\ store[tickets.by[id]].state \in {"DISPUTED", "SETTLED", "REJECTED"}
       /\ tickets.of[tickets.by[id]] = id
  /\ \A e \in Deals : tickets.of[e] # 0 => tickets.by[tickets.of[e]] # 0
  /\ \A e \in Deals : store[e].state = "DISPUTED" =>
       tickets.of[e] # 0 \/ process.rebooted \/ (desk["user"].pc = "ticket" /\ desk["user"].deal = e)

\* reconcile.py, rb04.py, dispute_tickets.py, exchange.py: the reports miss no money, a
\* sweep no overdue exchange, and the ticket desk no dispute.
DeskIsSound == ExportAgrees /\ InterruptedIsFound /\ SweepIsComplete /\ TicketsFollow
---------------------------------------------------------------------------
(* What the soundness of the desk rests on.                                *)

Asks == Closing \cup {"escrow", "deliver", "verify", "dispute"}

Row == [state : State, hold : 0 .. MaxFreeze, intent : {"none", "pending", "done"},
        action : {"none", "settled", "refunded"}, receipt : {"none", "settled", "refunded"},
        version : Nat, overdue : BOOLEAN]

Hold == [deal : 0 .. Deal, status : {"none", "held", "settled", "refunded", "lost"}]

Work == [pc : {"freeze", "capture", "move", "save", "ticket"}, op : Asks, deal : Deals, copy : Row]

DeskTypeOK ==
  /\ store \in [Deals -> Row] /\ holds \in [Handle -> Hold]
  /\ desk \in [DeskThread -> {NoWork} \cup Work]
  /\ queue \in Seq([deal : Deals, row : Row])
  /\ due \subseteq Deals /\ swept \in {"no", "begun", "raised", "ok"}
  /\ tickets \in [of : [Deals -> 0 .. MaxTicket], by : [TicketId -> 0 .. Deal]]
  /\ asked \in Nat /\ process \in [rebooted : BOOLEAN, partner : BOOLEAN, recovering : SUBSET Deals]

\* The hold of a row, or of a copy, was made for its exchange, and a receipt says what
\* became of it, unless the rail forgot.
Truthful(row, e) ==
  /\ row.hold # 0 => LET h == holds[row.hold] IN h.status = "lost" \/ (h.status # "none" /\ h.deal = e)
  /\ row.receipt # "none" => row.hold # 0 /\ holds[row.hold].status \in {row.receipt, "lost"}
  /\ row.state = "CONTRACTED" => row.hold = 0
  /\ row.intent = "pending" => row.hold # 0

\* Money that moved is the hold of a row that has the intent, or the receipt.
Journalled(row) == row.intent = "pending" \/ row.receipt # "none"

Noted(h) ==
  holds[h].status \in {"settled", "refunded"} =>
    holds[h].deal # 0 /\ store[holds[h].deal].hold = h /\ Journalled(store[holds[h].deal])

\* The same but for the deadline, which passes without a save.
SameRow(a, b) ==
  /\ a.state = b.state /\ a.hold = b.hold /\ a.version = b.version
  /\ a.intent = b.intent /\ a.receipt = b.receipt

\* What an operation that is still to be saved relies on, if its save is accepted.
Settles(d) == d.copy.hold = store[d.deal].hold /\ d.copy.intent = "done" /\ d.copy.receipt # "none"
              /\ d.copy.hold # 0 /\ holds[d.copy.hold] = [deal |-> d.deal, status |-> d.copy.receipt]
Freezes(d) == d.op = "escrow" /\ store[d.deal].hold = 0 /\ d.copy.intent = store[d.deal].intent
              /\ d.copy.receipt = "none"
              /\ d.copy.hold # 0 /\ holds[d.copy.hold].status # "none" /\ holds[d.copy.hold].deal = d.deal

Underway(d) ==
  /\ d.copy.version <= store[d.deal].version
  /\ d.pc = "freeze" => d.op = "escrow" /\ Truthful(d.copy, d.deal)
  /\ d.pc # "freeze" => CanTransition(d.copy.state, Leads(d.op))
  /\ d.pc \in {"capture", "move"} =>
       /\ d.op \in Closing /\ Truthful(d.copy, d.deal)
       /\ d.copy.hold # 0 /\ d.copy.hold = store[d.deal].hold
  /\ d.pc = "move" => d.copy.intent = "pending" /\ Journalled(store[d.deal])
  /\ d.copy.version = store[d.deal].version =>
       /\ d.copy.state = store[d.deal].state
       /\ d.pc \in {"freeze", "capture", "move"} => SameRow(d.copy, store[d.deal])
       /\ d.pc = "save" => Settles(d) \/ Freezes(d) \/ SameRow(d.copy, store[d.deal])

MoneyInv ==
  /\ \A e \in Deals : Truthful(store[e], e)
  /\ \A h \in Handle : Noted(h)
  /\ \A w \in DeskThread : desk[w].pc \notin {"idle", "ticket"} => Underway(desk[w])

\* What the sweep found overdue is closed, being closed, or still on its list.
SweepInv ==
  /\ desk["sweep"].pc # "idle" => desk["sweep"].op = "expire" /\ desk["sweep"].pc # "ticket"
  /\ swept # "begun" => queue = <<>> /\ desk["sweep"].pc = "idle"
  /\ \A i \in DOMAIN queue : queue[i].deal \in due => Expires(queue[i].row)
  /\ swept \in {"begun", "ok"} => \A e \in due :
       \/ store[e].state = "EXPIRED_REFUNDED"
       \/ \E i \in DOMAIN queue : queue[i].deal = e
       \/ desk["sweep"].pc # "idle" /\ desk["sweep"].deal = e

TicketInv ==
  /\ TicketsFollow
  /\ desk["user"].pc = "ticket" => store[desk["user"].deal].state \in {"DISPUTED", "SETTLED", "REJECTED"}

DeskInv == MoneyInv /\ SweepInv /\ TicketInv
=============================================================================
