--------------------------- MODULE ExchangeProofs ---------------------------
(***************************************************************************)
(* Proofs about ExchangeEngine, for every set of threads, of handles, of   *)
(* operations and of timeouts.                                             *)
(***************************************************************************)
EXTENDS ExchangeSafety, TLAPS

-----------------------------------------------------------------------------
(* The operators on rows keep the type of a row, and what they change.     *)

LEMMA ProposedType == Proposed \in Row
  BY DEF Proposed, Row, State, NoIntent, Deadline, Phase, Party

LEMMA IdleType == Idle \in Task
  BY ProposedType DEF Idle, Task, AllOps, Doc, NoDoc

LEMMA TransitionTarget ==
  ASSUME NEW s \in State, NEW d, CanTransition(s, d)
  PROVE  /\ d \in State
         /\ s \notin TerminalStates
         /\ d \notin {"PROPOSED"}
         /\ d = "CONTRACTED" => s = "PROPOSED"
         /\ d = "ESCROWED" => s = "CONTRACTED"
  BY DEF CanTransition, Transitions, State, TerminalStates

LEMMA TargetType == ASSUME NEW o \in AllOps PROVE Target(o) \in TerminalStates
  BY DEF Target, TerminalStates

LEMMA TerminalIsState == TerminalStates \subseteq State
  BY DEF TerminalStates, State

LEMMA DeadlineType ==
  ASSUME NEW p \in Phase PROVE Deadline(p) \in Phase \union {NoDeadline}
  BY DEF Deadline

LEMMA BumpedType ==
  ASSUME NEW r \in Row
  PROVE  /\ Bumped(r) \in Row
         /\ Bumped(r).state = r.state
         /\ Bumped(r).version = r.version + 1
         /\ Bumped(r).acks = r.acks
         /\ Bumped(r).handle = r.handle
         /\ Bumped(r).receipt = r.receipt
         /\ Bumped(r).intent = r.intent
  BY DEF Bumped, Row

LEMMA AdvanceType ==
  ASSUME NEW r \in Row, NEW s \in State, NEW d \in Phase \union {NoDeadline}
  PROVE  /\ Advance(r, s, d) \in Row
         /\ Advance(r, s, d).state = s
         /\ Advance(r, s, d).version = r.version + 1
         /\ Advance(r, s, d).acks = r.acks
         /\ Advance(r, s, d).handle = r.handle
         /\ Advance(r, s, d).receipt = r.receipt
         /\ Advance(r, s, d).intent = r.intent
<1> DEFINE q == Bumped(r)
<1>1. q \in Row
  BY BumpedType
<1> HIDE DEF q
<1>2. /\ [q EXCEPT !.state = s, !.deadline = d] \in Row
      /\ [q EXCEPT !.state = s, !.deadline = d].state = s
      /\ [q EXCEPT !.state = s, !.deadline = d].version = q.version
      /\ [q EXCEPT !.state = s, !.deadline = d].acks = q.acks
      /\ [q EXCEPT !.state = s, !.deadline = d].handle = q.handle
      /\ [q EXCEPT !.state = s, !.deadline = d].receipt = q.receipt
      /\ [q EXCEPT !.state = s, !.deadline = d].intent = q.intent
  BY <1>1 DEF Row
<1>3. QED
  BY <1>2, BumpedType DEF Advance, q

LEMMA CapturedType ==
  ASSUME NEW r \in Row, NEW o \in AllOps, MustMove(r)
  PROVE  /\ Captured(r, o) \in Row
         /\ Captured(r, o).state = r.state
         /\ Captured(r, o).version = r.version + 1
         /\ Captured(r, o).acks = r.acks
         /\ Captured(r, o).handle = r.handle
         /\ Captured(r, o).receipt = r.receipt
         /\ Captured(r, o).intent.status = "pending"
         /\ Captured(r, o).intent.handle = r.handle
<1> DEFINE q == Bumped(r)
           i == [action |-> Action(o), handle |-> r.handle, status |-> "pending"]
<1>1. q \in Row
  BY BumpedType
<1>2. i \in Intent /\ i.status = "pending" /\ i.handle = r.handle
  BY DEF MustMove, Row, Intent, Action
<1> HIDE DEF q, i
<1>3. /\ [q EXCEPT !.intent = i] \in Row
      /\ [q EXCEPT !.intent = i].state = q.state
      /\ [q EXCEPT !.intent = i].version = q.version
      /\ [q EXCEPT !.intent = i].acks = q.acks
      /\ [q EXCEPT !.intent = i].handle = q.handle
      /\ [q EXCEPT !.intent = i].receipt = q.receipt
      /\ [q EXCEPT !.intent = i].intent = i
  BY <1>1, <1>2 DEF Row
<1>4. QED
  BY <1>2, <1>3, BumpedType DEF Captured, q, i

LEMMA ClosingType ==
  ASSUME NEW r \in Row, NEW o \in AllOps
  PROVE  /\ Closing(r, o) \in Row
         /\ Closing(r, o).state = Target(o)
         /\ Closing(r, o).version = r.version + 1
         /\ Closing(r, o).acks = r.acks
         /\ Closing(r, o).handle = r.handle
         /\ Closing(r, o).receipt = r.receipt
         /\ Closing(r, o).intent = r.intent
<1> DEFINE q == Advance(r, Target(o), NoDeadline)
           x == CASE o = "resolve_settle" -> "settle"
                  [] o = "resolve_reject" -> "reject"
                  [] OTHER                -> q.dispute
<1>1. Target(o) \in State /\ NoDeadline \in Phase \union {NoDeadline}
  BY TargetType, TerminalIsState
<1>2. q \in Row
  BY <1>1, AdvanceType
<1>3. x \in {"none", "open", "settle", "reject"}
  BY <1>2 DEF Row
<1>4. Closing(r, o) = [q EXCEPT !.dispute = x]
  BY <1>2 DEF Closing
<1> HIDE DEF q, x
<1>5. /\ [q EXCEPT !.dispute = x] \in Row
      /\ [q EXCEPT !.dispute = x].state = q.state
      /\ [q EXCEPT !.dispute = x].version = q.version
      /\ [q EXCEPT !.dispute = x].acks = q.acks
      /\ [q EXCEPT !.dispute = x].handle = q.handle
      /\ [q EXCEPT !.dispute = x].receipt = q.receipt
      /\ [q EXCEPT !.dispute = x].intent = q.intent
  BY <1>2, <1>3 DEF Row
<1>6. QED
  BY <1>1, <1>4, <1>5, AdvanceType DEF q

\* The outcome that the rail gives a hold for an intent.
OutcomeOf(intent) == IF intent.action = "settle" THEN "settled" ELSE "refunded"

LEMMA PendingType ==
  ASSUME NEW r \in Row, Pending(r)
  PROVE  r.intent \in Intent
  BY DEF Row, Pending, NoIntent

\* The status of the intent of a row, and nothing else of the intent, changes.
LEMMA StatusType ==
  ASSUME NEW r \in Row, Pending(r), NEW s \in {"pending", "failed", "done"}
  PROVE  /\ [r EXCEPT !.intent.status = s] \in Row
         /\ [r EXCEPT !.intent.status = s].state = r.state
         /\ [r EXCEPT !.intent.status = s].version = r.version
         /\ [r EXCEPT !.intent.status = s].acks = r.acks
         /\ [r EXCEPT !.intent.status = s].handle = r.handle
         /\ [r EXCEPT !.intent.status = s].receipt = r.receipt
         /\ [r EXCEPT !.intent.status = s].intent.status = s
         /\ [r EXCEPT !.intent.status = s].intent.handle = r.intent.handle
<1> DEFINE i == [r.intent EXCEPT !.status = s]
<1>1. i \in Intent /\ i.status = s /\ i.handle = r.intent.handle
  BY PendingType DEF Intent
<1>2. [r EXCEPT !.intent.status = s] = [r EXCEPT !.intent = i]
  BY DEF Row
<1> HIDE DEF i
<1>3. QED
  BY <1>1, <1>2 DEF Row

LEMMA ReceiptedType ==
  ASSUME NEW r \in Row, Pending(r)
  PROVE  /\ Receipted(r) \in Row
         /\ Receipted(r).state = r.state
         /\ Receipted(r).version = r.version
         /\ Receipted(r).acks = r.acks
         /\ Receipted(r).handle = r.handle
         /\ Receipted(r).receipt = OutcomeOf(r.intent)
         /\ Receipted(r).intent.status = "done"
         /\ Receipted(r).intent.handle = r.intent.handle
<1> DEFINE q == [r EXCEPT !.intent.status = "done"]
           x == OutcomeOf(r.intent)
<1>1. q \in Row /\ x \in Outcome
  BY StatusType DEF OutcomeOf, Outcome
<1>2. Receipted(r) = [q EXCEPT !.receipt = x]
  BY DEF Receipted, Row, OutcomeOf
<1>3. /\ q.state = r.state /\ q.version = r.version /\ q.acks = r.acks
      /\ q.handle = r.handle /\ q.intent.status = "done"
      /\ q.intent.handle = r.intent.handle
  BY StatusType
<1> HIDE DEF q, x
<1>4. /\ [q EXCEPT !.receipt = x] \in Row
      /\ [q EXCEPT !.receipt = x].state = q.state
      /\ [q EXCEPT !.receipt = x].version = q.version
      /\ [q EXCEPT !.receipt = x].acks = q.acks
      /\ [q EXCEPT !.receipt = x].handle = q.handle
      /\ [q EXCEPT !.receipt = x].receipt = x
      /\ [q EXCEPT !.receipt = x].intent = q.intent
  BY <1>1 DEF Row
<1>5. QED
  BY <1>2, <1>3, <1>4 DEF x

LEMMA RecoveredType ==
  ASSUME NEW r \in Row, Pending(r)
  PROVE  /\ Recovered(r) \in Row
         /\ Recovered(r).state \in {r.state} \union TerminalStates
         /\ Recovered(r).version = r.version + 1
         /\ Recovered(r).acks = r.acks
         /\ Recovered(r).handle = r.handle
         /\ Recovered(r).receipt = OutcomeOf(r.intent)
         /\ Recovered(r).intent.status = "done"
         /\ Recovered(r).intent.handle = r.intent.handle
<1> DEFINE target == IF r.intent.action = "settle" THEN "SETTLED" ELSE "EXPIRED_REFUNDED"
<1>1. Receipted(r) \in Row /\ target \in State \cap TerminalStates
  BY ReceiptedType DEF State, TerminalStates
<1>2. CASE CanTransition(r.state, target)
  <2>1. Recovered(r) = Advance(Receipted(r), target, NoDeadline)
    BY <1>2 DEF Recovered
  <2>2. QED
    BY <1>1, <2>1, ReceiptedType, AdvanceType
<1>3. CASE ~ CanTransition(r.state, target)
  <2>1. Recovered(r) = Bumped(Receipted(r))
    BY <1>3 DEF Recovered
  <2>2. QED
    BY <1>1, <2>1, ReceiptedType, BumpedType
<1>4. QED
  BY <1>2, <1>3

-----------------------------------------------------------------------------
(* Type correctness.                                                       *)

PC == {"idle", "capture", "authorize", "call", "commit",
       "sweeping", "record", "record_client"}

LEMMA DocsType ==
  ASSUME TypeOK, NEW o \in AllOps, NEW d \in Docs(o)
  PROVE  d \in Doc
<1>1. Loaded \subseteq Doc
  BY DEF TypeOK, Loaded, Stored, Doc, NoDoc, VdcTable
<1>2. CASE o = "deliver"
  BY <1>2 DEF Docs, Doc
<1>3. CASE o \in {"confirm", "confirm_local"}
  <2>1. PICK c \in Loaded : d = [c EXCEPT !.by = "both"]
    BY <1>3 DEF Docs
  <2>2. QED
    BY <1>1, <2>1 DEF Doc
<1>4. CASE o \notin {"deliver", "confirm", "confirm_local"}
  BY <1>1, <1>4 DEF Docs
<1>5. QED
  BY <1>2, <1>3, <1>4

LEMMA UpsertedType ==
  ASSUME TypeOK, NEW d \in Doc
  PROVE  /\ Upserted(d) \in VdcTable
         /\ [Upserted(d) EXCEPT !.ref = d.id] \in VdcTable
<1>1. Upserted(d) \in VdcTable
  BY DEF TypeOK, Upserted, Doc, VdcTable
<1>2. d.id \in Vdc \union {NoVdc}
  BY DEF Doc
<1>3. QED
  BY <1>1, <1>2 DEF VdcTable

\* A save keeps the types, and saves the row of the thread if that is fresh.
LEMMA SaveType ==
  ASSUME TypeOK, NEW t \in Thread, Save(t)
  PROVE  /\ row' \in Row
         /\ vdc' \in VdcTable
         /\ row' = IF Fresh(t) THEN th[t].ex ELSE row
<1>1. row \in Row /\ th[t].ex \in Row /\ th[t].vdc \in Doc
  BY DEF TypeOK, Task
<1>2. QED
  BY <1>1, UpsertedType DEF Save

LEMMA BeginType ==
  ASSUME TypeOK, NEW t \in Thread, NEW o \in AllOps, NEW p \in PC, NEW r \in Row,
         Begin(t, o, p, r)
  PROVE  TypeOK'
<1>1. PICK d \in Docs(o) :
        th' = [th EXCEPT ![t] = [pc |-> p, op |-> o, ex |-> r, vdc |-> d, pv |-> row.version]]
  BY DEF Begin
<1>2. [pc |-> p, op |-> o, ex |-> r, vdc |-> d, pv |-> row.version] \in Task
  BY DocsType DEF TypeOK, Task, Row, PC
<1>3. QED
  BY <1>1, <1>2 DEF TypeOK, Begin

LEMMA BeginCloseType ==
  ASSUME TypeOK, NEW t \in Thread, NEW o \in AllOps, NEW r \in Row, BeginClose(t, o, r)
  PROVE  TypeOK'
<1>1. CASE MustMove(r)
  BY <1>1, CapturedType, BeginType DEF BeginClose, PC
<1>2. CASE ~ MustMove(r)
  BY <1>2, ClosingType, BeginType DEF BeginClose, PC
<1>3. QED
  BY <1>1, <1>2

LEMMA EndType ==
  ASSUME TypeOK, NEW t \in Thread, End(t)
  PROVE  th' \in [Thread -> Task]
  BY IdleType DEF TypeOK, End

\* Task k goes on at p with copy r.
At(k, p, r) == [k EXCEPT !.pc = p, !.ex = r]

LEMMA GoOnType ==
  ASSUME TypeOK, NEW t \in Thread, NEW p \in PC, NEW r \in Row, GoOn(t, p, r)
  PROVE  /\ th' \in [Thread -> Task]
         /\ th'[t] = At(th[t], p, r)
         /\ \A u \in Thread \ {t} : th'[u] = th[u]
<1>1. th[t] \in Task
  BY DEF TypeOK
<1>2. At(th[t], p, r) \in Task
  BY <1>1 DEF Task, PC, At
<1>3. th' = [th EXCEPT ![t] = At(th[t], p, r)]
  BY <1>1 DEF GoOn, TypeOK, Task, At
<1>4. QED
  BY <1>2, <1>3 DEF TypeOK

(* Each action keeps the type of the state. *)
LEMMA RequestType ==
  ASSUME TypeOK, NEW t \in Thread, Request(t)
  PROVE  TypeOK'
<1> USE DEF PC
<1>0. row \in Row /\ row.state \in State /\ row.deadline \in Phase \union {NoDeadline}
  BY DEF TypeOK, Row
<1>1. ASSUME NEW p \in Party, Contract(t, p) PROVE TypeOK'
  <2> DEFINE acked == [row EXCEPT !.acks = @ \union {p}]
  <2>1. acked \in Row
    BY <1>0 DEF Row
  <2>2. Advance(acked, "CONTRACTED", Deadline("escrow")) \in Row /\ Bumped(acked) \in Row
    BY <2>1, AdvanceType, BumpedType, DeadlineType DEF State, Phase
  <2>3. QED
    BY <1>1, <2>2, BeginType DEF Contract, AllOps
<1>2. CASE Escrow(t)
  BY <1>0, <1>2, BeginType DEF Escrow, AllOps
<1>3. CASE Deliver(t)
  <2> DEFINE q == Advance(row, "DELIVERED", Deadline("verify"))
  <2>1. q \in Row
    BY <1>0, AdvanceType, DeadlineType DEF State, Phase
  <2>2. QED
    BY <1>3, <2>1, BeginType DEF Deliver, AllOps
<1>4. CASE Verify(t)
  <2> DEFINE q == Advance(row, "VERIFIED", Deadline("confirm"))
  <2>1. q \in Row
    BY <1>0, AdvanceType, DeadlineType DEF State, Phase
  <2> HIDE DEF q
  <2>2. [q EXCEPT !.verdict = "passed"] \in Row /\ [row EXCEPT !.verdict = "rejected"] \in Row
    BY <1>0, <2>1 DEF Row
  <2>3. QED
    BY <1>4, <2>2, BeginType, BeginCloseType DEF Verify, AllOps, RefundOp, q
<1>5. CASE Dispute(t)
  <2> DEFINE q == Advance(row, "DISPUTED", row.deadline)
  <2>1. q \in Row
    BY <1>0, AdvanceType DEF State
  <2> HIDE DEF q
  <2>2. [q EXCEPT !.dispute = "open"] \in Row
    BY <2>1 DEF Row
  <2>3. QED
    BY <1>5, <2>2, BeginType DEF Dispute, AllOps, q
<1>6. ASSUME NEW o \in {"confirm", "resolve_settle", "resolve_reject", "cancel", "expire"},
             Close(t, o)
      PROVE  TypeOK'
  BY <1>0, <1>6, BeginCloseType DEF Close, AllOps, SettleOp, RefundOp
<1>7. CASE ConfirmLocal(t)
  BY <1>0, <1>7, BeginCloseType DEF ConfirmLocal, AllOps, SettleOp
<1>8. CASE SweepFinds(t)
  BY <1>0, <1>8, BeginType DEF SweepFinds, AllOps, RefundOp
<1>9. CASE Recover(t)
  BY <1>0, <1>9, BeginType DEF Recover, AllOps
<1>10. QED
  BY <1>1, <1>2, <1>3, <1>4, <1>5, <1>6, <1>7, <1>8, <1>9
     DEF Request, IngestConfirmation, Resolve, Cancel, Expire

LEMMA RailMovesType ==
  ASSUME TypeOK, NEW i \in Intent, RailMoves(i)
  PROVE  /\ holds' \in [Handle -> {"none", "held"} \union Outcome]
         /\ holds'[i.handle] = OutcomeOf(i)
         /\ \A h \in Handle : holds[h] \in Outcome => holds'[h] = holds[h]
         /\ \A h \in Handle \ {i.handle} : holds'[h] = holds[h]
  BY DEF TypeOK, RailMoves, OutcomeOf, Outcome, Intent

LEMMA ContinueType ==
  ASSUME TypeOK, EngineInv, NEW t \in Thread, Continue(t)
  PROVE  TypeOK'
<1> USE DEF PC
<1>0. /\ th[t] \in Task /\ th[t].ex \in Row /\ th[t].op \in AllOps /\ row \in Row
      /\ th[t].ex.version \in Nat /\ th[t].ex.state \in State
      /\ TaskOK(th[t], row, holds)
  BY DEF TypeOK, Task, Row, EngineInv
<1>1. CASE Capture(t)
  <2>1. CASE Fresh(t)
    <3>1. [th[t] EXCEPT !.pc = "call", !.pv = th[t].ex.version] \in Task
      BY <1>0 DEF Task
    <3>2. th' = [th EXCEPT ![t] = [th[t] EXCEPT !.pc = "call", !.pv = th[t].ex.version]]
      BY <1>0, <1>1, <2>1 DEF Capture, TypeOK, Task
    <3>3. QED
      BY <1>0, <1>1, <2>1, <3>1, <3>2, SaveType DEF Capture, TypeOK
  <2>2. CASE ~ Fresh(t)
    BY <1>1, <2>2, EndType, SaveType DEF Capture, TypeOK
  <2>3. QED
    BY <2>1, <2>2
<1>2. CASE Authorize(t)
  <2>1. holds' \in [Handle -> {"none", "held"} \union Outcome]
    BY <1>2 DEF Authorize, TypeOK
  <2>2. ASSUME NEW h \in Handle,
               GoOn(t, "commit", [Advance(th[t].ex, "ESCROWED", Deadline("deliver"))
                                    EXCEPT !.handle = h])
        PROVE  th' \in [Thread -> Task]
    <3> DEFINE q == Advance(th[t].ex, "ESCROWED", Deadline("deliver"))
    <3>1. q \in Row
      BY <1>0, AdvanceType, DeadlineType DEF State, Phase
    <3> HIDE DEF q
    <3>2. [q EXCEPT !.handle = h] \in Row
      BY <3>1 DEF Row
    <3>3. QED
      BY <2>2, <3>2, GoOnType DEF q
  <2>3. th' \in [Thread -> Task]
    BY <1>2, <2>2, EndType DEF Authorize
  <2>4. QED
    BY <1>2, <2>1, <2>3 DEF Authorize, TypeOK
<1>3. CASE CallAnswered(t)
  <2>1. Pending(th[t].ex) /\ th[t].ex.intent \in Intent
    BY <1>0, <1>3, PendingType DEF CallAnswered, TaskOK
  <2>2. holds' \in [Handle -> {"none", "held"} \union Outcome]
    BY <1>3, <2>1, RailMovesType DEF CallAnswered
  <2>3. /\ Recovered(th[t].ex) \in Row
        /\ Closing(Receipted(th[t].ex), th[t].op) \in Row
    BY <1>0, <2>1, RecoveredType, ReceiptedType, ClosingType
  <2>4. th' \in [Thread -> Task]
    BY <1>3, <2>3, GoOnType, EndType DEF CallAnswered
  <2>5. QED
    BY <1>3, <2>2, <2>4 DEF CallAnswered, TypeOK
<1>4. CASE CallFailed(t)
  <2>1. Pending(th[t].ex) /\ th[t].ex.intent \in Intent
    BY <1>0, <1>4, PendingType DEF CallFailed, TaskOK
  <2>2. holds' \in [Handle -> {"none", "held"} \union Outcome]
    BY <1>4, <2>1, RailMovesType DEF CallFailed, TypeOK
  <2>3. Bumped(th[t].ex) \in Row /\ Pending(Bumped(th[t].ex))
    BY <1>0, <2>1, BumpedType DEF Pending
  <2>4. [Bumped(th[t].ex) EXCEPT !.intent.status = "failed"] \in Row
    BY <2>3, StatusType
  <2>5. th' \in [Thread -> Task]
    BY <1>4, <2>4, GoOnType, EndType DEF CallFailed
  <2>6. QED
    BY <1>4, <2>2, <2>5 DEF CallFailed, TypeOK
<1>5. CASE Commit(t)
  <2>1. th' \in [Thread -> Task]
    BY <1>0, <1>5, GoOnType, EndType DEF Commit
  <2>2. QED
    BY <1>0, <1>5, <2>1, SaveType DEF Commit, TypeOK
<1>6. CASE Record(t)
  <2>1. th' \in [Thread -> Task]
    BY <1>0, <1>6, GoOnType, EndType DEF Record
  <2>2. ledger' \in [Entry -> Nat]
    <3>1. ASSUME NEW e \in Entry, ledger' = [ledger EXCEPT ![e] = @ + 1]
          PROVE  ledger' \in [Entry -> Nat]
      BY <3>1 DEF TypeOK
    <3>2. CASE ledger' = [ledger EXCEPT !["client_settled"] = @ + 1]
      BY <3>1, <3>2 DEF Entry
    <3>3. CASE \E e \in Entries(th[t].op) \ {"client_settled"} :
                  ledger' = [ledger EXCEPT ![e] = @ + 1]
      BY <3>1, <3>3 DEF Entries, Entry
    <3>4. QED
      BY <1>6, <3>2, <3>3 DEF Record
  <2>3. QED
    BY <1>6, <2>1, <2>2 DEF Record, TypeOK
<1>7. CASE SweepExpires(t)
  BY <1>0, <1>7, BeginCloseType, EndType DEF SweepExpires, AllOps, RefundOp, TypeOK
<1>8. QED
  BY <1>1, <1>2, <1>3, <1>4, <1>5, <1>6, <1>7 DEF Continue

LEMMA NextType ==
  ASSUME TypeOK, EngineInv, [Next]_vars
  PROVE  TypeOK'
<1>1. ASSUME NEW t \in Thread, Request(t) \/ Continue(t) PROVE TypeOK'
  BY <1>1, RequestType, ContinueType
<1>2. CASE StartWithNothingToRecover
  BY <1>2 DEF StartWithNothingToRecover, TypeOK
<1>3. CASE DeadlinePasses
  BY <1>3 DEF DeadlinePasses, TypeOK, Row, NoDeadline
<1>4. CASE Crash
  <2>1. \A u \in Thread : th[u].vdc \in Doc
    BY DEF TypeOK, Task
  <2>2. vdc' \in VdcTable
    <3>1. CASE UNCHANGED vdc
      BY <3>1 DEF TypeOK
    <3>2. ASSUME NEW u \in Thread, vdc' = Upserted(th[u].vdc)
          PROVE  vdc' \in VdcTable
      BY <2>1, <3>2, UpsertedType
    <3>3. QED
      BY <1>4, <3>1, <3>2 DEF Crash
  <2>3. QED
    BY <1>4, <2>2, IdleType DEF Crash, TypeOK
<1>5. CASE UNCHANGED vars
  BY <1>5 DEF vars, TypeOK
<1>6. QED
  BY <1>1, <1>2, <1>3, <1>4, <1>5 DEF Next

-----------------------------------------------------------------------------
(* The inductive invariant.  A step either changes one thread and what the *)
(* rail holds (LocalStep), or it saves a thread's copy (SaveStep).         *)

HoldStatus == {"none", "held"} \union Outcome

\* Money that has moved under hs has moved the same way under hs2.
Settles(hs, hs2) == \A h \in Handle : hs[h] \in Outcome => hs2[h] = hs[h]

LEMMA ReceiptHandle ==
  ASSUME NEW r \in Row, NEW hs, RowOK(r, hs), r.intent.status # "none"
  PROVE  r.intent \in Intent /\ r.handle \in Handle /\ r.handle # NoHandle
  BY EngineAssumption DEF RowOK, Row, Intent, NoIntent

LEMMA RowOKStable ==
  ASSUME NEW r \in Row, NEW hs, NEW hs2, RowOK(r, hs), Settles(hs, hs2)
  PROVE  RowOK(r, hs2)
<1>1. CASE r.receipt = "none"
  BY <1>1 DEF RowOK
<1>2. CASE r.receipt # "none"
  <2>1. r.handle \in Handle /\ r.receipt \in Outcome
    BY <1>2, ReceiptHandle DEF RowOK, Row
  <2>2. QED
    BY <1>2, <2>1 DEF RowOK, Settles
<1>3. QED
  BY <1>1, <1>2

LEMMA TaskOKStable ==
  ASSUME NEW k \in Task, NEW r \in Row, NEW hs, NEW hs2, TaskOK(k, r, hs), Settles(hs, hs2)
  PROVE  TaskOK(k, r, hs2)
  BY RowOKStable DEF TaskOK, Task

LEMMA TaskOKSaved ==
  ASSUME NEW k \in Task, NEW r \in Row, NEW s \in Row, NEW hs, TaskOK(k, r, hs),
         Keeps(s, r), r.version < s.version
  PROVE  TaskOK(k, s, hs)
<1>1. k.ex \in Row /\ k.pv \in Nat /\ r.version \in Nat /\ s.version \in Nat
  BY DEF Task, Row
<1>2. k.pv <= s.version /\ k.pv # s.version
  BY <1>1 DEF TaskOK
<1>3. k.pc = "call" => k.ex.handle = s.handle /\ s.intent.status # "none"
  <2>1. CASE k.pc = "call"
    <3>1. k.ex.intent.status # "none"
      BY <2>1 DEF TaskOK, Pending
    <3>2. r.handle # NoHandle
      BY <1>1, <2>1, <3>1, ReceiptHandle DEF TaskOK
    <3>3. QED
      BY <2>1, <3>2 DEF TaskOK, Keeps
  <2>2. QED
    BY <2>1
<1>4. QED
  BY <1>2, <1>3 DEF TaskOK

LEMMA IdleOK ==
  ASSUME NEW r \in Row, NEW hs
  PROVE  TaskOK(Idle, r, hs)
<1>1. RowOK(Proposed, hs)
  BY DEF RowOK, Proposed, NoIntent, TerminalStates, Pending
<1>2. QED
  BY <1>1 DEF TaskOK, Idle, Proposed, Row

LEMMA InitInv == Init => TypeOK /\ EngineInv
<1> SUFFICES ASSUME Init PROVE TypeOK /\ EngineInv
  OBVIOUS
<1>1. TypeOK
  BY ProposedType, IdleType DEF Init, TypeOK, VdcTable
<1>2. RowOK(Proposed, holds)
  BY DEF RowOK, Proposed, NoIntent, TerminalStates, Pending
<1>3. \A t \in Thread : TaskOK(th[t], row, holds)
  BY ProposedType, IdleOK DEF Init
<1>4. MoneyIsJournalled
  BY DEF Init, MoneyIsJournalled, Moved, Outcome
<1>5. QED
  BY <1>1, <1>2, <1>3, <1>4 DEF EngineInv, Init

LEMMA LocalStep ==
  ASSUME TypeOK, EngineInv, NEW t \in Thread,
         row' = row, th' \in [Thread -> Task], Settles(holds, holds'),
         \A u \in Thread \ {t} : th'[u] = th[u],
         TaskOK(th'[t], row, holds'),
         \A h \in Handle : holds'[h] \in Outcome /\ holds[h] \notin Outcome =>
            row.handle = h /\ row.intent.status # "none"
  PROVE  EngineInv'
<1>0. row \in Row /\ RowOK(row, holds)
  BY DEF TypeOK, EngineInv
<1>1. RowOK(row, holds')
  BY <1>0, RowOKStable
<1>2. ASSUME NEW u \in Thread PROVE TaskOK(th'[u], row, holds')
  <2>1. CASE u = t
    BY <2>1
  <2>2. CASE u # t
    <3>1. th[u] \in Task /\ TaskOK(th[u], row, holds)
      BY DEF TypeOK, EngineInv
    <3>2. QED
      BY <1>0, <2>2, <3>1, TaskOKStable
  <2>3. QED
    BY <2>1, <2>2
<1>3. ASSUME NEW h \in Handle, holds'[h] \in Outcome
      PROVE  row.handle = h /\ (row.receipt # "none" \/ Pending(row))
  <2>1. CASE holds[h] \in Outcome
    BY <2>1 DEF EngineInv, MoneyIsJournalled, Moved
  <2>2. CASE holds[h] \notin Outcome
    <3>1. row.handle = h /\ row.intent.status # "none"
      BY <1>3, <2>2
    <3>2. row.intent.status \in {"pending", "failed", "done"}
      BY <1>0, <3>1, ReceiptHandle DEF Intent
    <3>3. QED
      BY <1>0, <3>1, <3>2 DEF RowOK, Pending
  <2>3. QED
    BY <2>1, <2>2
<1>4. MoneyIsJournalled'
  BY <1>3 DEF MoneyIsJournalled, Moved, Pending
<1>5. QED
  BY <1>1, <1>2, <1>4 DEF EngineInv

LEMMA SaveStep ==
  ASSUME TypeOK, EngineInv, NEW t \in Thread,
         th[t].pc \in {"capture", "commit"}, Fresh(t),
         row' = th[t].ex, holds' = holds, th' \in [Thread -> Task],
         \A u \in Thread \ {t} : th'[u] = th[u],
         TaskOK(th'[t], th[t].ex, holds)
  PROVE  EngineInv'
<1> DEFINE e == th[t].ex
<1>0. /\ row \in Row /\ RowOK(row, holds)
      /\ th[t] \in Task /\ TaskOK(th[t], row, holds) /\ e \in Row
  BY DEF TypeOK, EngineInv, Task
<1>1. RowOK(e, holds) /\ Keeps(e, row) /\ row.version < e.version
  BY <1>0 DEF TaskOK, Fresh
<1> HIDE DEF e
<1>2. ASSUME NEW u \in Thread PROVE TaskOK(th'[u], e, holds)
  <2>1. CASE u = t
    BY <2>1 DEF e
  <2>2. CASE u # t
    <3>1. th[u] \in Task /\ TaskOK(th[u], row, holds)
      BY DEF TypeOK, EngineInv
    <3>2. QED
      BY <1>0, <1>1, <2>2, <3>1, TaskOKSaved
  <2>3. QED
    BY <2>1, <2>2
<1>3. ASSUME NEW h \in Handle, holds[h] \in Outcome
      PROVE  e.handle = h /\ (e.receipt # "none" \/ Pending(e))
  <2>1. row.handle = h /\ (row.receipt # "none" \/ Pending(row))
    BY <1>3 DEF EngineInv, MoneyIsJournalled, Moved
  <2>2. row.handle # NoHandle /\ row.intent.status # "none"
    BY <1>0, <2>1, EngineAssumption DEF RowOK, Pending
  <2>3. e.handle = h /\ e.intent.status # "none"
    BY <1>1, <2>1, <2>2 DEF Keeps
  <2>4. e.intent.status \in {"pending", "failed", "done"}
    BY <1>0, <1>1, <2>3, ReceiptHandle DEF Intent
  <2>5. QED
    BY <1>1, <2>3, <2>4 DEF RowOK, Pending
<1>4. row' = e
  BY DEF e
<1>5. MoneyIsJournalled'
  BY <1>3, <1>4 DEF MoneyIsJournalled, Moved, Pending
<1>6. RowOK(row, holds)'
  BY <1>1, <1>4 DEF RowOK, Pending
<1>7. QED
  BY <1>2, <1>4, <1>5, <1>6 DEF EngineInv

-----------------------------------------------------------------------------
(* The actions of a thread keep the inductive invariant.                   *)

LEMMA BeginInv ==
  ASSUME TypeOK, EngineInv, NEW t \in Thread, NEW o \in AllOps, NEW p \in PC, NEW r \in Row,
         Begin(t, o, p, r),
         RowOK(r, holds),
         Keeps(r, row),
         row.version <= r.version,
         p \in {"capture", "commit"} => row.version < r.version,
         p \in {"capture", "call"} => Pending(r),
         p = "call" => r = row
  PROVE  EngineInv'
<1>0. PICK d \in Docs(o) :
        th' = [th EXCEPT ![t] = [pc |-> p, op |-> o, ex |-> r, vdc |-> d, pv |-> row.version]]
  BY DEF Begin
<1> DEFINE k == [pc |-> p, op |-> o, ex |-> r, vdc |-> d, pv |-> row.version]
<1>1. /\ th' = [th EXCEPT ![t] = k] /\ row' = row /\ holds' = holds
      /\ th' \in [Thread -> Task]
  BY <1>0, BeginType DEF Begin, TypeOK
<1>2. th'[t] = k /\ \A u \in Thread \ {t} : th'[u] = th[u]
  BY <1>1 DEF TypeOK
<1>3. TaskOK(k, row, holds)
  BY DEF TaskOK, TypeOK, Row, Pending
<1>4. Settles(holds, holds')
  BY <1>1 DEF Settles
<1> HIDE DEF k
<1>5. QED
  BY <1>1, <1>2, <1>3, <1>4, LocalStep

\* A copy that differs from the row in fields that the invariant does not mention.
Like(r, s) == /\ r.state = s.state /\ r.handle = s.handle /\ r.receipt = s.receipt
              /\ r.intent = s.intent /\ r.acks = s.acks
              /\ r.version = s.version

LEMMA BeginCloseInv ==
  ASSUME TypeOK, EngineInv, NEW t \in Thread, NEW o \in AllOps, NEW r \in Row,
         Like(r, row), BeginClose(t, o, r)
  PROVE  EngineInv'
<1>0. row \in Row /\ RowOK(row, holds) /\ RowOK(r, holds) /\ r.version \in Nat
  BY DEF TypeOK, EngineInv, RowOK, Like, Pending, Row
<1>1. CASE MustMove(r)
  <2> DEFINE q == Captured(r, o)
  <2>1. /\ q \in Row /\ q.version = r.version + 1 /\ q.intent.status = "pending"
        /\ q.acks = r.acks /\ q.handle = r.handle /\ q.receipt = "none"
        /\ q.state = r.state /\ q.intent.handle = r.handle
    BY <1>1, CapturedType DEF MustMove
  <2>2. Begin(t, o, "capture", q)
    BY <1>1 DEF BeginClose
  <2> HIDE DEF q
  <2>3. RowOK(q, holds)
    BY <1>0, <1>1, <2>1 DEF RowOK, MustMove, Pending
  <2>4. Keeps(q, row)
    BY <1>1, <2>1 DEF Keeps, Like, MustMove
  <2>5. row.version < q.version /\ Pending(q)
    BY <1>0, <2>1 DEF Like, Pending
  <2>6. QED
    BY <1>0, <2>1, <2>2, <2>3, <2>4, <2>5, BeginInv DEF PC, Row
<1>2. CASE ~ MustMove(r)
  <2> DEFINE q == Closing(r, o)
  <2>1. /\ q \in Row /\ q.version = r.version + 1 /\ q.intent = r.intent
        /\ q.acks = r.acks /\ q.handle = r.handle /\ q.receipt = r.receipt
        /\ q.state = Target(o)
    BY ClosingType
  <2>2. Begin(t, o, "commit", q)
    BY <1>2 DEF BeginClose
  <2>3. q.state \in TerminalStates
    BY <2>1, TargetType
  <2> HIDE DEF q
  <2>4. ~ Pending(q)
    <3>1. CASE r.handle = NoHandle
      BY <1>0, <2>1, <3>1, ReceiptHandle DEF Pending
    <3>2. CASE r.receipt # "none"
      BY <1>0, <2>1, <3>2 DEF RowOK, Pending
    <3>3. QED
      BY <1>2, <3>1, <3>2 DEF MustMove
  <2>5. RowOK(q, holds)
    BY <1>0, <1>2, <2>1, <2>3, <2>4 DEF RowOK, MustMove, TerminalStates
  <2>6. Keeps(q, row)
    BY <2>1 DEF Keeps, Like
  <2>7. row.version < q.version
    BY <1>0, <2>1 DEF Like
  <2>8. QED
    BY <1>0, <2>1, <2>2, <2>5, <2>6, <2>7, BeginInv DEF PC, Row
<1>3. QED
  BY <1>1, <1>2

LEMMA EndInv ==
  ASSUME TypeOK, EngineInv, NEW t \in Thread, End(t), row' = row, Settles(holds, holds'),
         \A h \in Handle : holds'[h] \in Outcome /\ holds[h] \notin Outcome =>
            row.handle = h /\ row.intent.status # "none"
  PROVE  EngineInv'
<1>1. th' \in [Thread -> Task] /\ th'[t] = Idle /\ \A u \in Thread \ {t} : th'[u] = th[u]
  BY EndType DEF End, TypeOK
<1>2. TaskOK(th'[t], row, holds')
  BY <1>1, IdleOK DEF TypeOK
<1>3. QED
  BY <1>1, <1>2, LocalStep

\* A request that saves a copy q in a state that is not terminal.
LEMMA AdvanceInv ==
  ASSUME TypeOK, EngineInv, NEW t \in Thread, NEW o \in AllOps, NEW q \in Row,
         Begin(t, o, "commit", q),
         q.state \notin TerminalStates,
         q.state \in {"PROPOSED", "CONTRACTED"} => row.state \in {"PROPOSED", "CONTRACTED"},
         q.version = row.version + 1, q.handle = row.handle, q.receipt = row.receipt,
         q.intent = row.intent, row.acks \subseteq q.acks
  PROVE  EngineInv'
<1>0. row \in Row /\ RowOK(row, holds) /\ row.version \in Nat
  BY DEF TypeOK, EngineInv, Row
<1>1. RowOK(q, holds)
  BY <1>0 DEF RowOK
<1>2. Keeps(q, row)
  BY DEF Keeps
<1>3. row.version <= q.version /\ row.version < q.version
  BY <1>0
<1>4. QED
  BY <1>1, <1>2, <1>3, BeginInv DEF PC

LEMMA RequestInv ==
  ASSUME TypeOK, EngineInv, NEW t \in Thread, Request(t)
  PROVE  EngineInv'
<1>0. /\ row \in Row /\ row.state \in State /\ row.deadline \in Phase \union {NoDeadline}
      /\ row.version \in Nat /\ RowOK(row, holds) /\ Keeps(row, row) /\ Like(row, row)
  BY DEF TypeOK, Row, EngineInv, Keeps, Like
<1>1. ASSUME NEW p \in Party, Contract(t, p) PROVE EngineInv'
  <2> DEFINE acked == [row EXCEPT !.acks = @ \union {p}]
             q == IF acked.acks = Party THEN Advance(acked, "CONTRACTED", Deadline("escrow"))
                  ELSE Bumped(acked)
  <2>1. /\ acked \in Row /\ acked.state = "PROPOSED" /\ row.acks \subseteq acked.acks
        /\ acked.version = row.version /\ acked.handle = row.handle
        /\ acked.receipt = row.receipt /\ acked.intent = row.intent
    BY <1>0, <1>1 DEF Row, Contract
  <2> HIDE DEF acked
  <2>2. /\ q \in Row /\ q.state \in {"PROPOSED", "CONTRACTED"} /\ q.acks = acked.acks
        /\ q.version = acked.version + 1 /\ q.handle = acked.handle
        /\ q.receipt = acked.receipt /\ q.intent = acked.intent
    <3>1. "CONTRACTED" \in State /\ Deadline("escrow") \in Phase \union {NoDeadline}
      BY DeadlineType DEF State, Phase
    <3>2. CASE acked.acks = Party
      BY <2>1, <3>1, <3>2, AdvanceType
    <3>3. CASE acked.acks # Party
      BY <2>1, <3>3, BumpedType
    <3>4. QED
      BY <3>2, <3>3
  <2>3. Begin(t, "contract", "commit", q) /\ row.state = "PROPOSED"
    BY <1>1 DEF Contract, acked
  <2> HIDE DEF q
  <2>4. QED
    BY <1>0, <2>1, <2>2, <2>3, AdvanceInv DEF AllOps, TerminalStates
<1>2. CASE Escrow(t)
  BY <1>0, <1>2, BeginInv DEF Escrow, AllOps, PC
<1>3. CASE Deliver(t)
  <2> DEFINE q == Advance(row, "DELIVERED", Deadline("verify"))
  <2>1. /\ q \in Row /\ q.state = "DELIVERED" /\ q.acks = row.acks
        /\ q.version = row.version + 1 /\ q.handle = row.handle
        /\ q.receipt = row.receipt /\ q.intent = row.intent
    BY <1>0, AdvanceType, DeadlineType DEF State, Phase
  <2>2. Begin(t, "deliver", "commit", q)
    BY <1>3 DEF Deliver
  <2> HIDE DEF q
  <2>3. QED
    BY <1>0, <2>1, <2>2, AdvanceInv DEF AllOps, TerminalStates
<1>4. CASE Verify(t)
  <2> DEFINE a == Advance(row, "VERIFIED", Deadline("confirm"))
             q == [a EXCEPT !.verdict = "passed"]
             r == [row EXCEPT !.verdict = "rejected"]
  <2>1. /\ a \in Row /\ a.state = "VERIFIED" /\ a.acks = row.acks
        /\ a.version = row.version + 1 /\ a.handle = row.handle
        /\ a.receipt = row.receipt /\ a.intent = row.intent
    BY <1>0, AdvanceType, DeadlineType DEF State, Phase
  <2>2. Begin(t, "verify", "commit", q) \/ BeginClose(t, "verify", r)
    BY <1>4 DEF Verify
  <2> HIDE DEF a
  <2>3. /\ q \in Row /\ q.state = a.state /\ q.acks = a.acks /\ q.version = a.version
        /\ q.handle = a.handle /\ q.receipt = a.receipt /\ q.intent = a.intent
       
    BY <2>1 DEF Row
  <2>4. r \in Row /\ Like(r, row)
    BY <1>0 DEF Row, Like
  <2> HIDE DEF q, r
  <2>5. CASE Begin(t, "verify", "commit", q)
    BY <1>0, <2>1, <2>3, <2>5, AdvanceInv DEF AllOps, RefundOp, TerminalStates
  <2>6. CASE BeginClose(t, "verify", r)
    BY <2>4, <2>6, BeginCloseInv DEF AllOps, RefundOp
  <2>7. QED
    BY <2>2, <2>5, <2>6
<1>5. CASE Dispute(t)
  <2> DEFINE a == Advance(row, "DISPUTED", row.deadline)
             q == [a EXCEPT !.dispute = "open"]
  <2>1. /\ a \in Row /\ a.state = "DISPUTED" /\ a.acks = row.acks
        /\ a.version = row.version + 1 /\ a.handle = row.handle
        /\ a.receipt = row.receipt /\ a.intent = row.intent
    <3>1. "DISPUTED" \in State
      BY DEF State
    <3>2. QED
      BY <1>0, <3>1, AdvanceType
  <2>2. Begin(t, "dispute", "commit", q)
    BY <1>5 DEF Dispute
  <2> HIDE DEF a
  <2>3. /\ q \in Row /\ q.state = a.state /\ q.acks = a.acks /\ q.version = a.version
        /\ q.handle = a.handle /\ q.receipt = a.receipt /\ q.intent = a.intent
       
    BY <2>1 DEF Row
  <2> HIDE DEF q
  <2>4. QED
    BY <1>0, <2>1, <2>2, <2>3, AdvanceInv DEF AllOps, TerminalStates
<1>6. ASSUME NEW o \in {"confirm", "resolve_settle", "resolve_reject", "cancel", "expire"},
             Close(t, o)
      PROVE  EngineInv'
  BY <1>0, <1>6, BeginCloseInv DEF Close, AllOps, SettleOp, RefundOp
<1>7. CASE ConfirmLocal(t)
  BY <1>0, <1>7, BeginCloseInv DEF ConfirmLocal, AllOps, SettleOp
<1>8. CASE SweepFinds(t)
  <2>1. Begin(t, "sweep", "sweeping", row) /\ "sweep" \in AllOps /\ "sweeping" \in PC
    BY <1>8 DEF SweepFinds, AllOps, RefundOp, PC
  <2>2. QED
    BY <1>0, <2>1, BeginInv
<1>9. CASE Recover(t)
  BY <1>0, <1>9, BeginInv DEF Recover, AllOps, PC
<1>10. QED
  BY <1>1, <1>2, <1>3, <1>4, <1>5, <1>6, <1>7, <1>8, <1>9
     DEF Request, IngestConfirmation, Resolve, Cancel, Expire

LEMMA GoOnInv ==
  ASSUME TypeOK, EngineInv, NEW t \in Thread, NEW p \in PC, NEW r \in Row,
         GoOn(t, p, r), row' = row, Settles(holds, holds'),
         \A h \in Handle : holds'[h] \in Outcome /\ holds[h] \notin Outcome =>
            row.handle = h /\ row.intent.status # "none",
         TaskOK(At(th[t], p, r), row, holds')
  PROVE  EngineInv'
<1>1. /\ th' \in [Thread -> Task] /\ th'[t] = At(th[t], p, r)
      /\ \A u \in Thread \ {t} : th'[u] = th[u]
  BY GoOnType
<1>2. QED
  BY <1>1, LocalStep

\* The rail's answer moves only money whose intent is in the row.
LEMMA CallInv ==
  ASSUME TypeOK, EngineInv, NEW t \in Thread, th[t].pc = "call",
         RailMoves(th[t].ex.intent)
  PROVE  /\ th[t].ex.intent \in Intent /\ Pending(th[t].ex)
         /\ Settles(holds, holds')
         /\ holds'[th[t].ex.handle] = OutcomeOf(th[t].ex.intent)
         /\ th[t].ex.intent.handle = th[t].ex.handle
         /\ \A h \in Handle : holds'[h] \in Outcome /\ holds[h] \notin Outcome =>
              row.handle = h /\ row.intent.status # "none"
<1>1. TaskOK(th[t], row, holds) /\ th[t].ex \in Row
  BY DEF EngineInv, TypeOK, Task
<1>2. Pending(th[t].ex) /\ th[t].ex.handle = row.handle /\ row.intent.status # "none"
  BY <1>1 DEF TaskOK
<1>3. th[t].ex.intent \in Intent
  BY <1>1, <1>2, PendingType
<1>4. th[t].ex.intent.handle = th[t].ex.handle
  BY <1>1, <1>2 DEF TaskOK, RowOK, Pending
<1>5. /\ holds'[th[t].ex.intent.handle] = OutcomeOf(th[t].ex.intent)
      /\ Settles(holds, holds')
      /\ \A h \in Handle \ {th[t].ex.intent.handle} : holds'[h] = holds[h]
  BY <1>3, RailMovesType DEF Settles
<1>6. QED
  BY <1>2, <1>3, <1>4, <1>5

LEMMA CommitOK ==
  ASSUME NEW k \in Task, NEW q \in Row, NEW r \in Row, NEW hs, RowOK(q, hs),
         k.pv = r.version => Keeps(q, r),
         k.pv < q.version, k.pv <= r.version
  PROVE  TaskOK(At(k, "commit", q), r, hs)
<1> DEFINE j == At(k, "commit", q)
<1>1. j.pc = "commit" /\ j.ex = q /\ j.pv = k.pv
  BY DEF At, Task
<1>2. k.pv \in Nat /\ q.version \in Nat
  BY DEF Task, Row
<1> HIDE DEF j
<1>3. TaskOK(j, r, hs)
  BY <1>1, <1>2 DEF TaskOK
<1>4. QED
  BY <1>3 DEF j

LEMMA ContinueInv ==
  ASSUME TypeOK, EngineInv, NEW t \in Thread, Continue(t)
  PROVE  EngineInv'
<1> DEFINE e == th[t].ex
<1>0. /\ th[t] \in Task /\ e \in Row /\ th[t].op \in AllOps /\ row \in Row
      /\ e.version \in Nat /\ e.state \in State /\ row.version \in Nat /\ th[t].pv \in Nat
      /\ TaskOK(th[t], row, holds) /\ RowOK(row, holds) /\ RowOK(e, holds)
  BY DEF TypeOK, Task, Row, EngineInv, TaskOK
<1>1. CASE Capture(t)
  <2>1. CASE Fresh(t)
    <3> DEFINE k == [th[t] EXCEPT !.pc = "call", !.pv = e.version]
    <3>1. /\ th' = [th EXCEPT ![t] = k] /\ row' = e /\ holds' = holds
          /\ k \in Task /\ k.pc = "call" /\ k.ex = e /\ k.pv = e.version
          /\ th[t].pc = "capture"
      BY <1>0, <1>1, <2>1, SaveType DEF Capture, TypeOK, Task
    <3> HIDE DEF k
    <3>2. /\ th' \in [Thread -> Task] /\ th'[t] = k
          /\ \A u \in Thread \ {t} : th'[u] = th[u]
      BY <3>1 DEF TypeOK
    <3>3. Pending(e)
      BY <1>0, <3>1 DEF TaskOK
    <3>4. TaskOK(k, e, holds)
      BY <1>0, <3>1, <3>3 DEF TaskOK, Keeps, Pending
    <3>5. QED
      BY <2>1, <3>1, <3>2, <3>4, SaveStep
  <2>2. CASE ~ Fresh(t)
    BY <1>1, <2>2, EndInv, SaveType DEF Capture, Settles
  <2>3. QED
    BY <2>1, <2>2
<1>2. CASE Authorize(t)
  <2>1. Settles(holds, holds') /\ \A h \in Handle : holds'[h] \in Outcome => holds[h] \in Outcome
    BY <1>2 DEF Authorize, Settles, Outcome, TypeOK
  <2>2. CASE End(t)
    BY <1>2, <2>1, <2>2, EndInv DEF Authorize
  <2>3. ASSUME NEW h \in Handle, CanTransition(e.state, "ESCROWED"),
               GoOn(t, "commit", [Advance(e, "ESCROWED", Deadline("deliver"))
                                    EXCEPT !.handle = h])
        PROVE  EngineInv'
    <3> DEFINE a == Advance(e, "ESCROWED", Deadline("deliver"))
               q == [a EXCEPT !.handle = h]
    <3>0. "ESCROWED" \in State /\ Deadline("deliver") \in Phase \union {NoDeadline}
      BY DeadlineType DEF State, Phase
    <3>1. /\ a \in Row /\ a.state = "ESCROWED" /\ a.acks = e.acks
          /\ a.version = e.version + 1 /\ a.receipt = e.receipt /\ a.intent = e.intent
      BY <1>0, <3>0, AdvanceType
    <3>2. GoOn(t, "commit", q)
      BY <2>3
    <3> HIDE DEF a
    <3>3. /\ q \in Row /\ q.state = a.state /\ q.acks = a.acks
          /\ q.version = a.version /\ q.receipt = a.receipt /\ q.intent = a.intent
      BY <3>1 DEF Row
    <3> HIDE DEF q
    <3>4. e.state = "CONTRACTED" /\ e.handle = NoHandle
      BY <1>0, <2>3, TransitionTarget DEF RowOK
    <3>5. e.intent.status = "none" /\ e.receipt = "none"
      BY <1>0, <3>4, ReceiptHandle DEF RowOK
    <3>6. RowOK(q, holds')
      BY <3>1, <3>3, <3>5 DEF RowOK, TerminalStates
    <3>7. th[t].pc = "authorize" /\ row' = row
      BY <1>2 DEF Authorize
    <3>8. th[t].pv = row.version => Keeps(q, row)
      BY <1>0, <3>1, <3>3, <3>4, <3>5, <3>7 DEF TaskOK, Keeps
    <3>9. th[t].pv < q.version /\ th[t].pv <= row.version
      BY <1>0, <3>1, <3>3, <3>7 DEF TaskOK
    <3>10. TaskOK(At(th[t], "commit", q), row, holds')
      BY <1>0, <3>3, <3>6, <3>8, <3>9, CommitOK
    <3>11. QED
      BY <2>1, <3>2, <3>3, <3>7, <3>10, GoOnInv DEF PC
  <2>4. QED
    BY <1>2, <2>2, <2>3 DEF Authorize
<1>3. CASE CallAnswered(t)
  <2>1. th[t].pc = "call" /\ RailMoves(e.intent) /\ row' = row
    BY <1>3 DEF CallAnswered
  <2>2. /\ e.intent \in Intent /\ Pending(e) /\ Settles(holds, holds')
        /\ holds'[e.handle] = OutcomeOf(e.intent) /\ e.intent.handle = e.handle
        /\ \A h \in Handle : holds'[h] \in Outcome /\ holds[h] \notin Outcome =>
              row.handle = h /\ row.intent.status # "none"
    BY <2>1, CallInv
  <2>3. OutcomeOf(e.intent) # "none" /\ e.receipt = "none"
    BY <1>0, <2>2 DEF OutcomeOf, RowOK, Pending
  <2>4. e.state \notin {"PROPOSED", "CONTRACTED"}
    BY <1>0, <2>2, ReceiptHandle DEF RowOK, Pending
  <2>5. ASSUME NEW q \in Row, q.version = e.version + 1, q.acks = e.acks,
               q.handle = e.handle, q.receipt = OutcomeOf(e.intent),
               q.intent.status = "done", q.intent.handle = e.intent.handle,
               q.state \in {e.state} \union TerminalStates, GoOn(t, "commit", q)
        PROVE  EngineInv'
    <3>1. RowOK(q, holds')
      BY <2>2, <2>3, <2>4, <2>5 DEF RowOK, Pending, TerminalStates
    <3>2. th[t].pv = row.version => Keeps(q, row)
      BY <1>0, <2>1, <2>3, <2>5 DEF TaskOK, Keeps
    <3>3. th[t].pv < q.version /\ th[t].pv <= row.version
      BY <1>0, <2>5 DEF TaskOK
    <3>4. TaskOK(At(th[t], "commit", q), row, holds')
      BY <1>0, <2>5, <3>1, <3>2, <3>3, CommitOK
    <3>5. QED
      BY <2>1, <2>2, <2>5, <3>4, GoOnInv DEF PC
  <2>6. CASE GoOn(t, "commit", Recovered(e))
    BY <1>0, <2>2, <2>5, <2>6, RecoveredType
  <2>7. CASE GoOn(t, "commit", Closing(Receipted(e), th[t].op))
    <3> DEFINE r == Receipted(e)
    <3>1. /\ r \in Row /\ r.version = e.version /\ r.acks = e.acks
          /\ r.handle = e.handle /\ r.receipt = OutcomeOf(e.intent)
          /\ r.intent.status = "done" /\ r.intent.handle = e.intent.handle
      BY <1>0, <2>2, ReceiptedType
    <3> HIDE DEF r
    <3>2. QED
      BY <1>0, <2>5, <2>7, <3>1, ClosingType, TargetType DEF r
  <2>8. CASE End(t)
    BY <2>1, <2>2, <2>8, EndInv
  <2>9. QED
    BY <1>3, <2>6, <2>7, <2>8 DEF CallAnswered
<1>4. CASE CallFailed(t)
  <2>1. th[t].pc = "call" /\ row' = row /\ (RailMoves(e.intent) \/ holds' = holds)
    BY <1>4 DEF CallFailed
  <2>2. /\ Settles(holds, holds')
        /\ \A h \in Handle : holds'[h] \in Outcome /\ holds[h] \notin Outcome =>
              row.handle = h /\ row.intent.status # "none"
    BY <2>1, CallInv DEF Settles
  <2>3. Pending(e)
    BY <1>0, <2>1 DEF TaskOK
  <2>4. CASE End(t)
    BY <2>1, <2>2, <2>4, EndInv
  <2>5. CASE GoOn(t, "commit", [Bumped(e) EXCEPT !.intent.status = "failed"])
    <3> DEFINE b == Bumped(e)
               q == [b EXCEPT !.intent.status = "failed"]
    <3>1. /\ b \in Row /\ b.state = e.state /\ b.version = e.version + 1 /\ b.acks = e.acks
          /\ b.handle = e.handle /\ b.receipt = e.receipt
          /\ b.intent = e.intent
      BY <1>0, BumpedType
    <3> HIDE DEF b
    <3>2. /\ q \in Row /\ q.state = b.state /\ q.version = b.version /\ q.acks = b.acks
          /\ q.handle = b.handle /\ q.receipt = b.receipt
          /\ q.intent.status = "failed" /\ q.intent.handle = b.intent.handle
      BY <2>3, <3>1, StatusType DEF Pending
    <3>3. GoOn(t, "commit", q)
      BY <2>5 DEF b
    <3> HIDE DEF q
    <3>4. RowOK(q, holds)
      BY <1>0, <2>3, <3>1, <3>2 DEF RowOK, Pending
    <3>5. RowOK(q, holds')
      BY <2>2, <3>2, <3>4, RowOKStable
    <3>6. th[t].pv = row.version => Keeps(q, row)
      BY <1>0, <2>1, <3>1, <3>2 DEF TaskOK, Keeps
    <3>7. th[t].pv < q.version /\ th[t].pv <= row.version
      BY <1>0, <3>1, <3>2 DEF TaskOK
    <3>8. TaskOK(At(th[t], "commit", q), row, holds')
      BY <1>0, <3>2, <3>5, <3>6, <3>7, CommitOK
    <3>9. QED
      BY <2>1, <2>2, <3>2, <3>3, <3>8, GoOnInv DEF PC
  <2>6. QED
    BY <1>4, <2>4, <2>5 DEF CallFailed
<1>5. CASE Commit(t)
  <2>1. th[t].pc = "commit" /\ holds' = holds /\ Settles(holds, holds')
    BY <1>5 DEF Commit, Settles
  <2>2. CASE Fresh(t)
    <3>1. row' = e
      BY <1>5, <2>2, SaveType DEF Commit
    <3>2. CASE GoOn(t, "record", e)
      <4>1. /\ th' \in [Thread -> Task] /\ th'[t] = At(th[t], "record", e)
            /\ \A u \in Thread \ {t} : th'[u] = th[u]
        BY <1>0, <3>2, GoOnType DEF PC
      <4>2. TaskOK(At(th[t], "record", e), e, holds)
        BY <1>0, <2>2 DEF TaskOK, At, Task, Fresh
      <4>3. QED
        BY <2>1, <2>2, <3>1, <4>1, <4>2, SaveStep
    <3>3. CASE End(t)
      <4>1. /\ th' \in [Thread -> Task] /\ th'[t] = Idle
            /\ \A u \in Thread \ {t} : th'[u] = th[u]
        BY <3>3, EndType DEF End, TypeOK
      <4>2. QED
        BY <1>0, <2>1, <2>2, <3>1, <4>1, IdleOK, SaveStep
    <3>4. QED
      BY <1>5, <2>2, <3>2, <3>3 DEF Commit
  <2>3. CASE ~ Fresh(t)
    BY <1>5, <2>1, <2>3, EndInv, SaveType DEF Commit
  <2>4. QED
    BY <2>2, <2>3
<1>6. CASE Record(t)
  <2>1. row' = row /\ holds' = holds /\ Settles(holds, holds')
    BY <1>6 DEF Record, Settles
  <2>2. CASE GoOn(t, "record_client", e)
    <3>1. TaskOK(At(th[t], "record_client", e), row, holds')
      BY <1>0, <2>1 DEF TaskOK, At, Task
    <3>2. QED
      BY <1>0, <2>1, <2>2, <3>1, GoOnInv DEF PC
  <2>3. CASE End(t)
    BY <2>1, <2>3, EndInv
  <2>4. QED
    BY <1>6, <2>2, <2>3 DEF Record
<1>7. CASE SweepExpires(t)
  <2>1. CASE BeginClose(t, "sweep", row)
    <3>1. "sweep" \in AllOps /\ Like(row, row)
      BY DEF AllOps, RefundOp, Like
    <3>2. QED
      BY <1>0, <2>1, <3>1, BeginCloseInv
  <2>2. CASE End(t) /\ row' = row /\ holds' = holds
    BY <2>2, EndInv DEF Settles
  <2>3. QED
    BY <1>7, <2>1, <2>2 DEF SweepExpires
<1>8. QED
  BY <1>1, <1>2, <1>3, <1>4, <1>5, <1>6, <1>7 DEF Continue

LEMMA NextInv ==
  ASSUME TypeOK, EngineInv, [Next]_vars
  PROVE  EngineInv'
<1>1. ASSUME NEW t \in Thread, Request(t) \/ Continue(t) PROVE EngineInv'
  BY <1>1, RequestInv, ContinueInv
<1>2. CASE StartWithNothingToRecover \/ DeadlinePasses \/ UNCHANGED vars
  BY <1>2 DEF StartWithNothingToRecover, DeadlinePasses, vars, EngineInv, MoneyIsJournalled, Moved
<1>3. CASE Crash
  <2>1. row' = row /\ holds' = holds /\ th' = [t \in Thread |-> Idle]
    BY <1>3 DEF Crash
  <2>2. \A t \in Thread : TaskOK(th'[t], row, holds)
    BY <2>1, IdleOK DEF TypeOK
  <2>3. QED
    BY <2>1, <2>2 DEF EngineInv, MoneyIsJournalled, Moved
<1>4. QED
  BY <1>1, <1>2, <1>3 DEF Next
-----------------------------------------------------------------------------
(* The theorems.                                                           *)

(* Every value that the engine keeps has its type, in every reachable      *)
(* state; and the inductive invariant holds: the row agrees with the rail, *)
(* every copy that a save would accept keeps what the row holds, and a     *)
(* call of the rail is journalled in the database.                         *)
THEOREM EngineIsSound == Spec => [](TypeOK /\ EngineInv)
<1>1. TypeOK /\ EngineInv /\ [Next]_vars => (TypeOK /\ EngineInv)'
  BY NextType, NextInv
<1>2. QED
  BY <1>1, InitInv, PTL DEF Spec

(* The type invariant alone.                                               *)
THEOREM TypeIsCorrect == Spec => []TypeOK
  BY EngineIsSound, PTL

(* exchange.py:528-549, capture before execute: whatever threads race and  *)
(* wherever the process dies, money that the rail moved is the money of    *)
(* the row's escrow, and the row knows the receipt or an intent to replay. *)
THEOREM MoneyIsAlwaysJournalled == Spec => []MoneyIsJournalled
<1>1. EngineInv => MoneyIsJournalled
  BY DEF EngineInv
<1>2. QED
  BY <1>1, EngineIsSound, PTL

(* A receipt in the database is what the rail did, and its intent is done. *)
THEOREM ReceiptsAreTruthful == Spec => []ReceiptIsTruthful
<1>1. TypeOK /\ EngineInv => ReceiptIsTruthful
  <2> SUFFICES ASSUME TypeOK, EngineInv, row.receipt # "none"
               PROVE  /\ row.handle # NoHandle
                      /\ holds[row.handle] = row.receipt
                      /\ row.intent.status = "done"
    BY DEF ReceiptIsTruthful
  <2>1. row \in Row /\ RowOK(row, holds) /\ row.intent.status = "done"
    BY DEF TypeOK, EngineInv, RowOK
  <2>2. QED
    BY <2>1, ReceiptHandle DEF RowOK
<1>2. QED
  BY <1>1, EngineIsSound, PTL

(* An exchange in a terminal state has no pending intent, and its escrow,  *)
(* if it had one, is accounted for by a receipt.                           *)
THEOREM ClosedExchangesAreAccounted == Spec => []ClosedIsAccounted
<1>1. EngineInv => ClosedIsAccounted
  BY DEF EngineInv, RowOK, ClosedIsAccounted
<1>2. QED
  BY <1>1, EngineIsSound, PTL

(* The optimistic lock of SQLiteStore.save lets no thread overwrite what   *)
(* another one saved in the meantime.                                      *)
THEOREM NothingIsEverLost == Spec => NothingIsLost
<1> DEFINE A == /\ row.acks \subseteq row'.acks
                /\ row.handle # NoHandle => row'.handle = row.handle
                /\ row.receipt # "none" => row'.receipt = row.receipt
<1>1. ASSUME TypeOK, EngineInv, Next PROVE A
  <2>1. CASE row' = row
    BY <2>1
  <2>2. ASSUME NEW t \in Thread, Capture(t) \/ Commit(t), row' # row PROVE A
    <3>1. row' = th[t].ex /\ Fresh(t) /\ th[t].pc \in {"capture", "commit"}
      BY <1>1, <2>2, SaveType DEF Capture, Commit
    <3>2. Keeps(th[t].ex, row)
      BY <1>1, <3>1 DEF EngineInv, TaskOK, Fresh
    <3>3. QED
      BY <3>1, <3>2 DEF Keeps
  <2>3. ASSUME NEW t \in Thread, Request(t) PROVE row' = row
    BY <2>3 DEF Request, Contract, Escrow, Deliver, Verify, IngestConfirmation, Resolve,
                Cancel, Expire, Dispute, Close, ConfirmLocal,
                SweepFinds, Recover, BeginClose, Begin
  <2>4. ASSUME NEW t \in Thread, Continue(t) PROVE row' = row \/ Capture(t) \/ Commit(t)
    BY <2>4 DEF Continue, Authorize, CallAnswered, CallFailed, Record, SweepExpires,
                BeginClose, Begin
  <2>5. StartWithNothingToRecover \/ DeadlinePasses \/ Crash => row' = row
    BY DEF StartWithNothingToRecover, DeadlinePasses, Crash
  <2>6. QED
    BY <1>1, <2>1, <2>2, <2>3, <2>4, <2>5 DEF Next
<1>2. TypeOK /\ EngineInv /\ [Next]_vars => [A]_vars
  BY <1>1
<1> HIDE DEF A
<1>3. Spec => [][A]_vars
  BY <1>2, EngineIsSound, PTL DEF Spec
<1>4. QED
  BY <1>3 DEF NothingIsLost, A
=============================================================================
