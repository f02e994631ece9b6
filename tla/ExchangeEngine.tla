--------------------------- MODULE ExchangeEngine ---------------------------
(***************************************************************************)
(* One exchange of a node: its row in the SQLite store, the request        *)
(* threads that work on private copies of the row and write them back      *)
(* under an optimistic lock, the payment rail they call in between, the    *)
(* reputation ledger they append to, and crashes of the process.           *)
(*                                                                         *)
(* src/novapanda/exchange.py, store.py (SQLiteStore), settlement.py,       *)
(* http_gateway_base.py and the endpoints of node/app.py that call them.   *)
(* A thread runs one operation at a time.  Its steps are the points where  *)
(* other threads can see or change something: the read of the row, the     *)
(* save of the captured intent, the call of the rail, the final save, each *)
(* ledger append.  A request that the code rejects before it changed       *)
(* anything is no step.                                                    *)
(***************************************************************************)
EXTENDS StateMachine, Naturals, FiniteSets

CONSTANTS Thread,      \* the server's worker threads
          Handle,      \* escrow handles the rail can mint
          Vdc,         \* the delivery documents (VDCs) that providers can build
          Ops,         \* the operations that callers use
          Timed,       \* the phases that have a timeout
          MaxAuth,     \* authorize requests that one escrow call may send (max_retries + 1)
          MaxVersion,  \* bound: at this version of the row no operation starts and
                       \* no failed recovery is noted any more
          NoHandle, NoVdc

Party == {"client", "provider"}
Phase == {"contract", "escrow", "deliver", "verify", "confirm"}
Outcome == {"settled", "refunded"}

\* The operations that move money, and the state each of them leads to.
SettleOp == {"confirm", "confirm_local", "resolve_settle"}
RefundOp == {"verify", "resolve_reject", "cancel", "expire", "sweep"}
AllOps == SettleOp \union RefundOp \union
          {"contract", "escrow", "deliver", "dispute", "recover"}

ASSUME EngineAssumption ==
  /\ NoHandle \notin Handle
  /\ NoVdc \notin Vdc
  /\ Ops \subseteq AllOps
  /\ Timed \subseteq Phase
  /\ MaxAuth \in Nat \ {0}
  /\ MaxVersion \in Nat

VARIABLES row,     \* the row of the exchange, in the database
          vdc,     \* the table of the VDCs, and the one that the row refers to
          holds,   \* the rail's record of every hold
          th,      \* what each thread is doing
          passed,  \* the phases whose deadline has passed
          ledger,  \* how often each reputation entry was appended
          node     \* "starting" until the recovery of the start-up is through

vars == <<row, vdc, holds, th, passed, ledger, node>>

Intent == [action : {"settle", "refund"}, handle : Handle,
           status : {"pending", "failed", "done"}]
NoIntent == [action |-> "none", handle |-> NoHandle, status |-> "none"]
NoDeadline == "none"

\* "failed" is a pending intent that carries the last_error of a recovery.
Row == [state    : State,
        version  : Nat,
        acks     : SUBSET Party,
        handle   : Handle \union {NoHandle},
        receipt  : Outcome \union {"none"},
        intent   : Intent \union {NoIntent},
        verdict  : {"none", "passed", "rejected"},
        dispute  : {"none", "open", "settle", "reject"},
        deadline : Phase \union {NoDeadline}]

Entry == {"provider_settled", "client_settled", "provider_rejected"}

\* A VDC and who has signed it; only the provider signs first.
Doc == [id : Vdc \union {NoVdc}, by : {"none", "provider", "both"}]
VdcTable == [ref : Vdc \union {NoVdc}, sigs : [Vdc -> {"none", "provider", "both"}]]
NoDoc == [id |-> NoVdc, by |-> "none"]

\* A thread: the step it is at, the operation it runs, its private copy of the
\* row and of its VDC, and the version under which it read or last saved them (_pv).
Task == [pc : {"idle", "capture", "authorize", "call", "commit",
               "sweeping", "record", "record_client"},
         op : AllOps,
         ex : Row,
         vdc : Doc,
         pv : Nat]

TypeOK == /\ row \in Row
          /\ vdc \in VdcTable
          /\ holds \in [Handle -> {"none", "held"} \union Outcome]
          /\ th \in [Thread -> Task]
          /\ passed \in SUBSET Phase
          /\ ledger \in [Entry -> Nat]
          /\ node \in {"starting", "serving"}

Deadline(phase) == IF phase \in Timed THEN phase ELSE NoDeadline

\* The exchange as propose leaves it.
Proposed == [state |-> "PROPOSED", version |-> 0, acks |-> {}, handle |-> NoHandle,
             receipt |-> "none", intent |-> NoIntent,
             verdict |-> "none", dispute |-> "none",
             deadline |-> Deadline("contract")]

Idle == [pc |-> "idle", op |-> "recover", ex |-> Proposed, vdc |-> NoDoc, pv |-> 0]

Init == /\ row = Proposed
        /\ vdc = [ref |-> NoVdc, sigs |-> [v \in Vdc |-> "none"]]
        /\ holds = [h \in Handle |-> "none"]
        /\ th = [t \in Thread |-> Idle]
        /\ passed = {}
        /\ ledger = [e \in Entry |-> 0]
        /\ node = "serving"
-----------------------------------------------------------------------------
(* What the operations do to their copy of the row.                        *)

Bumped(r) == [r EXCEPT !.version = @ + 1]

\* _transition and _set_deadline
Advance(r, s, deadline) == [Bumped(r) EXCEPT !.state = s, !.deadline = deadline]

Target(o) == CASE o \in SettleOp                   -> "SETTLED"
               [] o \in {"verify", "resolve_reject"} -> "REJECTED"
               [] o = "cancel"                      -> "CANCELLED"
               [] OTHER                             -> "EXPIRED_REFUNDED"

Action(o) == IF o \in SettleOp THEN "settle" ELSE "refund"

Pending(r) == r.intent.status \in {"pending", "failed"}

\* Mutants: an exchange without escrow has something to move too; only the late
\* states are looked at.
MustMove_NoEscrow(r) == r.receipt = "none"
MustMove_LateStates(r) ==
  r.handle # NoHandle /\ r.receipt = "none" /\ r.state \in {"VERIFIED", "DISPUTED"}

\* _settle_with_capture returns at once when there is nothing to move any more.
MustMove(r) == r.handle # NoHandle /\ r.receipt = "none"

\* _capture_intent
Captured(r, o) ==
  [Bumped(r) EXCEPT
     !.intent = [action |-> Action(o), handle |-> r.handle, status |-> "pending"]]

Closing(r, o) ==
  [Advance(r, Target(o), NoDeadline) EXCEPT
     !.dispute = CASE o = "resolve_settle" -> "settle"
                   [] o = "resolve_reject" -> "reject"
                   [] OTHER                -> @]

\* Mutant: the intent is not marked as done.
Receipted_Open(r) ==
  [r EXCEPT !.receipt = IF r.intent.action = "settle" THEN "settled" ELSE "refunded"]

\* The receipt of the rail, in memory only until the final save.
Receipted(r) ==
  [r EXCEPT !.receipt = IF r.intent.action = "settle" THEN "settled" ELSE "refunded",
            !.intent.status = "done"]

\* Mutant: the transition is not checked against the table.
Recovered_Unchecked(r) ==
  LET target == IF r.intent.action = "settle" THEN "SETTLED" ELSE "EXPIRED_REFUNDED"
  IN  Advance(Receipted(r), target, NoDeadline)

\* What recover makes of a row whose pending intent the rail has answered.
Recovered(r) ==
  LET target == IF r.intent.action = "settle" THEN "SETTLED" ELSE "EXPIRED_REFUNDED"
  IN  IF CanTransition(r.state, target)
      THEN Advance(Receipted(r), target, NoDeadline)
      ELSE Bumped(Receipted(r))

Entries(o) == CASE o \in {"confirm", "confirm_local", "resolve_settle"}
                     -> {"provider_settled", "client_settled"}
                [] o \in {"verify", "resolve_reject"} -> {"provider_rejected"}
                [] OTHER -> {}
-----------------------------------------------------------------------------
(* The first step of each operation: read the row and check it.            *)

\* The VDC that a read of the exchange comes with: the one the row refers to, or
\* one that _hydrate_vdc finds in the table for a row that refers to none.
Stored == {v \in Vdc : vdc.sigs[v] # "none"}
Loaded == IF vdc.ref = NoVdc /\ Stored = {}
          THEN {NoDoc}
          ELSE {[id |-> v, by |-> vdc.sigs[v]] :
                  v \in IF vdc.ref = NoVdc THEN Stored ELSE {vdc.ref}}

\* The VDC that operation o works with: the one it read, to which confirm adds the
\* client's signature, or one that a delivery brings, whose id may have been used before:
\* nothing checks it, and a delivery may be sent again.
Docs(o) == CASE o = "deliver" -> {[id |-> v, by |-> "provider"] : v \in Vdc}
             [] o \in {"confirm", "confirm_local"} ->
                  {[d EXCEPT !.by = "both"] : d \in Loaded \ {NoDoc}}
             [] OTHER -> Loaded

\* Thread t has read the row for operation o and goes on at step with its copy r.
Begin(t, o, step, r) ==
  /\ \E d \in Docs(o) :
       th' = [th EXCEPT ![t] =
                [pc |-> step, op |-> o, ex |-> r, vdc |-> d, pv |-> row.version]]
  /\ UNCHANGED <<row, vdc, holds, passed, ledger, node>>

Free(t, o) == /\ th[t].pc = "idle"
              /\ node = "serving"
              /\ o \in Ops
              /\ row.version < MaxVersion

\* An operation that closes the exchange, after its own checks on r.
BeginClose(t, o, r) ==
  IF MustMove(r)
  THEN Begin(t, o, "capture", Captured(r, o))
  ELSE /\ CanTransition(r.state, Target(o))
       /\ Begin(t, o, "commit", Closing(r, o))

Contract(t, party) ==
  LET acked == [row EXCEPT !.acks = @ \union {party}]
  IN  /\ Free(t, "contract")
      /\ row.state = "PROPOSED"
      /\ party \notin row.acks
      /\ Begin(t, "contract", "commit",
               IF acked.acks = Party
               THEN Advance(acked, "CONTRACTED", Deadline("escrow"))
               ELSE Bumped(acked))

\* escrow calls the rail before anything looks at the state of the exchange.
Escrow(t) ==
  /\ Free(t, "escrow")
  /\ \E h \in Handle : holds[h] = "none"
  /\ Begin(t, "escrow", "authorize", row)

Deliver(t) ==
  /\ Free(t, "deliver")
  /\ CanTransition(row.state, "DELIVERED")
  /\ Begin(t, "deliver", "commit", Advance(row, "DELIVERED", Deadline("verify")))

Verify(t) ==
  /\ Free(t, "verify")
  /\ CanTransition(row.state, "VERIFIED")
  /\ \/ Begin(t, "verify", "commit",
              [Advance(row, "VERIFIED", Deadline("confirm")) EXCEPT !.verdict = "passed"])
     \/ BeginClose(t, "verify", [row EXCEPT !.verdict = "rejected"])

Dispute(t) ==
  /\ Free(t, "dispute")
  /\ CanTransition(row.state, "DISPUTED")
  /\ Begin(t, "dispute", "commit",
           [Advance(row, "DISPUTED", row.deadline) EXCEPT !.dispute = "open"])

\* An operation that looks at the lifecycle table first.
Close(t, o) ==
  /\ Free(t, o)
  /\ CanTransition(row.state, Target(o))
  /\ BeginClose(t, o, row)

IngestConfirmation(t) == Close(t, "confirm")

Resolve(t) == \E o \in {"resolve_settle", "resolve_reject"} : Close(t, o)

Cancel(t) == Close(t, "cancel")

Expire(t) == Close(t, "expire")

\* confirm, in process: it settles first and meets the lifecycle table afterwards.
ConfirmLocal(t) ==
  /\ Free(t, "confirm_local")
  /\ BeginClose(t, "confirm_local", row)

\* sweep finds the exchange overdue in its list and expires it in a step of its own.
SweepFinds(t) ==
  /\ Free(t, "sweep")
  /\ row.deadline \in passed
  /\ CanTransition(row.state, "EXPIRED_REFUNDED")
  /\ Begin(t, "sweep", "sweeping", row)

\* The start-up runs recover alone; /admin/recover runs it next to other requests.
Recover(t) ==
  /\ th[t].pc = "idle"
  /\ IF node = "serving" THEN "recover" \in Ops /\ row.version < MaxVersion
                         ELSE \A u \in Thread : th[u].pc = "idle"
  /\ Pending(row)
  /\ Begin(t, "recover", "call", row)

StartWithNothingToRecover ==
  /\ node = "starting"
  /\ ~ Pending(row)
  /\ node' = "serving"
  /\ UNCHANGED <<row, vdc, holds, th, passed, ledger>>
-----------------------------------------------------------------------------
(* The further steps of a running operation.                               *)

\* The request ends, with its result or with an exception.
End(t) == th' = [th EXCEPT ![t] = Idle]

GoOn(t, step, r) == th' = [th EXCEPT ![t].pc = step, ![t].ex = r]

\* expire reads the row again
SweepExpires(t) ==
  /\ th[t].pc = "sweeping"
  /\ IF CanTransition(row.state, "EXPIRED_REFUNDED")
     THEN BeginClose(t, "sweep", row)
     ELSE End(t) /\ UNCHANGED <<row, vdc, holds, passed, ledger, node>>

\* Mutant: the row is written whatever version it has.
Fresh_Unlocked(t) == TRUE

\* SQLiteStore.save succeeds when the row still has the version the thread knows.
Fresh(t) == row.version = th[t].pv

\* Mutant: only a VDC with both signatures is written.
Upserted_Signed(d) == IF d.by # "both" THEN vdc ELSE [vdc EXCEPT !.sigs[d.id] = d.by]

\* save writes the VDC first, in a transaction of its own.
Upserted(d) == IF d.id = NoVdc THEN vdc ELSE [vdc EXCEPT !.sigs[d.id] = d.by]

Save(t) ==
  LET written == Upserted(th[t].vdc)
  IN  IF Fresh(t) THEN /\ row' = th[t].ex
                       /\ vdc' = [written EXCEPT !.ref = th[t].vdc.id]
                  ELSE /\ vdc' = written
                       /\ UNCHANGED row

Capture(t) ==
  /\ th[t].pc = "capture"
  /\ Save(t)
  /\ IF Fresh(t)
     THEN th' = [th EXCEPT ![t].pc = "call", ![t].pv = th[t].ex.version]
     ELSE End(t)
  /\ UNCHANGED <<holds, passed, ledger, node>>

\* authorize is sent again when its answer is lost, and each request that
\* arrives makes a hold.  The caller learns of one of them, or of none.
Authorize(t) ==
  /\ th[t].pc = "authorize"
  /\ \E made \in SUBSET {h \in Handle : holds[h] = "none"} :
       /\ Cardinality(made) <= MaxAuth
       /\ holds' = [h \in Handle |-> IF h \in made THEN "held" ELSE holds[h]]
       /\ \/ End(t)
          \/ /\ CanTransition(th[t].ex.state, "ESCROWED")
             /\ \E h \in made :
                  GoOn(t, "commit", [Advance(th[t].ex, "ESCROWED", Deadline("deliver"))
                                       EXCEPT !.handle = h])
  /\ UNCHANGED <<row, vdc, passed, ledger, node>>

\* The rail moves a hold once; asked for the same move again, it repeats its answer.
RailMoves(intent) ==
  LET outcome == IF intent.action = "settle" THEN "settled" ELSE "refunded"
  IN  /\ holds[intent.handle] \in {"held", outcome}
      /\ holds' = [holds EXCEPT ![intent.handle] = outcome]

\* settle or refund was answered.
CallAnswered(t) ==
  LET r == th[t].ex
      o == th[t].op
  IN  /\ th[t].pc = "call"
      /\ RailMoves(r.intent)
      /\ \/ o = "recover" /\ GoOn(t, "commit", Recovered(r))
         \/ /\ o # "recover"
            /\ IF CanTransition(r.state, Target(o))
               THEN GoOn(t, "commit", Closing(Receipted(r), o))
               ELSE End(t)
      /\ UNCHANGED <<row, vdc, passed, ledger, node>>

\* The rail refused, could not be reached, or its answer was lost after the
\* money had moved: a SettlementError.  recover notes it in the row; a request
\* gives up, and so does recover on an exception of another kind.
CallFailed(t) ==
  /\ th[t].pc = "call"
  /\ RailMoves(th[t].ex.intent) \/ UNCHANGED holds
  /\ \/ End(t)
     \/ /\ th[t].op = "recover"
        /\ th[t].ex.version < MaxVersion
        /\ GoOn(t, "commit", [Bumped(th[t].ex) EXCEPT !.intent.status = "failed"])
  /\ UNCHANGED <<row, vdc, passed, ledger, node>>

\* The final save.  A start-up whose recovery was saved begins to serve.
Commit(t) ==
  /\ th[t].pc = "commit"
  /\ Save(t)
  /\ IF Fresh(t)
     THEN /\ IF Entries(th[t].op) # {} /\ th[t].ex.state = Target(th[t].op)
             THEN GoOn(t, "record", th[t].ex) ELSE End(t)
          /\ node' = "serving"
     ELSE End(t) /\ UNCHANGED node
  /\ UNCHANGED <<holds, passed, ledger>>

\* record_settlement appends an entry for the provider and one for the client,
\* record_outcome one for the provider.
Record(t) ==
  /\ \/ /\ th[t].pc = "record"
        /\ \E e \in Entries(th[t].op) \ {"client_settled"} :
             ledger' = [ledger EXCEPT ![e] = @ + 1]
        /\ IF th[t].op \in SettleOp THEN GoOn(t, "record_client", th[t].ex) ELSE End(t)
     \/ /\ th[t].pc = "record_client"
        /\ ledger' = [ledger EXCEPT !["client_settled"] = @ + 1]
        /\ End(t)
  /\ UNCHANGED <<row, vdc, holds, passed, node>>
-----------------------------------------------------------------------------
DeadlinePasses ==
  /\ row.deadline # NoDeadline
  /\ passed' = passed \union {row.deadline}
  /\ UNCHANGED <<row, vdc, holds, th, ledger, node>>

\* The process dies, between the two transactions of a save or elsewhere; the
\* database, the ledger and the rail keep what they have.
Crash ==
  /\ th' = [t \in Thread |-> Idle]
  /\ node' = "starting"
  /\ \/ \E t \in Thread : th[t].pc \in {"capture", "commit"} /\ vdc' = Upserted(th[t].vdc)
     \/ UNCHANGED vdc
  /\ UNCHANGED <<row, holds, passed, ledger>>

Request(t) ==
  \/ \E p \in Party : Contract(t, p)
  \/ Escrow(t) \/ Deliver(t) \/ Verify(t) \/ IngestConfirmation(t) \/ ConfirmLocal(t)
  \/ Dispute(t) \/ Resolve(t) \/ Cancel(t) \/ Expire(t) \/ SweepFinds(t) \/ Recover(t)

Continue(t) ==
  \/ Capture(t) \/ Authorize(t) \/ CallAnswered(t) \/ CallFailed(t)
  \/ Commit(t) \/ Record(t) \/ SweepExpires(t)

Next == \/ \E t \in Thread : Request(t) \/ Continue(t)
        \/ StartWithNothingToRecover \/ DeadlinePasses \/ Crash

Spec == Init /\ [][Next]_vars
=============================================================================
