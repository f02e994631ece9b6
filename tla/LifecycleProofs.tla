-------------------------- MODULE LifecycleProofs ---------------------------
(***************************************************************************)
(* Proofs that the engine keeps the promise of Lifecycle, never loses a    *)
(* delivery and never claims in the ledger what did not happen, on top of  *)
(* the invariant of ExchangeProofs.                                        *)
(***************************************************************************)
EXTENDS ExchangeProofs

Backed == {"ESCROWED"} \union Delivered
-----------------------------------------------------------------------------
(* The lifecycle table.                                                    *)

LEMMA DeliveredStays ==
  ASSUME NEW s \in State, NEW d \in Transitions[s], d \in Delivered
  PROVE  s \in Delivered \/ (s = "ESCROWED" /\ d = "DELIVERED")
  BY DEF Transitions, State, Delivered

LEMMA BackedStays ==
  ASSUME NEW s \in State, NEW d \in Transitions[s], d \in Backed
  PROVE  s \in Backed \/ (s = "CONTRACTED" /\ d = "ESCROWED")
  BY DEF Transitions, State, Backed, Delivered

LEMMA TerminalStays ==
  ASSUME NEW s \in TerminalStates
  PROVE  Transitions[s] = {}
  BY DEF Transitions, State, TerminalStates

-----------------------------------------------------------------------------
(* Documents.                                                              *)

LEMMA LoadedSigned ==
  ASSUME TypeOK, DeliveryIsStored, NEW d \in Loaded
  PROVE  /\ d \in Doc
         /\ d.id # NoVdc => d.by # "none"
         /\ vdc.ref # NoVdc => d.id # NoVdc
<1>1. CASE d = NoDoc /\ vdc.ref = NoVdc
  BY <1>1 DEF NoDoc, Doc
<1>2. ASSUME NEW v \in Vdc, vdc.sigs[v] # "none", d = [id |-> v, by |-> vdc.sigs[v]]
      PROVE  /\ d \in Doc /\ d.id # NoVdc /\ d.by # "none"
  BY <1>2, EngineAssumption DEF Doc, TypeOK, VdcTable
<1>3. QED
  BY <1>1, <1>2 DEF Loaded, Stored, DeliveryIsStored

\* The VDC that an operation works with is signed, and there is one if the row has one.
LEMMA DocsSigned ==
  ASSUME TypeOK, DeliveryIsStored, NEW o \in AllOps, NEW d \in Docs(o)
  PROVE  /\ d.id # NoVdc => d.by # "none"
         /\ vdc.ref # NoVdc \/ o = "deliver" => d.id # NoVdc
<1>1. CASE o = "deliver"
  <2>1. PICK v \in Vdc : d = [id |-> v, by |-> "provider"]
    BY <1>1 DEF Docs
  <2>2. QED
    BY <2>1, EngineAssumption
<1>2. CASE o \in {"confirm", "confirm_local"}
  <2>1. PICK c \in Loaded : d = [c EXCEPT !.by = "both"]
    BY <1>2 DEF Docs
  <2>2. c \in Doc /\ (vdc.ref # NoVdc => c.id # NoVdc)
    BY LoadedSigned
  <2>3. QED
    BY <1>2, <2>1, <2>2 DEF Doc
<1>3. CASE o \notin {"deliver", "confirm", "confirm_local"}
  BY <1>3, LoadedSigned DEF Docs
<1>4. QED
  BY <1>1, <1>2, <1>3

\* Documents that were stored stay so.
KeepsStored == \A v \in Vdc : vdc.sigs[v] # "none" => vdc'.sigs[v] # "none"

LEMMA UpsertedKeeps ==
  ASSUME TypeOK, NEW d \in Doc, d.id # NoVdc => d.by # "none"
  PROVE  /\ Upserted(d).ref = vdc.ref
         /\ \A v \in Vdc : vdc.sigs[v] # "none" => Upserted(d).sigs[v] # "none"
         /\ d.id # NoVdc => d.id \in Vdc /\ Upserted(d).sigs[d.id] # "none"
  BY DEF TypeOK, Upserted, Doc, VdcTable

LEMMA SaveKeeps ==
  ASSUME TypeOK, PathInv, NEW t \in Thread, Save(t)
  PROVE  /\ KeepsStored
         /\ vdc'.ref = IF Fresh(t) THEN th[t].vdc.id ELSE vdc.ref
         /\ th[t].vdc.id # NoVdc => th[t].vdc.id \in Vdc /\ vdc'.sigs[th[t].vdc.id] # "none"
<1> DEFINE d == th[t].vdc
           w == Upserted(d)
<1>1. d \in Doc /\ (d.id # NoVdc => d.by # "none")
  BY DEF TypeOK, Task, PathInv, PathOK
<1>2. w \in VdcTable
  BY <1>1, UpsertedType
<1>3. /\ w.ref = vdc.ref
      /\ \A v \in Vdc : vdc.sigs[v] # "none" => w.sigs[v] # "none"
      /\ d.id # NoVdc => d.id \in Vdc /\ w.sigs[d.id] # "none"
  BY <1>1, UpsertedKeeps
<1>4. vdc' = IF Fresh(t) THEN [w EXCEPT !.ref = d.id] ELSE w
  BY DEF Save
<1> HIDE DEF w, d
<1>5. /\ vdc'.sigs = w.sigs
      /\ vdc'.ref = IF Fresh(t) THEN d.id ELSE w.ref
  BY <1>2, <1>4 DEF VdcTable
<1>6. QED
  BY <1>3, <1>5 DEF KeepsStored, d

-----------------------------------------------------------------------------
(* PathInv is kept by a step that changes one thread.                      *)

\* Holds that the row does not refer to are not moved by the rail.
OthersHeld == \A h \in Handle : holds[h] = "held" /\ h # row.handle => holds'[h] = "held"

LEMMA PathStable ==
  ASSUME TypeOK, EngineInv, NEW k \in Task, PathOK(k, row, holds, vdc.ref), OthersHeld
  PROVE  PathOK(k, row, holds', vdc.ref)
<1>1. row.state = "CONTRACTED" => row.handle \notin Handle
  BY EngineAssumption DEF EngineInv, RowOK
<1>2. Follows(k.ex, row, holds) => Follows(k.ex, row, holds')
  BY <1>1 DEF Follows, OthersHeld
<1>3. QED
  BY <1>2 DEF PathOK

LEMMA PathLater ==
  ASSUME NEW k \in Task, NEW r \in Row, NEW s \in Row, NEW hs, NEW hs2, NEW ref, NEW ref2,
         PathOK(k, r, hs, ref), k.pv <= r.version, r.version < s.version
  PROVE  PathOK(k, s, hs2, ref2)
<1>1. k.pv # s.version
  BY DEF Task, Row
<1>2. QED
  BY <1>1 DEF PathOK

LEMMA PathLocal ==
  ASSUME TypeOK, EngineInv, PathInv, NEW t \in Thread, row' = row, vdc'.ref = vdc.ref,
         KeepsStored, OthersHeld,
         \A u \in Thread \ {t} : th'[u] = th[u],
         PathOK(th'[t], row, holds', vdc.ref)
  PROVE  PathInv'
<1>1. ASSUME NEW u \in Thread PROVE PathOK(th'[u], row', holds', vdc'.ref)
  <2>1. th[u] \in Task /\ PathOK(th[u], row, holds, vdc.ref)
    BY DEF TypeOK, PathInv
  <2>2. QED
    BY <2>1, PathStable
<1>2. DeliveryIsStored'
  BY DEF PathInv, DeliveryIsStored, Stored, KeepsStored
<1>3. QED
  BY <1>1, <1>2 DEF PathInv

LEMMA PathSaved ==
  ASSUME TypeOK, EngineInv, PathInv, NEW t \in Thread, Save(t), Fresh(t),
         th[t].pc \in {"capture", "commit"},
         \A u \in Thread \ {t} : th'[u] = th[u],
         PathOK(th'[t], th[t].ex, holds', th[t].vdc.id)
  PROVE  PathInv'
<1>1. /\ row' = th[t].ex /\ vdc'.ref = th[t].vdc.id
      /\ row \in Row /\ th[t].ex \in Row /\ th[t] \in Task
  BY SaveType, SaveKeeps DEF TypeOK, Task
<1>2. /\ PathOK(th[t], row, holds, vdc.ref) /\ TaskOK(th[t], row, holds)
      /\ th[t].pv = row.version
  BY DEF PathInv, EngineInv, Fresh
<1>3. row.version < th[t].ex.version
  BY <1>2 DEF TaskOK
<1>4. ASSUME NEW u \in Thread PROVE PathOK(th'[u], row', holds', vdc'.ref)
  <2>1. CASE u = t
    BY <1>1, <2>1
  <2>2. CASE u # t
    <3>1. th'[u] = th[u] /\ th[u] \in Task /\ PathOK(th[u], row, holds, vdc.ref)
      BY <2>2 DEF TypeOK, PathInv
    <3>2. th[u].pv <= row.version
      BY DEF EngineInv, TaskOK
    <3>3. QED
      BY <1>1, <1>3, <3>1, <3>2, PathLater
  <2>3. QED
    BY <2>1, <2>2
<1>5. th[t].ex.state \in Delivered => th[t].vdc.id # NoVdc
  <2>1. CASE th[t].pc = "commit"
    BY <1>2, <2>1 DEF PathOK
  <2>2. CASE th[t].pc = "capture"
    BY <1>2, <2>2 DEF PathOK, PathInv, DeliveryIsStored, Delivered
  <2>3. QED
    BY <2>1, <2>2
<1>6. DeliveryIsStored'
  BY <1>1, <1>5, SaveKeeps DEF DeliveryIsStored, Stored, Delivered
<1>7. row'.state \in Backed => row'.handle # NoHandle
  BY <1>1, <1>2 DEF PathOK, Backed
<1>8. QED
  BY <1>4, <1>6, <1>7 DEF PathInv, Backed

LEMMA IdlePath ==
  ASSUME NEW r, NEW hs, NEW ref
  PROVE  PathOK(Idle, r, hs, ref)
  BY DEF PathOK, Idle, Proposed, Delivered, NoDoc

LEMMA InitPath == Init => PathInv
<1> SUFFICES ASSUME Init PROVE PathInv
  OBVIOUS
<1>1. \A t \in Thread : PathOK(th[t], row, holds, vdc.ref)
  BY IdlePath DEF Init
<1>2. QED
  BY <1>1 DEF Init, PathInv, Proposed, Delivered, DeliveryIsStored

-----------------------------------------------------------------------------
(* The actions of a thread keep PathInv.                                   *)

LEMMA BeginPath ==
  ASSUME TypeOK, EngineInv, PathInv, NEW t \in Thread, NEW o \in AllOps, NEW p \in PC,
         NEW r \in Row, Begin(t, o, p, r),
         r.state \in Backed => r.handle # NoHandle,
         p \in {"authorize", "capture", "call"} => r.state = row.state /\ r.handle = row.handle,
         p \in {"capture", "call", "commit"} => row.state \notin TerminalStates,
         p = "commit" => /\ Follows(r, row, holds)
                         /\ r.state \in Delivered => row.state \in Delivered \/ o = "deliver"
  PROVE  PathInv'
<1>1. PICK d \in Docs(o) :
        th' = [th EXCEPT ![t] = [pc |-> p, op |-> o, ex |-> r, vdc |-> d, pv |-> row.version]]
  BY DEF Begin
<1> DEFINE k == [pc |-> p, op |-> o, ex |-> r, vdc |-> d, pv |-> row.version]
<1>2. /\ th'[t] = k /\ \A u \in Thread \ {t} : th'[u] = th[u]
      /\ row' = row /\ vdc' = vdc /\ holds' = holds
  BY <1>1 DEF Begin, TypeOK
<1>3. /\ d.id # NoVdc => d.by # "none"
      /\ vdc.ref # NoVdc \/ o = "deliver" => d.id # NoVdc
  BY DocsSigned DEF PathInv
<1>4. row.state \in Delivered => vdc.ref # NoVdc
  BY DEF PathInv, DeliveryIsStored, Delivered
<1>5. PathOK(k, row, holds, vdc.ref)
  BY <1>3, <1>4 DEF PathOK, Backed
<1>6. KeepsStored /\ OthersHeld
  BY <1>2 DEF KeepsStored, OthersHeld
<1> HIDE DEF k
<1>7. QED
  BY <1>2, <1>5, <1>6, PathLocal

LEMMA BeginClosePath ==
  ASSUME TypeOK, EngineInv, PathInv, NEW t \in Thread, NEW o \in AllOps, NEW r \in Row,
         Like(r, row), BeginClose(t, o, r)
  PROVE  PathInv'
<1>0. row \in Row /\ RowOK(row, holds) /\ (row.state \in Backed => row.handle # NoHandle)
  BY DEF TypeOK, EngineInv, PathInv, Backed
<1>1. CASE MustMove(r)
  <2> DEFINE q == Captured(r, o)
  <2>1. q \in Row /\ q.state = row.state /\ q.handle = row.handle
    BY <1>1, CapturedType DEF Like
  <2>2. Begin(t, o, "capture", q)
    BY <1>1 DEF BeginClose
  <2>3. row.state \notin TerminalStates
    BY <1>0, <1>1 DEF MustMove, Like, RowOK
  <2> HIDE DEF q
  <2>4. QED
    BY <1>0, <2>1, <2>2, <2>3, BeginPath DEF PC
<1>2. CASE ~ MustMove(r)
  <2> DEFINE q == Closing(r, o)
  <2>1. q \in Row /\ q.state = Target(o) /\ q.handle = row.handle
    BY ClosingType DEF Like
  <2>2. Begin(t, o, "commit", q) /\ CanTransition(row.state, Target(o))
    BY <1>2 DEF BeginClose, Like
  <2>3. row.state \in State /\ Target(o) \in Transitions[row.state] /\ Target(o) \in TerminalStates
    BY <1>0, <2>2, TargetType DEF Row, CanTransition
  <2>4. row.state \notin TerminalStates
    BY <2>3, TerminalStays
  <2>5. /\ q.state \in Delivered => row.state \in Delivered
        /\ q.state \in Backed => row.state \in Backed
        /\ q.state # "ESCROWED"
    BY <2>1, <2>3, DeliveredStays, BackedStays DEF TerminalStates
  <2>6. Follows(q, row, holds)
    BY <2>1, <2>3, <2>5 DEF Follows
  <2> HIDE DEF q
  <2>7. QED
    BY <1>0, <2>1, <2>2, <2>4, <2>5, <2>6, BeginPath DEF PC
<1>3. QED
  BY <1>1, <1>2

\* A request that saves a copy q in a state that is not terminal.
LEMMA AdvancePath ==
  ASSUME TypeOK, EngineInv, PathInv, NEW t \in Thread, NEW o \in AllOps, NEW q \in Row,
         Begin(t, o, "commit", q),
         row.state \notin TerminalStates,
         q.state \in {row.state} \union Transitions[row.state],
         q.state # "ESCROWED", q.handle = row.handle,
         q.state = "DELIVERED" => o = "deliver"
  PROVE  PathInv'
<1>0. row \in Row /\ row.state \in State /\ (row.state \in Backed => row.handle # NoHandle)
  BY DEF TypeOK, PathInv, Backed, Row
<1>1. Follows(q, row, holds)
  BY DEF Follows
<1>2. /\ q.state \in Delivered => row.state \in Delivered \/ o = "deliver"
      /\ q.state \in Backed => row.state \in Backed
  BY <1>0, DeliveredStays, BackedStays
<1>3. QED
  BY <1>0, <1>1, <1>2, BeginPath DEF PC

LEMMA RequestPath ==
  ASSUME TypeOK, EngineInv, PathInv, NEW t \in Thread, Request(t)
  PROVE  PathInv'
<1>0. /\ row \in Row /\ row.state \in State /\ row.deadline \in Phase \union {NoDeadline}
      /\ Like(row, row) /\ (row.state \in Backed => row.handle # NoHandle)
      /\ RowOK(row, holds)
  BY DEF TypeOK, Row, Like, PathInv, Backed, EngineInv
<1>1. ASSUME NEW p \in Party, Contract(t, p) PROVE PathInv'
  <2> DEFINE acked == [row EXCEPT !.acks = @ \union {p}]
             q == IF acked.acks = Party THEN Advance(acked, "CONTRACTED", Deadline("escrow"))
                                        ELSE Bumped(acked)
  <2>1. acked \in Row /\ acked.state = row.state /\ acked.handle = row.handle
    BY <1>0 DEF Row
  <2>2. row.state = "PROPOSED" /\ Begin(t, "contract", "commit", q)
    BY <1>1 DEF Contract
  <2> HIDE DEF acked
  <2>3. q \in Row /\ q.state \in {"PROPOSED", "CONTRACTED"} /\ q.handle = row.handle
    <3>1. "CONTRACTED" \in State /\ Deadline("escrow") \in Phase \union {NoDeadline}
      BY DeadlineType DEF State, Phase
    <3>2. QED
      BY <2>1, <2>2, <3>1, AdvanceType, BumpedType
  <2> HIDE DEF q
  <2>4. q.state \in {row.state} \union Transitions[row.state]
    BY <2>2, <2>3 DEF Transitions, State
  <2>5. QED
    BY <2>2, <2>3, <2>4, AdvancePath DEF TerminalStates, AllOps
<1>2. CASE Escrow(t)
  BY <1>0, <1>2, BeginPath DEF Escrow, PC, AllOps
<1>3. CASE Deliver(t)
  <2> DEFINE q == Advance(row, "DELIVERED", Deadline("verify"))
  <2>1. q \in Row /\ q.state = "DELIVERED" /\ q.handle = row.handle
    BY <1>0, AdvanceType, DeadlineType DEF State, Phase
  <2>2. Begin(t, "deliver", "commit", q) /\ CanTransition(row.state, "DELIVERED")
    BY <1>3 DEF Deliver
  <2> HIDE DEF q
  <2>3. QED
    BY <1>0, <2>1, <2>2, AdvancePath, TransitionTarget DEF CanTransition, AllOps
<1>4. CASE Verify(t)
  <2> DEFINE a == Advance(row, "VERIFIED", Deadline("confirm"))
             q == [a EXCEPT !.verdict = "passed"]
             r == [row EXCEPT !.verdict = "rejected"]
  <2>1. a \in Row /\ a.state = "VERIFIED" /\ a.handle = row.handle
    BY <1>0, AdvanceType, DeadlineType DEF State, Phase
  <2>2. /\ CanTransition(row.state, "VERIFIED")
        /\ Begin(t, "verify", "commit", q) \/ BeginClose(t, "verify", r)
    BY <1>4 DEF Verify
  <2> HIDE DEF a
  <2>3. /\ q \in Row /\ q.state = "VERIFIED" /\ q.handle = row.handle
        /\ r \in Row /\ Like(r, row)
    BY <1>0, <2>1 DEF Row, Like
  <2> HIDE DEF q, r
  <2>4. QED
    BY <1>0, <2>2, <2>3, AdvancePath, BeginClosePath, TransitionTarget
       DEF CanTransition, AllOps, RefundOp
<1>5. CASE Dispute(t)
  <2> DEFINE a == Advance(row, "DISPUTED", row.deadline)
             q == [a EXCEPT !.dispute = "open"]
  <2>1. a \in Row /\ a.state = "DISPUTED" /\ a.handle = row.handle
    <3>1. "DISPUTED" \in State
      BY DEF State
    <3>2. QED
      BY <1>0, <3>1, AdvanceType
  <2>2. CanTransition(row.state, "DISPUTED") /\ Begin(t, "dispute", "commit", q)
    BY <1>5 DEF Dispute
  <2> HIDE DEF a
  <2>3. q \in Row /\ q.state = "DISPUTED" /\ q.handle = row.handle
    BY <2>1 DEF Row
  <2> HIDE DEF q
  <2>4. QED
    BY <1>0, <2>2, <2>3, AdvancePath, TransitionTarget DEF CanTransition, AllOps
<1>6. ASSUME NEW o \in {"confirm", "resolve_settle", "resolve_reject", "cancel", "expire"},
             Close(t, o)
      PROVE  PathInv'
  BY <1>0, <1>6, BeginClosePath DEF Close, AllOps, SettleOp, RefundOp
<1>7. CASE ConfirmLocal(t)
  BY <1>0, <1>7, BeginClosePath DEF ConfirmLocal, AllOps, SettleOp
<1>8. CASE SweepFinds(t)
  BY <1>0, <1>8, BeginPath DEF SweepFinds, AllOps, RefundOp, PC
<1>9. CASE Recover(t)
  BY <1>0, <1>9, BeginPath DEF Recover, AllOps, PC, RowOK
<1>10. QED
  BY <1>1, <1>2, <1>3, <1>4, <1>5, <1>6, <1>7, <1>8, <1>9
     DEF Request, IngestConfirmation, Resolve, Cancel, Expire

LEMMA EndPath ==
  ASSUME TypeOK, EngineInv, PathInv, NEW t \in Thread, End(t), row' = row, vdc'.ref = vdc.ref,
         KeepsStored, OthersHeld
  PROVE  PathInv'
<1>1. th'[t] = Idle /\ \A u \in Thread \ {t} : th'[u] = th[u]
  BY DEF End, TypeOK
<1>2. PathOK(th'[t], row, holds', vdc.ref)
  BY <1>1, IdlePath
<1>3. QED
  BY <1>1, <1>2, PathLocal

LEMMA GoOnPath ==
  ASSUME TypeOK, EngineInv, PathInv, NEW t \in Thread, NEW p \in PC, NEW r \in Row,
         GoOn(t, p, r), row' = row, vdc' = vdc, OthersHeld,
         PathOK(At(th[t], p, r), row, holds', vdc.ref)
  PROVE  PathInv'
<1>1. KeepsStored /\ vdc'.ref = vdc.ref
  BY DEF KeepsStored
<1>2. QED
  BY <1>1, GoOnType, PathLocal

\* A thread that will save copy q next.
LEMMA CommitPath ==
  ASSUME TypeOK, NEW k \in Task, NEW q \in Row, NEW hs, PathOK(k, row, holds, vdc.ref),
         k.pc \in {"authorize", "call"},
         q.state \in Backed => q.handle # NoHandle,
         k.pv = row.version =>
           /\ row.state \notin TerminalStates
           /\ Follows(q, row, hs)
           /\ q.state \in Delivered => vdc.ref # NoVdc
  PROVE  PathOK(At(k, "commit", q), row, hs, vdc.ref)
<1> DEFINE j == At(k, "commit", q)
<1>1. j.pc = "commit" /\ j.ex = q /\ j.pv = k.pv /\ j.vdc = k.vdc
  BY DEF At, Task
<1> HIDE DEF j
<1>2. PathOK(j, row, hs, vdc.ref)
  BY <1>1 DEF PathOK, Backed
<1>3. QED
  BY <1>2 DEF j

\* The rail moves the hold of the row.
LEMMA CallHeld ==
  ASSUME TypeOK, EngineInv, NEW t \in Thread, th[t].pc = "call", RailMoves(th[t].ex.intent)
  PROVE  OthersHeld
<1>1. th[t].ex.intent \in Intent /\ th[t].ex.intent.handle = th[t].ex.handle
  BY CallInv
<1>2. th[t].ex.handle = row.handle
  BY DEF EngineInv, TaskOK
<1>3. QED
  BY <1>1, <1>2, RailMovesType DEF OthersHeld

LEMMA ContinuePath ==
  ASSUME TypeOK, EngineInv, PathInv, NEW t \in Thread, Continue(t)
  PROVE  PathInv'
<1> DEFINE e == th[t].ex
           k == th[t]
<1>0. /\ k \in Task /\ e \in Row /\ k.op \in AllOps /\ row \in Row
      /\ e.state \in State /\ row.state \in State
      /\ TaskOK(k, row, holds) /\ PathOK(k, row, holds, vdc.ref)
      /\ row.state \in Delivered => vdc.ref # NoVdc
  BY DEF TypeOK, Task, Row, EngineInv, PathInv, DeliveryIsStored, Delivered
<1> HIDE DEF e, k
<1>1. CASE Capture(t)
  <2>1. Save(t) /\ k.pc = "capture" /\ holds' = holds /\ OthersHeld
    BY <1>1 DEF Capture, OthersHeld, k
  <2>2. CASE Fresh(t)
    <3> DEFINE j == [k EXCEPT !.pc = "call", !.pv = e.version]
    <3>1. j \in Task /\ j.pc = "call" /\ j.pv = e.version /\ j.ex = e /\ j.vdc = k.vdc
      BY <1>0 DEF Task, Row, e, k
    <3>2. th' = [th EXCEPT ![t] = j]
      BY <1>0, <1>1, <2>2 DEF Capture, TypeOK, Task, e, k
    <3> HIDE DEF j
    <3>3. th'[t] = j /\ \A u \in Thread \ {t} : th'[u] = th[u]
      BY <3>2 DEF TypeOK
    <3>4. k.pv = row.version /\ k.ex = e
      BY <2>2 DEF Fresh, e, k
    <3>5. e.state = row.state /\ row.state \notin TerminalStates
      BY <1>0, <2>1, <3>4 DEF PathOK
    <3>6. PathOK(j, e, holds', k.vdc.id)
      BY <1>0, <2>1, <3>1, <3>4, <3>5 DEF PathOK
    <3>7. QED
      BY <2>1, <2>2, <3>3, <3>6, PathSaved DEF e, k
  <2>3. CASE ~ Fresh(t)
    <3>1. row' = row /\ End(t) /\ KeepsStored /\ vdc'.ref = vdc.ref
      BY <1>1, <2>1, <2>3, SaveKeeps, SaveType DEF Capture
    <3>2. QED
      BY <2>1, <3>1, EndPath
  <2>4. QED
    BY <2>2, <2>3
<1>2. CASE Authorize(t)
  <2>1. /\ row' = row /\ vdc' = vdc /\ KeepsStored /\ k.pc = "authorize"
        /\ OthersHeld /\ k.ex = e
    BY <1>2 DEF Authorize, KeepsStored, OthersHeld, TypeOK, k, e
  <2>2. ASSUME CanTransition(e.state, "ESCROWED"), NEW h \in Handle, holds'[h] = "held",
               GoOn(t, "commit", [Advance(e, "ESCROWED", Deadline("deliver")) EXCEPT !.handle = h])
        PROVE  PathInv'
    <3> DEFINE a == Advance(e, "ESCROWED", Deadline("deliver"))
               q == [a EXCEPT !.handle = h]
    <3>1. a \in Row /\ a.state = "ESCROWED"
      BY <1>0, AdvanceType, DeadlineType DEF State, Phase
    <3> HIDE DEF a
    <3>2. q \in Row /\ q.state = "ESCROWED" /\ q.handle = h /\ GoOn(t, "commit", q)
      BY <2>2, <3>1 DEF Row, a
    <3> HIDE DEF q
    <3>3. h # NoHandle
      BY EngineAssumption
    <3>4. e.state = "CONTRACTED"
      BY <1>0, <2>2, TransitionTarget
    <3>5. k.pv = row.version => row.state = "CONTRACTED"
      BY <1>0, <2>1, <3>4 DEF PathOK
    <3>6. row.state = "CONTRACTED" => Follows(q, row, holds')
      BY <2>2, <3>2 DEF Follows, Transitions, State
    <3>7. PathOK(At(k, "commit", q), row, holds', vdc.ref)
      BY <1>0, <2>1, <3>2, <3>3, <3>5, <3>6, CommitPath DEF TerminalStates, Delivered
    <3>8. QED
      BY <2>1, <3>2, <3>7, GoOnPath DEF PC, k
  <2>3. CASE End(t)
    BY <2>1, <2>3, EndPath
  <2>4. ASSUME ~ End(t) PROVE PathInv'
    <3>1. PICK made \in SUBSET {h \in Handle : holds[h] = "none"} :
            /\ holds' = [h \in Handle |-> IF h \in made THEN "held" ELSE holds[h]]
            /\ CanTransition(e.state, "ESCROWED")
            /\ \E h \in made :
                 GoOn(t, "commit", [Advance(e, "ESCROWED", Deadline("deliver")) EXCEPT !.handle = h])
      BY <1>2, <2>4 DEF Authorize, e
    <3>2. QED
      BY <2>2, <3>1
  <2>5. QED
    BY <2>3, <2>4
<1>3. CASE CallAnswered(t)
  <2>1. /\ row' = row /\ vdc' = vdc /\ KeepsStored /\ k.pc = "call" /\ OthersHeld
        /\ k.ex = e /\ Pending(e)
    BY <1>0, <1>3, CallHeld DEF CallAnswered, KeepsStored, TaskOK, e, k
  <2>2. CASE End(t)
    BY <2>1, <2>2, EndPath
  <2>3. /\ e.state = "ESCROWED" => row.state = "ESCROWED" \/ k.pv # row.version
        /\ k.pv = row.version => e.state = row.state /\ e.handle = row.handle
                                /\ row.state \notin TerminalStates
        /\ e.state \in Backed => e.handle # NoHandle
    BY <1>0, <2>1 DEF PathOK, Backed
  <2>4. CASE GoOn(t, "commit", Recovered(e))
    <3> DEFINE q == Recovered(e)
    <3>1. /\ q \in Row /\ q.handle = e.handle /\ q.state \in {e.state} \union Transitions[e.state]
          /\ q.state \in {e.state} \union TerminalStates
      <4>1. Receipted(e) \in Row /\ Receipted(e).state = e.state
        BY <1>0, <2>1, ReceiptedType
      <4>2. q.state \in {e.state} \union Transitions[e.state]
        <5> DEFINE target == IF e.intent.action = "settle" THEN "SETTLED" ELSE "EXPIRED_REFUNDED"
        <5>1. target \in State
          BY DEF State
        <5>2. CASE CanTransition(e.state, target)
          BY <4>1, <5>1, <5>2, AdvanceType DEF Recovered, CanTransition
        <5>3. CASE ~ CanTransition(e.state, target)
          BY <4>1, <5>3, BumpedType DEF Recovered
        <5>4. QED
          BY <5>2, <5>3
      <4>3. QED
        BY <1>0, <2>1, <4>2, RecoveredType
    <3> HIDE DEF q
    <3>2. /\ q.state \in Backed => e.state \in Backed
          /\ q.state \in Delivered => e.state \in Delivered
      BY <1>0, <3>1, BackedStays, DeliveredStays DEF TerminalStates, Backed
    <3>3. k.pv = row.version => Follows(q, row, holds')
      BY <2>3, <3>1 DEF Follows, TerminalStates
    <3>4. PathOK(At(k, "commit", q), row, holds', vdc.ref)
      BY <1>0, <2>1, <2>3, <3>1, <3>2, <3>3, CommitPath
    <3>5. QED
      BY <2>1, <2>4, <3>1, <3>4, GoOnPath DEF PC, k, q
  <2>5. CASE CanTransition(e.state, Target(k.op)) /\ GoOn(t, "commit", Closing(Receipted(e), k.op))
    <3> DEFINE q == Closing(Receipted(e), k.op)
    <3>1. q \in Row /\ q.handle = e.handle /\ q.state = Target(k.op)
      BY <1>0, <2>1, ReceiptedType, ClosingType
    <3>2. q.state \in Transitions[e.state] /\ q.state \in TerminalStates
      BY <1>0, <2>5, <3>1, TargetType DEF CanTransition
    <3> HIDE DEF q
    <3>3. /\ q.state \in Backed => e.state \in Backed
          /\ q.state \in Delivered => e.state \in Delivered
      BY <1>0, <3>2, BackedStays, DeliveredStays DEF TerminalStates
    <3>4. k.pv = row.version => Follows(q, row, holds')
      BY <2>3, <3>1, <3>2 DEF Follows, TerminalStates
    <3>5. PathOK(At(k, "commit", q), row, holds', vdc.ref)
      BY <1>0, <2>1, <2>3, <3>1, <3>3, <3>4, CommitPath
    <3>6. QED
      BY <2>1, <2>5, <3>1, <3>5, GoOnPath DEF PC, k, q
  <2>6. QED
    BY <1>3, <2>2, <2>4, <2>5 DEF CallAnswered, e, k
<1>4. CASE CallFailed(t)
  <2>1. /\ row' = row /\ vdc' = vdc /\ KeepsStored /\ k.pc = "call" /\ k.ex = e /\ Pending(e)
    BY <1>0, <1>4 DEF CallFailed, KeepsStored, TaskOK, e, k
  <2>2. OthersHeld
    BY <1>4, CallHeld DEF CallFailed, OthersHeld
  <2>3. CASE End(t)
    BY <2>1, <2>2, <2>3, EndPath
  <2>4. CASE GoOn(t, "commit", [Bumped(e) EXCEPT !.intent.status = "failed"])
    <3> DEFINE q == [Bumped(e) EXCEPT !.intent.status = "failed"]
    <3>1. Bumped(e) \in Row /\ Pending(Bumped(e)) /\ Bumped(e).state = e.state
          /\ Bumped(e).handle = e.handle
      BY <1>0, <2>1, BumpedType DEF Pending
    <3>2. q \in Row /\ q.state = e.state /\ q.handle = e.handle
      BY <3>1, StatusType
    <3> HIDE DEF q
    <3>3. /\ k.pv = row.version => /\ e.state = row.state /\ e.handle = row.handle
                                   /\ row.state \notin TerminalStates
          /\ e.state \in Backed => e.handle # NoHandle
      BY <1>0, <2>1 DEF PathOK, Backed
    <3>4. k.pv = row.version => Follows(q, row, holds')
      BY <3>2, <3>3 DEF Follows
    <3>5. PathOK(At(k, "commit", q), row, holds', vdc.ref)
      BY <1>0, <2>1, <3>2, <3>3, <3>4, CommitPath
    <3>6. QED
      BY <2>1, <2>2, <2>4, <3>2, <3>5, GoOnPath DEF PC, k, q
  <2>5. QED
    BY <1>4, <2>3, <2>4 DEF CallFailed, e
<1>5. CASE Commit(t)
  <2>1. Save(t) /\ k.pc = "commit" /\ holds' = holds /\ OthersHeld
    BY <1>5 DEF Commit, OthersHeld, k
  <2>2. CASE ~ Fresh(t)
    BY <1>5, <2>1, <2>2, SaveKeeps, SaveType, EndPath DEF Commit
  <2>3. CASE Fresh(t) /\ End(t)
    <3>1. th'[t] = Idle /\ \A u \in Thread \ {t} : th'[u] = th[u]
      BY <2>3 DEF End, TypeOK
    <3>2. QED
      BY <2>1, <2>3, <3>1, IdlePath, PathSaved DEF k
  <2>4. CASE Fresh(t) /\ GoOn(t, "record", e)
    <3> DEFINE j == At(k, "record", e)
    <3>1. th'[t] = j /\ \A u \in Thread \ {t} : th'[u] = th[u]
      BY <1>0, <2>4, GoOnType DEF PC, k
    <3>2. j.pc = "record" /\ j.ex = e /\ j.vdc = k.vdc /\ k.ex = e
      BY <1>0 DEF At, Task, e, k
    <3> HIDE DEF j
    <3>3. PathOK(j, e, holds', k.vdc.id)
      BY <1>0, <3>2 DEF PathOK
    <3>4. QED
      BY <2>1, <2>4, <3>1, <3>3, PathSaved DEF k, e
  <2>5. QED
    BY <1>5, <2>2, <2>3, <2>4 DEF Commit, e
<1>6. CASE Record(t)
  <2>1. /\ row' = row /\ vdc' = vdc /\ KeepsStored /\ OthersHeld
    BY <1>6 DEF Record, KeepsStored, OthersHeld
  <2>2. CASE End(t)
    BY <2>1, <2>2, EndPath
  <2>3. CASE GoOn(t, "record_client", e)
    <3> DEFINE j == At(k, "record_client", e)
    <3>1. j.pc = "record_client" /\ j.ex = e /\ j.vdc = k.vdc /\ k.ex = e
      BY <1>0 DEF At, Task, e, k
    <3> HIDE DEF j
    <3>2. PathOK(j, row, holds', vdc.ref)
      BY <1>0, <3>1 DEF PathOK
    <3>3. QED
      BY <1>0, <2>1, <2>3, <3>2, GoOnPath DEF PC, k, j
  <2>4. QED
    BY <1>6, <2>2, <2>3 DEF Record, e
<1>7. CASE SweepExpires(t)
  <2>1. Like(row, row) /\ "sweep" \in AllOps
    BY DEF Like, AllOps, RefundOp
  <2>2. CASE BeginClose(t, "sweep", row)
    BY <1>0, <2>1, <2>2, BeginClosePath
  <2>3. CASE End(t) /\ UNCHANGED <<row, vdc, holds>>
    BY <2>3, EndPath DEF KeepsStored, OthersHeld
  <2>4. QED
    BY <1>7, <2>2, <2>3 DEF SweepExpires
<1>8. QED
  BY <1>1, <1>2, <1>3, <1>4, <1>5, <1>6, <1>7 DEF Continue

LEMMA NextPath ==
  ASSUME TypeOK, EngineInv, PathInv, [Next]_vars
  PROVE  PathInv'
<1>1. ASSUME NEW t \in Thread, Request(t) \/ Continue(t) PROVE PathInv'
  BY <1>1, RequestPath, ContinuePath
<1>2. CASE StartWithNothingToRecover \/ DeadlinePasses \/ UNCHANGED vars
  BY <1>2 DEF StartWithNothingToRecover, DeadlinePasses, vars, PathInv, DeliveryIsStored, Stored
<1>3. CASE Crash
  <2>1. row' = row /\ holds' = holds /\ th' = [t \in Thread |-> Idle]
    BY <1>3 DEF Crash
  <2>2. KeepsStored /\ vdc'.ref = vdc.ref
    <3>1. ASSUME NEW u \in Thread, vdc' = Upserted(th[u].vdc)
          PROVE  KeepsStored /\ vdc'.ref = vdc.ref
      <4>1. th[u].vdc \in Doc /\ (th[u].vdc.id # NoVdc => th[u].vdc.by # "none")
        BY DEF TypeOK, Task, PathInv, PathOK
      <4>2. QED
        BY <3>1, <4>1, UpsertedKeeps DEF KeepsStored
    <3>2. QED
      BY <1>3, <3>1 DEF Crash, KeepsStored
  <2>3. \A t \in Thread : PathOK(th'[t], row', holds', vdc'.ref)
    BY <2>1, IdlePath
  <2>4. DeliveryIsStored'
    BY <2>1, <2>2 DEF PathInv, DeliveryIsStored, Stored, KeepsStored
  <2>5. QED
    BY <2>1, <2>3, <2>4 DEF PathInv
<1>4. QED
  BY <1>1, <1>2, <1>3 DEF Next

-----------------------------------------------------------------------------
(* LedgerInv.                                                              *)

\* A request changes its thread, which appends nothing yet, and nothing else.
LEMMA RequestShape ==
  ASSUME TypeOK, NEW t \in Thread, Request(t)
  PROVE  /\ UNCHANGED <<row, vdc, holds, ledger>>
         /\ \A u \in Thread \ {t} : th'[u] = th[u]
         /\ th'[t].pc \notin Recording
<1>1. ASSUME NEW o, NEW p \in PC \ Recording, NEW r, Begin(t, o, p, r)
      PROVE  /\ UNCHANGED <<row, vdc, holds, ledger>>
             /\ \A u \in Thread \ {t} : th'[u] = th[u]
             /\ th'[t].pc \notin Recording
  BY <1>1 DEF Begin, TypeOK
<1>2. "capture" \in PC \ Recording /\ "commit" \in PC \ Recording
      /\ "authorize" \in PC \ Recording /\ "call" \in PC \ Recording
      /\ "sweeping" \in PC \ Recording
  BY DEF PC, Recording
<1>3. ASSUME NEW o, NEW r, BeginClose(t, o, r)
      PROVE  \E q : Begin(t, o, "capture", q) \/ Begin(t, o, "commit", q)
  BY <1>3 DEF BeginClose
<1>4. \E o, r : \/ Begin(t, o, "capture", r) \/ Begin(t, o, "commit", r)
                \/ Begin(t, o, "authorize", r) \/ Begin(t, o, "call", r)
                \/ Begin(t, o, "sweeping", r)
  BY <1>3 DEF Request, Contract, Escrow, Deliver, Verify, IngestConfirmation, ConfirmLocal,
              Dispute, Resolve, Cancel, Expire, Close, SweepFinds, Recover
<1>5. QED
  BY <1>1, <1>2, <1>4

\* LedgerIsJustified, spelled out for the three entries.
Justified(l, s) ==
  /\ l["provider_settled"] \in {0, 1} /\ l["client_settled"] \in {0, 1}
  /\ l["provider_rejected"] \in {0, 1}
  /\ l["provider_settled"] = 0 => l["client_settled"] = 0
  /\ l["provider_settled"] = 1 => s = "SETTLED"
  /\ l["provider_rejected"] = 1 => s = "REJECTED"

LEMMA JustifiedLedger ==
  ASSUME TypeOK
  PROVE  LedgerIsJustified <=> Justified(ledger, row.state)
<1>1. /\ ledger["provider_settled"] \in Nat /\ ledger["client_settled"] \in Nat
      /\ ledger["provider_rejected"] \in Nat
  BY DEF TypeOK, Entry
<1>2. QED
  BY <1>1 DEF LedgerIsJustified, Justified, Entry

LEMMA JustifiedNext ==
  ASSUME TypeOK'
  PROVE  LedgerIsJustified' <=> Justified(ledger', row'.state)
<1>1. /\ ledger'["provider_settled"] \in Nat /\ ledger'["client_settled"] \in Nat
      /\ ledger'["provider_rejected"] \in Nat
  BY DEF TypeOK, Entry
<1>2. QED
  BY <1>1 DEF LedgerIsJustified, Justified, Entry

\* An entry is appended.
LEMMA Appended ==
  ASSUME TypeOK, NEW e \in Entry, ledger' = [ledger EXCEPT ![e] = @ + 1]
  PROVE  /\ ledger'[e] = ledger[e] + 1
         /\ \A f \in Entry \ {e} : ledger'[f] = ledger[f]
<1>1. ledger \in [Entry -> Nat]
  BY DEF TypeOK
<1>2. QED
  BY <1>1

LEMMA LedgerQuiet ==
  ASSUME TypeOK, LedgerInv, NEW t \in Thread, ledger' = ledger, row'.state = row.state,
         \A u \in Thread \ {t} : th'[u] = th[u],
         th'[t].pc \notin Recording
  PROVE  LedgerInv'
<1>1. LedgerIsJustified'
  BY DEF LedgerInv, LedgerIsJustified
<1>2. \A u \in Thread : th'[u].pc \in Recording => th'[u] = th[u]
  OBVIOUS
<1>3. QED
  BY <1>1, <1>2 DEF LedgerInv, Recording

LEMMA LedgerSaved ==
  ASSUME TypeOK, LedgerInv, NEW t \in Thread, ledger' = ledger,
         row.state \notin TerminalStates,
         TypeOK', \A u \in Thread \ {t} : th'[u] = th[u],
         th'[t].pc # "record_client",
         th'[t].pc = "record" => Entries(th'[t].op) # {} /\ row'.state = Target(th'[t].op)
  PROVE  LedgerInv'
<1>1. \A u \in Thread : th[u].pc \notin Recording
  <2>1. \A u \in Thread : th[u].op \in AllOps
    BY DEF TypeOK, Task
  <2>2. QED
    BY <2>1, TargetType DEF LedgerInv, Recording, TerminalStates
<1>2. \A e \in Entry : ledger[e] = 0
  <2>1. Justified(ledger, row.state)
    BY JustifiedLedger DEF LedgerInv
  <2>2. QED
    BY <2>1 DEF Justified, Entry, TerminalStates
<1>3. LedgerIsJustified'
  <2>1. \A e \in Entry : ledger'[e] = 0
    BY <1>2
  <2>2. /\ ledger'["provider_settled"] = 0 /\ ledger'["client_settled"] = 0
        /\ ledger'["provider_rejected"] = 0
    BY <2>1 DEF Entry
  <2>3. Justified(ledger', row'.state)
    BY <2>2 DEF Justified
  <2>4. QED
    BY <2>3, JustifiedNext
<1>4. \A u \in Thread : th'[u].pc \in Recording => u = t
  BY <1>1
<1>5. QED
  BY <1>2, <1>3, <1>4 DEF LedgerInv, Recording

LEMMA RecordLedger ==
  ASSUME TypeOK, TypeOK', LedgerInv, NEW t \in Thread, Record(t)
  PROVE  LedgerInv'
<1> DEFINE k == th[t]
<1>0. k \in Task /\ k.ex \in Row /\ k.op \in AllOps /\ row' = row
  BY DEF TypeOK, Task, Record
<1> HIDE DEF k
<1>1. \A u \in Thread \ {t} : th'[u] = th[u] /\ th[u].pc \notin Recording
  <2>1. k.pc \in Recording
    BY DEF Record, Recording, k
  <2>2. \A u \in Thread \ {t} : th[u].pc \notin Recording
    BY <2>1 DEF LedgerInv, Recording, k
  <2>3. QED
    BY <2>2 DEF Record, End, GoOn, TypeOK
<1>2. ASSUME th'[t].pc \notin Recording, LedgerIsJustified' PROVE LedgerInv'
  BY <1>1, <1>2 DEF LedgerInv, Recording
<1>3. End(t) => th'[t].pc \notin Recording
  BY DEF End, TypeOK, Idle, Recording
<1>4. CASE k.pc = "record"
  <2>1. PICK e \in Entries(k.op) \ {"client_settled"} : ledger' = [ledger EXCEPT ![e] = @ + 1]
    BY <1>4 DEF Record, k
  <2>2. row.state = Target(k.op) /\ \A f \in Entry : ledger[f] = 0
    BY <1>4 DEF LedgerInv, k
  <2>3. CASE k.op \in SettleOp
    <3>1. e = "provider_settled" /\ row.state = "SETTLED"
      BY <2>1, <2>2, <2>3 DEF Entries, SettleOp, Target
    <3>2. /\ ledger'["provider_settled"] = 1 /\ ledger'["client_settled"] = 0
          /\ ledger'["provider_rejected"] = 0
      <4>1. ledger'[e] = ledger[e] + 1 /\ \A f \in Entry \ {e} : ledger'[f] = 0
        BY <2>1, <2>2, Appended DEF Entries, Entry
      <4>2. ledger'[e] = 1
        BY <2>2, <3>1, <4>1 DEF Entry
      <4>3. QED
        BY <3>1, <4>1, <4>2 DEF Entry
    <3>3. LedgerIsJustified'
      <4>1. Justified(ledger', row'.state)
        BY <1>0, <3>1, <3>2 DEF Justified
      <4>2. QED
        BY <4>1, JustifiedNext
    <3>4. GoOn(t, "record_client", k.ex)
      BY <1>4, <2>3 DEF Record, k
    <3>5. th'[t].pc = "record_client"
      <4>1. th'[t] = At(k, "record_client", k.ex)
        BY <1>0, <3>4, GoOnType DEF PC, k
      <4>2. QED
        BY <1>0, <4>1 DEF At, Task
    <3>6. QED
      BY <1>0, <1>1, <3>1, <3>2, <3>3, <3>5 DEF LedgerInv, Recording
  <2>4. CASE k.op \notin SettleOp
    <3>1. e = "provider_rejected" /\ row.state = "REJECTED"
      BY <1>0, <2>1, <2>2, <2>4 DEF Entries, SettleOp, Target
    <3>2. /\ ledger'["provider_settled"] = 0 /\ ledger'["client_settled"] = 0
          /\ ledger'["provider_rejected"] = 1
      <4>1. ledger'[e] = ledger[e] + 1 /\ \A f \in Entry \ {e} : ledger'[f] = 0
        BY <2>1, <2>2, Appended DEF Entries, Entry
      <4>2. ledger'[e] = 1
        BY <2>2, <3>1, <4>1 DEF Entry
      <4>3. QED
        BY <3>1, <4>1, <4>2 DEF Entry
    <3>3. LedgerIsJustified'
      <4>1. Justified(ledger', row'.state)
        BY <1>0, <3>1, <3>2 DEF Justified
      <4>2. QED
        BY <4>1, JustifiedNext
    <3>4. End(t)
      BY <1>4, <2>4 DEF Record, k
    <3>5. QED
      BY <1>2, <1>3, <3>3, <3>4
  <2>5. QED
    BY <2>3, <2>4
<1>5. CASE k.pc # "record"
  <2>1. k.pc = "record_client" /\ ledger' = [ledger EXCEPT !["client_settled"] = @ + 1] /\ End(t)
    BY <1>5 DEF Record, k
  <2>2. row.state = "SETTLED" /\ ledger["provider_settled"] = 1 /\ ledger["client_settled"] = 0
    BY <2>1 DEF LedgerInv, k
  <2>3. /\ ledger'["provider_settled"] = 1 /\ ledger'["client_settled"] = 1
        /\ ledger'["provider_rejected"] = ledger["provider_rejected"]
    <3>1. "client_settled" \in Entry
      BY DEF Entry
    <3>2. /\ ledger'["client_settled"] = ledger["client_settled"] + 1
          /\ \A f \in Entry \ {"client_settled"} : ledger'[f] = ledger[f]
      BY <2>1, <3>1, Appended
    <3>3. QED
      BY <2>2, <3>2 DEF Entry
  <2>4. LedgerIsJustified'
    BY <1>0, <2>2, <2>3, JustifiedLedger, JustifiedNext DEF LedgerInv, Justified
  <2>5. QED
    BY <1>2, <1>3, <2>1, <2>4
<1>6. QED
  BY <1>4, <1>5

\* What a step of a running operation does to the row.
LEMMA ContinueRow ==
  ASSUME TypeOK, EngineInv, NEW t \in Thread, Continue(t)
  PROVE  /\ \A u \in Thread \ {t} : th'[u] = th[u]
         /\ \/ row' = row
            \/ /\ Capture(t) \/ Commit(t)
               /\ Save(t) /\ Fresh(t) /\ th[t].pc \in {"capture", "commit"}
               /\ row' = th[t].ex /\ holds' = holds
<1>1. \A u \in Thread \ {t} : th'[u] = th[u]
  BY DEF Continue, Capture, Authorize, CallAnswered, CallFailed, Commit, Record, SweepExpires,
         BeginClose, Begin, End, GoOn, TypeOK
<1>2. CASE Capture(t) \/ Commit(t)
  BY <1>1, <1>2, SaveType DEF Capture, Commit
<1>3. CASE ~ (Capture(t) \/ Commit(t))
  BY <1>1, <1>3 DEF Continue, Authorize, CallAnswered, CallFailed, Record, SweepExpires,
                    BeginClose, Begin
<1>4. QED
  BY <1>2, <1>3

LEMMA ContinueLedger ==
  ASSUME TypeOK, TypeOK', EngineInv, PathInv, LedgerInv, NEW t \in Thread, Continue(t)
  PROVE  LedgerInv'
<1> DEFINE k == th[t]
<1>0. k \in Task /\ k.ex \in Row /\ k.op \in AllOps /\ PathOK(k, row, holds, vdc.ref)
  BY DEF TypeOK, Task, PathInv
<1> HIDE DEF k
<1>1. CASE Record(t)
  BY <1>1, RecordLedger
<1>2. CASE ~ Record(t)
  <2>1. ledger' = ledger
    BY <1>2 DEF Continue, Capture, Authorize, CallAnswered, CallFailed, Commit, SweepExpires,
                BeginClose, Begin
  <2>2. \A p \in PC \ Recording : \A r : GoOn(t, p, r) => th'[t].pc \notin Recording
    BY DEF GoOn, TypeOK, Task
  <2>3. End(t) => th'[t].pc \notin Recording
    BY DEF End, TypeOK, Idle, Recording
  <2>4. CASE row' = row /\ th'[t].pc \notin Recording
    BY <2>1, <2>4, ContinueRow, LedgerQuiet
  <2>5. CASE Commit(t) \/ Capture(t)
    <3>1. ~ Fresh(t) => row' = row /\ th'[t].pc \notin Recording
      BY <2>3, <2>5, SaveType DEF Commit, Capture
    <3>2. CASE Fresh(t)
      <4>1. row' = k.ex /\ k.pv = row.version /\ k.pc \in {"capture", "commit"}
        BY <2>5, <3>2, SaveType DEF Commit, Capture, Fresh, k
      <4>2. row.state \notin TerminalStates
        BY <1>0, <4>1 DEF PathOK
      <4>3. th'[t].pc \in Recording =>
              th'[t].pc = "record" /\ th'[t].op = k.op /\ Entries(k.op) # {} /\ k.ex.state = Target(k.op)
        <5>1. CASE Capture(t)
          BY <5>1, <3>2 DEF Capture, TypeOK, Task, Recording
        <5>2. CASE Commit(t)
          <6>1. \/ End(t)
                \/ GoOn(t, "record", k.ex) /\ Entries(k.op) # {} /\ k.ex.state = Target(k.op)
            BY <3>2, <5>2 DEF Commit, k
          <6>2. GoOn(t, "record", k.ex) => th'[t] = At(k, "record", k.ex)
            BY <1>0, GoOnType DEF PC, k
          <6>3. At(k, "record", k.ex).pc = "record" /\ At(k, "record", k.ex).op = k.op
            BY <1>0 DEF At, Task
          <6>4. QED
            BY <2>3, <6>1, <6>2, <6>3
        <5>3. QED
          BY <2>5, <5>1, <5>2
      <4>4. QED
        BY <2>1, <4>1, <4>2, <4>3, ContinueRow, LedgerSaved DEF Recording
    <3>3. QED
      BY <2>4, <3>1, <3>2
  <2>6. CASE Authorize(t) \/ CallAnswered(t) \/ CallFailed(t)
    <3>1. row' = row
      BY <2>6 DEF Authorize, CallAnswered, CallFailed
    <3>2. "commit" \in PC \ Recording
      BY DEF PC, Recording
    <3>3. th'[t].pc \notin Recording
      BY <2>2, <2>3, <2>6, <3>2 DEF Authorize, CallAnswered, CallFailed
    <3>4. QED
      BY <2>4, <3>1, <3>3
  <2>7. CASE SweepExpires(t)
    BY <2>3, <2>4, <2>7 DEF SweepExpires, BeginClose, Begin, TypeOK, Recording
  <2>8. QED
    BY <1>2, <2>5, <2>6, <2>7 DEF Continue
<1>3. QED
  BY <1>1, <1>2

LEMMA NextLedger ==
  ASSUME TypeOK, EngineInv, PathInv, LedgerInv, [Next]_vars
  PROVE  LedgerInv'
<1>1. ASSUME NEW t \in Thread, Request(t) PROVE LedgerInv'
  BY <1>1, RequestShape, LedgerQuiet
<1>2. ASSUME NEW t \in Thread, Continue(t) PROVE LedgerInv'
  BY <1>2, ContinueType, ContinueLedger
<1>3. CASE StartWithNothingToRecover \/ DeadlinePasses \/ UNCHANGED vars
  BY <1>3 DEF StartWithNothingToRecover, DeadlinePasses, vars, LedgerInv, LedgerIsJustified
<1>4. CASE Crash
  <2>1. row' = row /\ ledger' = ledger /\ \A t \in Thread : th'[t].pc \notin Recording
    BY <1>4 DEF Crash, Idle, Recording
  <2>2. QED
    BY <2>1 DEF LedgerInv, LedgerIsJustified, Recording
<1>5. QED
  BY <1>1, <1>2, <1>3, <1>4 DEF Next

-----------------------------------------------------------------------------
(* PaymentInv, for the operations behind the endpoints.                    *)

Late == {"VERIFIED", "DISPUTED"} \union TerminalStates

LEMMA LateStays ==
  ASSUME NEW s \in State, NEW d \in {s} \union Transitions[s], s \in {"VERIFIED", "DISPUTED"}
  PROVE  d \in Late
  BY DEF Transitions, State, Late, TerminalStates

LEMMA SettleFrom ==
  ASSUME NEW s \in State, CanTransition(s, "SETTLED")
  PROVE  s \in {"VERIFIED", "DISPUTED"}
  BY DEF CanTransition, Transitions, State

LEMMA VerifiedSettles ==
  ASSUME NEW s \in {"VERIFIED", "DISPUTED"}
  PROVE  CanTransition(s, "SETTLED")
  BY DEF CanTransition, Transitions, State

\* The part of PaymentInv about a thread with task k, when the row is in state s.
PayOK(k, s) == /\ PaidOK(k.ex)
               /\ k.op # "confirm_local"
               /\ k.pc \in {"capture", "call"} =>
                    /\ k.ex.intent.action = "settle" => s \in Late
                    /\ k.op # "recover" => /\ k.op \in SettleOp \union RefundOp
                                          /\ k.ex.intent.action = Action(k.op)

LEMMA PaymentParts ==
  PaymentInv <=> /\ PaidOK(row)
                 /\ row.handle # NoHandle => holds[row.handle] # "none"
                 /\ \A t \in Thread : PayOK(th[t], row.state)
  BY DEF PaymentInv, PayOK, Late

LEMMA PaymentPartsNext ==
  PaymentInv' <=> /\ PaidOK(row')
                  /\ row'.handle # NoHandle => holds'[row'.handle] # "none"
                  /\ \A t \in Thread : PayOK(th'[t], row'.state)
  BY DEF PaymentInv, PayOK, Late

\* The rail never forgets a hold.
HoldsStay == \A h \in Handle : holds[h] # "none" => holds'[h] # "none"

LEMMA PayLocal ==
  ASSUME TypeOK, PaymentInv, NEW t \in Thread, row' = row, HoldsStay,
         \A u \in Thread \ {t} : th'[u] = th[u], PayOK(th'[t], row.state)
  PROVE  PaymentInv'
<1>1. row.handle # NoHandle => row.handle \in Handle
  BY DEF TypeOK, Row
<1>2. QED
  BY <1>1, PaymentParts, PaymentPartsNext DEF HoldsStay

LEMMA PaySaved ==
  ASSUME TypeOK, EngineInv, PathInv, PaymentInv, NEW t \in Thread, Save(t), Fresh(t),
         th[t].pc \in {"capture", "commit"}, holds' = holds,
         \A u \in Thread \ {t} : th'[u] = th[u], PayOK(th'[t], th[t].ex.state)
  PROVE  PaymentInv'
<1> DEFINE e == th[t].ex
<1>1. /\ row' = e /\ e \in Row /\ row \in Row /\ row.state \in State
      /\ PathOK(th[t], row, holds, vdc.ref) /\ th[t].pv = row.version
  BY SaveType DEF TypeOK, Task, PathInv, Fresh, Row
<1>2. row.state \notin TerminalStates
  BY <1>1 DEF PathOK
<1>3. e.state \in {row.state} \union Transitions[row.state]
  BY <1>1 DEF PathOK, Follows
<1>4. row.state \in Late => e.state \in Late
  BY <1>1, <1>2, <1>3, LateStays DEF Late
<1>5. e.handle # NoHandle => holds[e.handle] # "none"
  BY <1>1, PaymentParts DEF PathOK, Follows
<1>6. PaidOK(e)
  BY PaymentParts DEF PayOK
<1> HIDE DEF e
<1>7. ASSUME NEW u \in Thread PROVE PayOK(th'[u], row'.state)
  <2>1. CASE u = t
    BY <1>1, <2>1 DEF e
  <2>2. CASE u # t
    BY <1>1, <1>4, <2>2, PaymentParts DEF PayOK
  <2>3. QED
    BY <2>1, <2>2
<1>8. QED
  BY <1>1, <1>5, <1>6, <1>7, PaymentPartsNext

LEMMA IdlePay == ASSUME NEW s PROVE PayOK(Idle, s)
  BY DEF PayOK, Idle, PaidOK, Proposed, NoIntent

LEMMA InitPay == Init => PaymentInv
<1> SUFFICES ASSUME Init PROVE PaymentInv
  OBVIOUS
<1>1. \A t \in Thread : PayOK(th[t], row.state)
  BY IdlePay DEF Init
<1>2. PaidOK(row) /\ row.handle = NoHandle
  BY DEF Init, PaidOK, Proposed, NoIntent
<1>3. QED
  BY <1>1, <1>2, PaymentParts

LEMMA BeginPay ==
  ASSUME TypeOK, PaymentInv, NEW t \in Thread, NEW o \in AllOps, NEW p \in PC, NEW r \in Row,
         Begin(t, o, p, r), o # "confirm_local", PaidOK(r),
         p \in {"capture", "call"} =>
           /\ r.intent.action = "settle" => row.state \in Late
           /\ o # "recover" => o \in SettleOp \union RefundOp /\ r.intent.action = Action(o)
  PROVE  PaymentInv'
<1>1. PICK d \in Docs(o) :
        th' = [th EXCEPT ![t] = [pc |-> p, op |-> o, ex |-> r, vdc |-> d, pv |-> row.version]]
  BY DEF Begin
<1>2. th'[t] = [pc |-> p, op |-> o, ex |-> r, vdc |-> d, pv |-> row.version]
      /\ \A u \in Thread \ {t} : th'[u] = th[u]
  BY <1>1 DEF TypeOK
<1>3. PayOK(th'[t], row.state)
  BY <1>2 DEF PayOK
<1>4. row' = row /\ HoldsStay
  BY DEF Begin, HoldsStay
<1>5. QED
  BY <1>2, <1>3, <1>4, PayLocal

LEMMA CapturedAction ==
  ASSUME NEW r \in Row, NEW o \in AllOps, MustMove(r)
  PROVE  Captured(r, o).intent.action = Action(o)
<1> DEFINE q == Bumped(r)
           i == [action |-> Action(o), handle |-> r.handle, status |-> "pending"]
<1>1. q \in Row /\ i.action = Action(o)
  BY BumpedType
<1> HIDE DEF q, i
<1>2. [q EXCEPT !.intent = i].intent = i
  BY <1>1 DEF Row
<1>3. QED
  BY <1>1, <1>2 DEF Captured, q, i

LEMMA BeginClosePay ==
  ASSUME TypeOK, EngineInv, PaymentInv, NEW t \in Thread,
         NEW o \in (SettleOp \union RefundOp) \ {"confirm_local"}, NEW r \in Row,
         Like(r, row), o \in SettleOp => CanTransition(row.state, "SETTLED"), BeginClose(t, o, r)
  PROVE  PaymentInv'
<1>0. /\ row \in Row /\ row.state \in State /\ o \in AllOps /\ PaidOK(r) /\ o # "recover"
      /\ r.state = row.state
  BY PaymentParts DEF TypeOK, Row, AllOps, Like, PaidOK, SettleOp, RefundOp
<1>1. CASE MustMove(r)
  <2> DEFINE q == Captured(r, o)
  <2>1. q \in Row /\ q.state = row.state /\ q.receipt = "none" /\ q.intent.action = Action(o)
    BY <1>0, <1>1, CapturedType, CapturedAction DEF Like, MustMove
  <2>2. Begin(t, o, "capture", q)
    BY <1>1 DEF BeginClose
  <2> HIDE DEF q
  <2>3. q.intent.action = "settle" => row.state \in {"VERIFIED", "DISPUTED"}
    BY <1>0, <2>1, SettleFrom DEF Action
  <2>4. PaidOK(q)
    BY <2>1, <2>3 DEF PaidOK
  <2>5. QED
    BY <1>0, <2>1, <2>2, <2>3, <2>4, BeginPay DEF PC, Late
<1>2. CASE ~ MustMove(r)
  <2> DEFINE q == Closing(r, o)
  <2>1. q \in Row /\ q.state = Target(o) /\ q.receipt = r.receipt /\ q.intent = r.intent
    BY <1>0, ClosingType
  <2>2. Begin(t, o, "commit", q) /\ CanTransition(r.state, Target(o))
    BY <1>2 DEF BeginClose
  <2>3. r.state # "SETTLED" /\ q.state \in TerminalStates
    BY <1>0, <2>1, <2>2, TargetType, TransitionTarget DEF CanTransition, Transitions, State
  <2> HIDE DEF q
  <2>4. PaidOK(q)
    BY <1>0, <2>1, <2>3 DEF PaidOK
  <2>5. QED
    BY <1>0, <2>1, <2>2, <2>4, BeginPay DEF PC
<1>3. QED
  BY <1>1, <1>2

\* A request that saves a copy q in a state that is not terminal.
LEMMA AdvancePay ==
  ASSUME TypeOK, EngineInv, PaymentInv, NEW t \in Thread,
         NEW o \in AllOps \ {"confirm_local"}, NEW q \in Row, Begin(t, o, "commit", q),
         row.state \in Late => q.state \in Late,
         row.state # "SETTLED", q.receipt = row.receipt, q.intent = row.intent
  PROVE  PaymentInv'
<1>1. PaidOK(q)
  BY PaymentParts DEF PaidOK, Late
<1>2. QED
  BY <1>1, BeginPay DEF PC

LEMMA RequestPay ==
  ASSUME "confirm_local" \notin Ops, TypeOK, EngineInv, PaymentInv, NEW t \in Thread, Request(t)
  PROVE  PaymentInv'
<1>0. /\ row \in Row /\ row.state \in State /\ row.deadline \in Phase \union {NoDeadline}
      /\ Like(row, row) /\ RowOK(row, holds) /\ PaidOK(row)
  BY PaymentParts DEF TypeOK, Row, Like, EngineInv
<1>1. ASSUME NEW p \in Party, Contract(t, p) PROVE PaymentInv'
  <2> DEFINE acked == [row EXCEPT !.acks = @ \union {p}]
             q == IF acked.acks = Party THEN Advance(acked, "CONTRACTED", Deadline("escrow"))
                                        ELSE Bumped(acked)
  <2>1. acked \in Row /\ acked.receipt = row.receipt /\ acked.intent = row.intent
    BY <1>0 DEF Row
  <2>2. row.state = "PROPOSED" /\ Begin(t, "contract", "commit", q)
    BY <1>1 DEF Contract
  <2> HIDE DEF acked
  <2>3. q \in Row /\ q.receipt = row.receipt /\ q.intent = row.intent
    <3>1. "CONTRACTED" \in State /\ Deadline("escrow") \in Phase \union {NoDeadline}
      BY DeadlineType DEF State, Phase
    <3>2. QED
      BY <2>1, <2>2, <3>1, AdvanceType, BumpedType
  <2> HIDE DEF q
  <2>4. QED
    BY <2>2, <2>3, AdvancePay DEF AllOps, SettleOp, RefundOp, Late, TerminalStates
<1>2. CASE Escrow(t)
  BY <1>0, <1>2, BeginPay DEF Escrow, PC, AllOps
<1>3. CASE Deliver(t)
  <2> DEFINE q == Advance(row, "DELIVERED", Deadline("verify"))
  <2>1. q \in Row /\ q.receipt = row.receipt /\ q.intent = row.intent
    BY <1>0, AdvanceType, DeadlineType DEF State, Phase
  <2>2. Begin(t, "deliver", "commit", q) /\ CanTransition(row.state, "DELIVERED")
    BY <1>3 DEF Deliver
  <2>3. row.state \notin Late
    BY <1>0, <2>2 DEF CanTransition, Transitions, State, Late, TerminalStates
  <2> HIDE DEF q
  <2>4. QED
    BY <2>1, <2>2, <2>3, AdvancePay DEF AllOps, SettleOp, RefundOp, Late, TerminalStates
<1>4. CASE Verify(t)
  <2> DEFINE a == Advance(row, "VERIFIED", Deadline("confirm"))
             q == [a EXCEPT !.verdict = "passed"]
             r == [row EXCEPT !.verdict = "rejected"]
  <2>1. a \in Row /\ a.receipt = row.receipt /\ a.intent = row.intent
    BY <1>0, AdvanceType, DeadlineType DEF State, Phase
  <2>2. /\ CanTransition(row.state, "VERIFIED")
        /\ Begin(t, "verify", "commit", q) \/ BeginClose(t, "verify", r)
    BY <1>4 DEF Verify
  <2>3. row.state \notin Late
    BY <1>0, <2>2 DEF CanTransition, Transitions, State, Late, TerminalStates
  <2> HIDE DEF a
  <2>4. /\ q \in Row /\ q.receipt = row.receipt /\ q.intent = row.intent
        /\ r \in Row /\ Like(r, row)
    BY <1>0, <2>1 DEF Row, Like
  <2> HIDE DEF q, r
  <2>5. Begin(t, "verify", "commit", q) => PaymentInv'
    BY <2>3, <2>4, AdvancePay DEF AllOps, SettleOp, RefundOp, Late, TerminalStates
  <2>6. BeginClose(t, "verify", r) => PaymentInv'
    BY <2>4, BeginClosePay DEF SettleOp, RefundOp
  <2>7. QED
    BY <2>2, <2>5, <2>6
<1>5. CASE Dispute(t)
  <2> DEFINE a == Advance(row, "DISPUTED", row.deadline)
             q == [a EXCEPT !.dispute = "open"]
  <2>1. a \in Row /\ a.state = "DISPUTED" /\ a.receipt = row.receipt /\ a.intent = row.intent
    <3>1. "DISPUTED" \in State
      BY DEF State
    <3>2. QED
      BY <1>0, <3>1, AdvanceType
  <2>2. CanTransition(row.state, "DISPUTED") /\ Begin(t, "dispute", "commit", q)
    BY <1>5 DEF Dispute
  <2>3. row.state # "SETTLED"
    BY <1>0, <2>2, TransitionTarget DEF TerminalStates
  <2> HIDE DEF a
  <2>4. q \in Row /\ q.state = "DISPUTED" /\ q.receipt = row.receipt /\ q.intent = row.intent
    BY <2>1 DEF Row
  <2> HIDE DEF q
  <2>5. QED
    BY <2>2, <2>3, <2>4, AdvancePay DEF AllOps, SettleOp, RefundOp, Late
<1>6. ASSUME NEW o \in {"confirm", "resolve_settle", "resolve_reject", "cancel", "expire"},
             Close(t, o)
      PROVE  PaymentInv'
  <2>1. o \in (SettleOp \union RefundOp) \ {"confirm_local"}
        /\ (o \in SettleOp => Target(o) = "SETTLED")
    BY DEF SettleOp, RefundOp, Target
  <2>2. CanTransition(row.state, Target(o)) /\ BeginClose(t, o, row)
    BY <1>6 DEF Close
  <2>3. QED
    BY <1>0, <2>1, <2>2, BeginClosePay
<1>7. ~ ConfirmLocal(t)
  BY DEF ConfirmLocal, Free
<1>8. CASE SweepFinds(t)
  BY <1>0, <1>8, BeginPay DEF SweepFinds, AllOps, RefundOp, PC
<1>9. CASE Recover(t)
  BY <1>0, <1>9, BeginPay DEF Recover, AllOps, PC, PaidOK, Late
<1>10. QED
  BY <1>1, <1>2, <1>3, <1>4, <1>5, <1>6, <1>7, <1>8, <1>9
     DEF Request, IngestConfirmation, Resolve, Cancel, Expire

LEMMA EndPay ==
  ASSUME TypeOK, PaymentInv, NEW t \in Thread, End(t), row' = row, HoldsStay
  PROVE  PaymentInv'
<1>1. th'[t] = Idle /\ \A u \in Thread \ {t} : th'[u] = th[u]
  BY DEF End, TypeOK
<1>2. QED
  BY <1>1, IdlePay, PayLocal

LEMMA CommitPay ==
  ASSUME TypeOK, PaymentInv, NEW t \in Thread, NEW q \in Row, GoOn(t, "commit", q),
         row' = row, HoldsStay, PaidOK(q)
  PROVE  PaymentInv'
<1>1. /\ th'[t] = At(th[t], "commit", q)
      /\ \A u \in Thread \ {t} : th'[u] = th[u]
  BY GoOnType DEF PC
<1>2. At(th[t], "commit", q).pc = "commit" /\ At(th[t], "commit", q).ex = q
      /\ At(th[t], "commit", q).op = th[t].op
  BY DEF At, TypeOK, Task
<1>3. th[t].op # "confirm_local"
  BY PaymentParts DEF PayOK
<1>4. PayOK(th'[t], row.state)
  BY <1>1, <1>2, <1>3 DEF PayOK
<1>5. QED
  BY <1>1, <1>4, PayLocal

LEMMA RailStays ==
  ASSUME TypeOK, EngineInv, NEW t \in Thread, th[t].pc = "call", RailMoves(th[t].ex.intent)
  PROVE  HoldsStay
<1>1. th[t].ex.intent \in Intent
  BY CallInv
<1>2. /\ \A h \in Handle \ {th[t].ex.intent.handle} : holds'[h] = holds[h]
      /\ holds'[th[t].ex.intent.handle] # "none"
  BY <1>1, RailMovesType DEF OutcomeOf
<1>3. QED
  BY <1>2 DEF HoldsStay

\* What the answer of the rail makes of a copy to save is paid for.
LEMMA ReceiptedAction ==
  ASSUME NEW r \in Row, Pending(r)
  PROVE  Receipted(r).intent.action = r.intent.action
<1> DEFINE i == [r.intent EXCEPT !.status = "done"]
           x == OutcomeOf(r.intent)
<1>1. i \in Intent /\ i.action = r.intent.action
  BY PendingType DEF Intent
<1>2. Receipted(r) = [r EXCEPT !.receipt = x, !.intent = i]
  BY DEF Receipted, Row, OutcomeOf
<1> HIDE DEF i, x
<1>3. QED
  BY <1>1, <1>2 DEF Row

LEMMA RecoveredPaid ==
  ASSUME NEW r \in Row, Pending(r), PaidOK(r), r.state \notin TerminalStates
  PROVE  PaidOK(Recovered(r))
<1> DEFINE q == Receipted(r)
           target == IF r.intent.action = "settle" THEN "SETTLED" ELSE "EXPIRED_REFUNDED"
<1>1. q \in Row /\ q.state = r.state /\ q.receipt = OutcomeOf(r.intent)
      /\ q.intent.action = r.intent.action
  BY ReceiptedType, ReceiptedAction
<1>2. CASE r.intent.action = "settle"
  <2>1. CanTransition(r.state, "SETTLED")
    BY <1>2, VerifiedSettles DEF PaidOK
  <2>2. Recovered(r) = Advance(q, "SETTLED", NoDeadline)
    BY <1>2, <2>1 DEF Recovered
  <2> HIDE DEF q
  <2>3. Recovered(r).state = "SETTLED"
    <3>1. "SETTLED" \in State
      BY DEF State
    <3>2. QED
      BY <1>1, <2>2, <3>1, AdvanceType
  <2>4. QED
    BY <2>3 DEF PaidOK, TerminalStates
<1>3. CASE r.intent.action # "settle"
  <2>1. target \in State
    BY DEF State
  <2>2. \/ Recovered(r) = Advance(q, target, NoDeadline)
        \/ Recovered(r) = Bumped(q)
    BY DEF Recovered
  <2> HIDE DEF q, target
  <2>3. Recovered(r).intent = q.intent /\ Recovered(r).receipt = q.receipt
    BY <1>1, <2>1, <2>2, AdvanceType, BumpedType
  <2>4. q.receipt = "refunded" /\ q.intent.action # "settle"
    BY <1>1, <1>3 DEF OutcomeOf
  <2>5. QED
    BY <2>3, <2>4 DEF PaidOK
<1>4. QED
  BY <1>2, <1>3

LEMMA ClosingPaid ==
  ASSUME NEW r \in Row, Pending(r), NEW o \in SettleOp \union RefundOp,
         r.intent.action = Action(o)
  PROVE  PaidOK(Closing(Receipted(r), o))
<1> DEFINE q == Receipted(r)
<1>1. q \in Row /\ q.receipt = OutcomeOf(r.intent) /\ o \in AllOps
  BY ReceiptedType DEF AllOps
<1> HIDE DEF q
<1>2. /\ Closing(q, o).state = Target(o)
      /\ Closing(q, o).receipt = OutcomeOf(r.intent)
      /\ Target(o) \in TerminalStates
  BY <1>1, ClosingType, TargetType
<1>3. OutcomeOf(r.intent) = "settled" => Target(o) = "SETTLED"
  <2>1. CASE o \in SettleOp
    BY <2>1 DEF SettleOp, Target
  <2>2. CASE o \notin SettleOp
    BY <2>2 DEF OutcomeOf, Action
  <2>3. QED
    BY <2>1, <2>2
<1>4. QED
  BY <1>2, <1>3 DEF PaidOK, q

LEMMA ContinuePay ==
  ASSUME TypeOK, EngineInv, PathInv, PaymentInv, NEW t \in Thread, Continue(t)
  PROVE  PaymentInv'
<1> DEFINE e == th[t].ex
           k == th[t]
<1>0. /\ k \in Task /\ e \in Row /\ k.op \in AllOps /\ row \in Row /\ k.ex = e
      /\ row.state \in State /\ TaskOK(k, row, holds) /\ PathOK(k, row, holds, vdc.ref)
      /\ PayOK(k, row.state) /\ PaidOK(e) /\ PaidOK(row) /\ RowOK(e, holds)
  BY PaymentParts DEF TypeOK, Task, Row, EngineInv, PathInv, PayOK, TaskOK
<1> HIDE DEF e, k
<1>1. CASE Capture(t)
  <2>1. Save(t) /\ k.pc = "capture" /\ holds' = holds /\ HoldsStay
    BY <1>1 DEF Capture, HoldsStay, k
  <2>2. CASE Fresh(t)
    <3> DEFINE j == [k EXCEPT !.pc = "call", !.pv = e.version]
    <3>1. j.pc = "call" /\ j.ex = e /\ j.op = k.op
      BY <1>0 DEF Task, Row, e, k
    <3>2. th' = [th EXCEPT ![t] = j]
      BY <1>0, <1>1, <2>2 DEF Capture, TypeOK, Task, e, k
    <3> HIDE DEF j
    <3>3. th'[t] = j /\ \A u \in Thread \ {t} : th'[u] = th[u]
      BY <3>2 DEF TypeOK
    <3>4. e.state = row.state
      BY <1>0, <2>1, <2>2 DEF PathOK, Fresh, k
    <3>5. PayOK(j, e.state)
      BY <1>0, <2>1, <3>1, <3>4 DEF PayOK
    <3>6. QED
      BY <2>1, <2>2, <3>3, <3>5, PaySaved DEF e, k
  <2>3. CASE ~ Fresh(t)
    BY <1>1, <2>1, <2>3, SaveType, EndPay DEF Capture
  <2>4. QED
    BY <2>2, <2>3
<1>2. CASE Authorize(t)
  <2>1. row' = row /\ HoldsStay
    BY <1>2 DEF Authorize, HoldsStay
  <2>2. ASSUME CanTransition(e.state, "ESCROWED"), NEW h \in Handle,
               GoOn(t, "commit", [Advance(e, "ESCROWED", Deadline("deliver")) EXCEPT !.handle = h])
        PROVE  PaymentInv'
    <3> DEFINE a == Advance(e, "ESCROWED", Deadline("deliver"))
               q == [a EXCEPT !.handle = h]
    <3>1. a \in Row /\ a.receipt = e.receipt /\ a.intent = e.intent
      BY <1>0, AdvanceType, DeadlineType DEF State, Phase
    <3> HIDE DEF a
    <3>2. q \in Row /\ q.receipt = e.receipt /\ q.intent = e.intent /\ GoOn(t, "commit", q)
      BY <2>2, <3>1 DEF Row, a
    <3> HIDE DEF q
    <3>3. e.state \in State
      BY <1>0 DEF Row
    <3>4. e.state = "CONTRACTED"
      BY <2>2, <3>3, TransitionTarget
    <3>5. PaidOK(q)
      BY <1>0, <3>2, <3>4 DEF PaidOK, TerminalStates
    <3>6. QED
      BY <2>1, <3>2, <3>5, CommitPay
  <2>3. CASE End(t)
    BY <2>1, <2>3, EndPay
  <2>4. QED
    BY <1>2, <2>2, <2>3 DEF Authorize, e
<1>3. CASE CallAnswered(t)
  <2>1. row' = row /\ k.pc = "call" /\ HoldsStay /\ Pending(e)
    BY <1>0, <1>3, RailStays DEF CallAnswered, TaskOK, e, k
  <2>2. CASE End(t)
    BY <2>1, <2>2, EndPay
  <2>3. CASE GoOn(t, "commit", Recovered(e))
    <3>1. e.state \notin TerminalStates
      BY <1>0, <2>1 DEF RowOK
    <3>2. Recovered(e) \in Row /\ PaidOK(Recovered(e))
      BY <1>0, <2>1, <3>1, RecoveredType, RecoveredPaid
    <3>3. QED
      BY <2>1, <2>3, <3>2, CommitPay
  <2>4. CASE k.op # "recover" /\ GoOn(t, "commit", Closing(Receipted(e), k.op))
    <3>1. k.op \in SettleOp \union RefundOp /\ e.intent.action = Action(k.op)
      BY <1>0, <2>1, <2>4 DEF PayOK
    <3>2. Closing(Receipted(e), k.op) \in Row
      BY <1>0, <2>1, ReceiptedType, ClosingType
    <3>3. PaidOK(Closing(Receipted(e), k.op))
      BY <1>0, <2>1, <3>1, ClosingPaid
    <3>4. QED
      BY <2>1, <2>4, <3>2, <3>3, CommitPay
  <2>5. QED
    BY <1>3, <2>2, <2>3, <2>4 DEF CallAnswered, e, k
<1>4. CASE CallFailed(t)
  <2>1. row' = row /\ k.pc = "call" /\ Pending(e)
    BY <1>0, <1>4 DEF CallFailed, TaskOK, e, k
  <2>2. HoldsStay
    BY <1>4, RailStays DEF CallFailed, HoldsStay
  <2>3. CASE End(t)
    BY <2>1, <2>2, <2>3, EndPay
  <2>4. CASE GoOn(t, "commit", [Bumped(e) EXCEPT !.intent.status = "failed"])
    <3> DEFINE b == Bumped(e)
               i == [b.intent EXCEPT !.status = "failed"]
               q == [b EXCEPT !.intent = i]
    <3>1. b \in Row /\ Pending(b) /\ b.state = e.state /\ b.receipt = e.receipt
          /\ b.intent = e.intent
      BY <1>0, <2>1, BumpedType DEF Pending
    <3> HIDE DEF b
    <3>2. i \in Intent /\ i.action = e.intent.action
      BY <3>1, PendingType DEF Intent
    <3>3. q = [b EXCEPT !.intent.status = "failed"]
      BY <3>1 DEF Row
    <3> HIDE DEF i
    <3>4. q \in Row /\ q.state = e.state /\ q.receipt = e.receipt /\ q.intent = i
      BY <3>1, <3>2 DEF Row
    <3>5. GoOn(t, "commit", q)
      BY <2>4, <3>3 DEF b
    <3> HIDE DEF q
    <3>6. PaidOK(q)
      BY <1>0, <3>2, <3>4 DEF PaidOK
    <3>7. QED
      BY <2>1, <2>2, <3>4, <3>5, <3>6, CommitPay
  <2>5. QED
    BY <1>4, <2>3, <2>4 DEF CallFailed, e
<1>5. CASE Commit(t)
  <2>1. Save(t) /\ k.pc = "commit" /\ holds' = holds /\ HoldsStay
    BY <1>5 DEF Commit, HoldsStay, k
  <2>2. CASE ~ Fresh(t)
    BY <1>5, <2>1, <2>2, SaveType, EndPay DEF Commit
  <2>3. CASE Fresh(t) /\ End(t)
    <3>1. th'[t] = Idle /\ \A u \in Thread \ {t} : th'[u] = th[u]
      BY <2>3 DEF End, TypeOK
    <3>2. QED
      BY <2>1, <2>3, <3>1, IdlePay, PaySaved DEF k
  <2>4. CASE Fresh(t) /\ GoOn(t, "record", e)
    <3> DEFINE j == At(k, "record", e)
    <3>1. th'[t] = j /\ \A u \in Thread \ {t} : th'[u] = th[u]
      BY <1>0, <2>4, GoOnType DEF PC, k
    <3>2. j.pc = "record" /\ j.ex = e /\ j.op = k.op
      BY <1>0 DEF At, Task, e, k
    <3> HIDE DEF j
    <3>3. PayOK(j, e.state)
      BY <1>0, <3>2 DEF PayOK
    <3>4. QED
      BY <2>1, <2>4, <3>1, <3>3, PaySaved DEF k, e
  <2>5. QED
    BY <1>5, <2>2, <2>3, <2>4 DEF Commit, e
<1>6. CASE Record(t)
  <2>1. row' = row /\ HoldsStay
    BY <1>6 DEF Record, HoldsStay
  <2>2. CASE End(t)
    BY <2>1, <2>2, EndPay
  <2>3. CASE GoOn(t, "record_client", e)
    <3> DEFINE j == At(k, "record_client", e)
    <3>1. j.pc = "record_client" /\ j.ex = e /\ j.op = k.op
      BY <1>0 DEF At, Task, e, k
    <3>2. th'[t] = j /\ \A u \in Thread \ {t} : th'[u] = th[u]
      BY <1>0, <2>3, GoOnType DEF PC, k
    <3> HIDE DEF j
    <3>3. PayOK(j, row.state)
      BY <1>0, <3>1 DEF PayOK
    <3>4. QED
      BY <2>1, <3>2, <3>3, PayLocal
  <2>4. QED
    BY <1>6, <2>2, <2>3 DEF Record, e
<1>7. CASE SweepExpires(t)
  <2>1. Like(row, row) /\ "sweep" \in (SettleOp \union RefundOp) \ {"confirm_local"}
        /\ "sweep" \notin SettleOp
    BY DEF Like, SettleOp, RefundOp
  <2>2. CASE BeginClose(t, "sweep", row)
    BY <1>0, <2>1, <2>2, BeginClosePay
  <2>3. CASE End(t) /\ UNCHANGED <<row, holds>>
    BY <2>3, EndPay DEF HoldsStay
  <2>4. QED
    BY <1>7, <2>2, <2>3 DEF SweepExpires
<1>8. QED
  BY <1>1, <1>2, <1>3, <1>4, <1>5, <1>6, <1>7 DEF Continue

LEMMA NextPay ==
  ASSUME "confirm_local" \notin Ops, TypeOK, EngineInv, PathInv, PaymentInv, [Next]_vars
  PROVE  PaymentInv'
<1>1. ASSUME NEW t \in Thread, Request(t) \/ Continue(t) PROVE PaymentInv'
  BY <1>1, RequestPay, ContinuePay
<1>2. CASE StartWithNothingToRecover \/ DeadlinePasses \/ UNCHANGED vars
  BY <1>2, PaymentParts, PaymentPartsNext DEF StartWithNothingToRecover, DeadlinePasses, vars
<1>3. CASE Crash
  <2>1. row' = row /\ holds' = holds /\ \A t \in Thread : th'[t] = Idle
    BY <1>3 DEF Crash
  <2>2. QED
    BY <2>1, IdlePay, PaymentParts, PaymentPartsNext
<1>4. QED
  BY <1>1, <1>2, <1>3 DEF Next

-----------------------------------------------------------------------------
(* Every step of the engine is a step of Lifecycle or changes nothing of it. *)

\* What became of the escrow that row r refers to.
MoneyOf(r, hs) == IF r.handle = NoHandle THEN "none" ELSE hs[r.handle]

LEMMA PromisedTable ==
  ASSUME NEW s \in State, NEW d
  PROVE  /\ Promise!CanTransition(s, d) <=> CanTransition(s, d)
         /\ Promise!TerminalStates = TerminalStates
         /\ Promise!State = State
         /\ Promise!RefundStates = RefundStates
  BY DEF Promise!CanTransition, Promise!Transitions, Promise!TerminalStates, Promise!State,
         Promise!RefundStates, CanTransition, Transitions, TerminalStates, State, RefundStates

LEMMA PromisedVars ==
  row'.state = row.state /\ MoneyOf(row', holds') = MoneyOf(row, holds)
    => UNCHANGED Promise!lifecycleVars
  BY DEF MoneyOf, Promise!lifecycleVars

LEMMA HandleHeld ==
  ASSUME TypeOK, EngineInv, PaymentInv, row.handle # NoHandle
  PROVE  /\ row.handle \in Handle
         /\ holds[row.handle] \in {"held"} \union Outcome
         /\ row.state \in TerminalStates => holds[row.handle] = row.receipt
         /\ row.state \in TerminalStates => row.receipt \in Outcome
  BY DEF TypeOK, EngineInv, PaymentInv, Row, RowOK

\* The exchange is closed, and its money permits it.
LEMMA PromisedClose ==
  ASSUME NEW s \in State, row.state \in State, CanTransition(row.state, s), row'.state = s,
         MoneyOf(row', holds') = MoneyOf(row, holds),
         \/ MoneyOf(row, holds) = "none" /\ s \in RefundStates
         \/ MoneyOf(row, holds) = "settled" /\ s = "SETTLED"
         \/ MoneyOf(row, holds) = "refunded" /\ s \in TerminalStates
  PROVE  Promise!Next
<1>1. s \in Promise!Closed[MoneyOf(row, holds)]
  BY PromisedTable DEF Promise!Closed, Promise!Money
<1>2. Promise!Close(s)
  BY <1>1, PromisedTable DEF Promise!Close, MoneyOf
<1>3. QED
  BY <1>2, PromisedTable DEF Promise!Next

\* A save of the copy of a thread.
LEMMA PromisedSave ==
  ASSUME TypeOK, EngineInv, PathInv, PaymentInv, TypeOK', EngineInv', PaymentInv',
         NEW t \in Thread, Save(t), Fresh(t), th[t].pc \in {"capture", "commit"}, holds' = holds
  PROVE  [Promise!Next]_Promise!lifecycleVars
<1> DEFINE e == th[t].ex
<1>1. /\ row' = e /\ e \in Row /\ row \in Row /\ row.state \in State /\ e.state \in State
      /\ PathOK(th[t], row, holds, vdc.ref) /\ th[t].pv = row.version
  BY SaveType DEF TypeOK, Task, PathInv, Fresh, Row
<1>2. \/ e.state = row.state /\ e.handle = row.handle
      \/ e.state \in Transitions[row.state] /\ e.handle = row.handle /\ e.state # "ESCROWED"
      \/ /\ row.state = "CONTRACTED" /\ e.state = "ESCROWED" /\ e.handle \in Handle
         /\ holds[e.handle] = "held"
  BY <1>1 DEF PathOK, Follows, Transitions, State
<1> HIDE DEF e
<1>3. CASE e.state = row.state /\ e.handle = row.handle
  BY <1>1, <1>3, PromisedVars DEF MoneyOf
<1>4. CASE e.state \in Transitions[row.state] /\ e.handle = row.handle /\ e.state # "ESCROWED"
  <2> DEFINE m == MoneyOf(row, holds)
  <2>1. MoneyOf(row', holds') = m /\ CanTransition(row.state, e.state)
    BY <1>1, <1>4 DEF MoneyOf, CanTransition
  <2>2. CASE e.state \notin TerminalStates
    <3>1. Promise!Advance(e.state)
      BY <1>1, <1>4, <2>1, <2>2, PromisedTable DEF Promise!Advance, MoneyOf
    <3>2. QED
      BY <1>1, <3>1, PromisedTable DEF Promise!Next
  <2>3. CASE e.state \in TerminalStates
    <3>1. CASE row'.handle = NoHandle
      <4>1. e.state \in RefundStates /\ m = "none"
        BY <1>1, <1>4, <2>3, <3>1 DEF PathOK, MoneyOf, RefundStates, Delivered, e
      <4>2. QED
        BY <1>1, <2>1, <4>1, PromisedClose DEF m
    <3>2. CASE row'.handle # NoHandle
      <4>1. /\ e.handle \in Handle /\ holds[e.handle] = e.receipt /\ e.receipt \in Outcome
            /\ e.receipt = "settled" => e.state = "SETTLED"
        BY <1>1, <2>3, <3>2 DEF TypeOK, EngineInv, PaymentInv, RowOK, Row, PaidOK
      <4>2. m = e.receipt
        BY <1>1, <1>4, <3>2, <4>1 DEF MoneyOf
      <4>3. QED
        BY <1>1, <2>1, <2>3, <4>1, <4>2, PromisedClose DEF m, Outcome
    <3>3. QED
      BY <3>1, <3>2
  <2>4. QED
    BY <2>2, <2>3
<1>5. CASE /\ row.state = "CONTRACTED" /\ e.state = "ESCROWED" /\ e.handle \in Handle
           /\ holds[e.handle] = "held"
  <2>1. row.handle = NoHandle
    BY <1>5 DEF EngineInv, RowOK
  <2>2. CanTransition(row.state, "ESCROWED") /\ e.handle # NoHandle
    BY <1>5, EngineAssumption DEF CanTransition, Transitions, State
  <2>3. Promise!Escrow
    BY <1>1, <1>5, <2>1, <2>2, PromisedTable DEF Promise!Escrow
  <2>4. QED
    BY <2>3 DEF Promise!Next
<1>6. QED
  BY <1>2, <1>3, <1>4, <1>5

\* The rail settles or refunds the hold of the row, or repeats its answer.
LEMMA PromisedCall ==
  ASSUME TypeOK, EngineInv, PaymentInv, NEW t \in Thread, th[t].pc = "call",
         RailMoves(th[t].ex.intent), row' = row
  PROVE  [Promise!Next]_Promise!lifecycleVars
<1> DEFINE e == th[t].ex
           i == e.intent
           h == row.handle
<1>1. /\ i \in Intent /\ i.handle = e.handle /\ e.handle = h
      /\ holds'[h] = OutcomeOf(i) /\ holds[h] \in {"held", OutcomeOf(i)}
  <2>1. i \in Intent /\ i.handle = e.handle /\ holds'[e.handle] = OutcomeOf(i)
    BY CallInv
  <2>2. e.handle = h
    BY DEF EngineInv, TaskOK
  <2>3. QED
    BY <2>1, <2>2 DEF RailMoves, OutcomeOf
<1>2. h \in Handle /\ h # NoHandle /\ row \in Row /\ row.state \in State
  BY <1>1, EngineAssumption DEF Intent, TypeOK, Row
<1>3. /\ MoneyOf(row, holds) = holds[h] /\ MoneyOf(row', holds') = OutcomeOf(i)
      /\ row'.state = row.state
  BY <1>1, <1>2 DEF MoneyOf
<1>4. i.action = "settle" => row.state \in Late
  BY PaymentParts DEF PayOK
<1> HIDE DEF i, e
<1>5. CASE holds[h] = OutcomeOf(i)
  BY <1>3, <1>5, PromisedVars
<1>6. CASE holds[h] = "held"
  <2>1. row.state \notin TerminalStates
    BY <1>2, <1>6, HandleHeld DEF Outcome
  <2>2. CASE i.action = "settle"
    <3>1. row.state \in {"VERIFIED", "DISPUTED"}
      BY <1>4, <2>1, <2>2 DEF Late
    <3>2. Promise!Pay
      BY <1>3, <1>6, <2>2, <3>1 DEF Promise!Pay, MoneyOf, OutcomeOf
    <3>3. QED
      BY <3>2 DEF Promise!Next
  <2>3. CASE i.action # "settle"
    <3>1. Promise!Refund
      BY <1>2, <1>3, <1>6, <2>1, <2>3, PromisedTable DEF Promise!Refund, MoneyOf, OutcomeOf
    <3>2. QED
      BY <3>1 DEF Promise!Next
  <2>4. QED
    BY <2>2, <2>3
<1>7. QED
  BY <1>1, <1>5, <1>6

LEMMA PromisedStep ==
  ASSUME TypeOK, EngineInv, PathInv, PaymentInv, TypeOK', EngineInv', PaymentInv', [Next]_vars
  PROVE  [Promise!Next]_Promise!lifecycleVars
<1>1. CASE row' = row /\ holds' = holds
  BY <1>1, PromisedVars
<1>2. ASSUME NEW t \in Thread, Request(t) PROVE row' = row /\ holds' = holds
  BY <1>2, RequestShape
<1>3. ASSUME NEW t \in Thread, Continue(t), ~ (row' = row /\ holds' = holds)
      PROVE  [Promise!Next]_Promise!lifecycleVars
  <2>1. CASE row' # row
    BY <1>3, <2>1, ContinueRow, PromisedSave
  <2>2. CASE Authorize(t)
    <3>1. row' = row /\ \A h \in Handle : holds[h] # "none" => holds'[h] = holds[h]
      BY <2>2 DEF Authorize
    <3>2. row.handle # NoHandle => holds'[row.handle] = holds[row.handle]
      BY <3>1, HandleHeld DEF Outcome
    <3>3. QED
      BY <3>1, <3>2, PromisedVars DEF MoneyOf
  <2>3. CASE CallAnswered(t) \/ CallFailed(t)
    <3>1. row' = row /\ th[t].pc = "call" /\ (RailMoves(th[t].ex.intent) \/ holds' = holds)
      BY <2>3 DEF CallAnswered, CallFailed
    <3>2. QED
      BY <1>3, <3>1, PromisedCall
  <2>4. CASE ~ (Authorize(t) \/ CallAnswered(t) \/ CallFailed(t))
    <3>1. holds' = holds
      BY <1>3, <2>4 DEF Continue, Capture, Commit, Record, SweepExpires, BeginClose, Begin
    <3>2. QED
      BY <1>3, <2>1, <3>1
  <2>5. QED
    BY <2>2, <2>3, <2>4
<1>4. CASE StartWithNothingToRecover \/ DeadlinePasses \/ Crash \/ UNCHANGED vars
  BY <1>1, <1>4 DEF StartWithNothingToRecover, DeadlinePasses, Crash, vars
<1>5. QED
  BY <1>1, <1>2, <1>3, <1>4 DEF Next

-----------------------------------------------------------------------------
(* The theorems.                                                           *)

(* Whatever races and wherever the process dies, a save that SQLiteStore   *)
(* accepts follows the lifecycle table from the saved state, and the row   *)
(* has the hold and the delivery that its state calls for.                 *)
THEOREM SavesFollowTheTable == Spec => []PathInv
<1>1. PathInv /\ TypeOK /\ EngineInv /\ [Next]_vars => PathInv'
  BY NextPath
<1>2. QED
  BY <1>1, InitPath, EngineIsSound, PTL DEF Spec

(* store.py, save: the VDC is written in a transaction before the row that *)
(* refers to it, and a delivered exchange keeps its delivery.              *)
THEOREM DeliveriesAreStored == Spec => []DeliveryIsStored
<1>1. PathInv => DeliveryIsStored
  BY DEF PathInv
<1>2. QED
  BY <1>1, SavesFollowTheTable, PTL

(* reputation.py, record_settlement and record_outcome: an entry exists    *)
(* for an exchange that was saved with that outcome, and is appended once. *)
THEOREM LedgerIsAlwaysJustified == Spec => []LedgerIsJustified
<1>1. Init => LedgerInv
  BY DEF Init, LedgerInv, LedgerIsJustified, Idle, Recording, Entry
<1>2. LedgerInv /\ TypeOK /\ EngineInv /\ PathInv /\ [Next]_vars => LedgerInv'
  BY NextLedger
<1>3. LedgerInv => LedgerIsJustified
  BY DEF LedgerInv
<1>4. QED
  BY <1>1, <1>2, <1>3, EngineIsSound, SavesFollowTheTable, PTL DEF Spec

(* With the operations that the node's endpoints offer, the in-process     *)
(* confirm left out, money is paid, or meant to be paid, only for a        *)
(* delivery that was verified.                                             *)
THEOREM PaymentsAreVerified ==
  ASSUME "confirm_local" \notin Ops
  PROVE  Spec => []PaymentInv
<1>1. PaymentInv /\ TypeOK /\ EngineInv /\ PathInv /\ [Next]_vars => PaymentInv'
  BY NextPay
<1>2. QED
  BY <1>1, InitPay, EngineIsSound, SavesFollowTheTable, PTL DEF Spec

(* The engine, with those operations, implements the promise of Lifecycle: *)
(* threads, crashes, lost answers and recovery included, the saved state   *)
(* follows the table, the escrow moves once, the provider is paid after    *)
(* the verification, and nothing is closed while its money is held.        *)
THEOREM EngineImplementsLifecycle ==
  ASSUME "confirm_local" \notin Ops
  PROVE  Spec => ImplementsLifecycle
<1>1. Init => Promise!Init
  BY DEF Init, Proposed, Promise!Init
<1>2. TypeOK /\ EngineInv /\ PathInv /\ PaymentInv
        /\ TypeOK' /\ EngineInv' /\ PaymentInv' /\ [Next]_vars
        => [Promise!Next]_Promise!lifecycleVars
  BY PromisedStep
<1>3. QED
  BY <1>1, <1>2, EngineIsSound, SavesFollowTheTable, PaymentsAreVerified, PTL
     DEF Spec, ImplementsLifecycle, Promise!Spec
=============================================================================
