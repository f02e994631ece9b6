------------------------------- MODULE Stake -------------------------------
(***************************************************************************)
(* Stakes and witnesses of one exchange: lock, release and slash of a      *)
(* stake, the attachment of a witness to the signed document, and the gate *)
(* that counts stakes.  src/novapanda/v2/stake.py, v2/witness.py,          *)
(* exchange.py attach_witness_v2 and ingest_confirmation, store.py,        *)
(* reputation_gate.py.                                                     *)
(*                                                                         *)
(* Every call reads, then writes; the threads of the server take no lock.  *)
(***************************************************************************)
EXTENDS Naturals, FiniteSets

CONSTANTS
  Witness, NoWitness,
  Worker,       \* threads of the server
  MaxSecond,    \* bound on the clock
  MaxVersion,   \* bound on the engine's saves
  RequireStake, \* witness_require_stake
  GateMin, Bonus, BonusCap  \* reputation_min_score, and what a stake adds, in hundredths

ASSUME StakeAssumption ==
  /\ NoWitness \notin Witness
  /\ MaxSecond \in Nat /\ MaxVersion \in Nat /\ RequireStake \in BOOLEAN
  /\ GateMin \in Nat /\ Bonus \in Nat /\ BonusCap \in Nat

VARIABLES
  second,     \* the clock: a stake is named after its agent and the second
  stake,      \* status of the stakes in the table
  call,       \* what a thread is in the middle of
  witnesses,  \* witnesses in the document of the exchange
  version,    \* version of the exchange
  confirmed,  \* the exchange is settled by a confirmation
  closed,     \* history: stakes whose end was answered
  tooLate,    \* history: whether a release that began after that was carried out
  answered,   \* history: witnesses whose attachment was answered
  overlapped, \* history: those whose attachment another thread had read before
  replaced    \* history: those that a confirmation left out of the document

stakeVars == <<second, stake, call, witnesses, version, confirmed, closed, tooLate, answered, overlapped, replaced>>
docVars   == <<witnesses, version, confirmed, answered, overlapped, replaced>>

StakeId == Witness \X (0 .. MaxSecond)
NoStake == <<NoWitness, 0>>
Resting == [op |-> "none", id |-> NoStake, late |-> FALSE, docs |-> {}, version |-> 0]

StakeInit ==
  /\ second = 0 /\ stake = [s \in StakeId |-> "none"]
  /\ call = [t \in Worker |-> Resting]
  /\ witnesses = {} /\ version = 0 /\ confirmed = FALSE
  /\ closed = {} /\ tooLate = FALSE /\ answered = {} /\ overlapped = {} /\ replaced = {}

Begins(t, c) == call[t] = Resting /\ call' = [call EXCEPT ![t] = c]
Answers(t) == call' = [call EXCEPT ![t] = Resting]

NextSecond ==
  /\ second < MaxSecond
  /\ second' = second + 1
  /\ UNCHANGED <<stake, call, closed, tooLate, docVars>>
---------------------------------------------------------------------------
(* Stakes.                                                                 *)

\* lock_stake: a second one of the same agent in the same second replaces the first,
\* whatever has become of it.
LockStake(w) ==
  /\ stake' = [stake EXCEPT ![<<w, second>>] = "locked"]
  /\ closed' = closed \ {<<w, second>>}
  /\ UNCHANGED <<second, call, tooLate, docVars>>

\* Mutant: the status is not looked at.
BeginRelease_Unchecked(t, s) ==
  /\ stake[s] # "none"
  /\ Begins(t, [Resting EXCEPT !.op = "release", !.id = s, !.late = s \in closed])
  /\ UNCHANGED <<second, stake, closed, tooLate, docVars>>

\* release_stake and slash_stake_record read the stake; only release looks at its status,
BeginRelease(t, s) ==
  /\ stake[s] = "locked"
  /\ Begins(t, [Resting EXCEPT !.op = "release", !.id = s, !.late = s \in closed])
  /\ UNCHANGED <<second, stake, closed, tooLate, docVars>>

\* and slash takes the stake of its caller when it knows none.
BeginSlash(t, s) ==
  /\ Begins(t, [Resting EXCEPT !.op = "slash", !.id = s])
  /\ UNCHANGED <<second, stake, closed, tooLate, docVars>>

\* They write what they have read with the new status.
EndStake(t) ==
  /\ call[t].op \in {"release", "slash"}
  /\ stake' = [stake EXCEPT ![call[t].id] = IF call[t].op = "release" THEN "released" ELSE "slashed"]
  /\ closed' = closed \cup {call[t].id}
  /\ tooLate' = (tooLate \/ call[t].late)
  /\ Answers(t)
  /\ UNCHANGED <<second, docVars>>
---------------------------------------------------------------------------
(* The document.                                                           *)

\* find_locked_stake
HasStake(w) == \E n \in 0 .. MaxSecond : stake[<<w, n>>] = "locked"

\* What a witness may send: for this document or another, with the hash of its result
\* or of something else, signed or not.
Attestation == [witness : Witness, document : {"this", "other"}, result : {"this", "other"},
                signed : BOOLEAN]

\* validate_witness_attestation
WellFormed(a) == a.signed

\* attach_witness_to_vdc
Matches(a) == a.document = "this" /\ a.result = "this"

Copy(op, w) == [Resting EXCEPT !.op = op, !.id = <<w, 0>>, !.docs = witnesses, !.version = version]

\* attach_witness_v2 checks the attestation, reads the exchange with its document, looks
\* for the stake and compares.
BeginAttach(t, a) ==
  /\ WellFormed(a)
  /\ RequireStake => HasStake(a.witness)
  /\ Matches(a)
  /\ Begins(t, Copy("attach", a.witness))
  /\ UNCHANGED <<second, stake, closed, tooLate, docVars>>

\* Another operation of the engine reads them as well, ...
BeginOther(t) ==
  /\ version < MaxVersion
  /\ Begins(t, Copy("other", NoWitness))
  /\ UNCHANGED <<second, stake, closed, tooLate, docVars>>

\* ... but ingest_confirmation takes the document from the request: it has the witnesses
\* that the provider has signed for.  The signature of a delivered document does not
\* cover the witnesses that were attached after it.
BeginConfirm(t, docs) ==
  /\ version < MaxVersion /\ ~confirmed
  /\ Begins(t, [Copy("confirm", NoWitness) EXCEPT !.docs = docs])
  /\ UNCHANGED <<second, stake, closed, tooLate, docVars>>

Holding(t) == {u \in Worker \ {t} : call[u].op \in {"attach", "other", "confirm"}}

\* save writes the document first, also when the version check then fails; the
\* attachment does not advance the version.
EndAttach(t) ==
  LET w == call[t].id[1] IN
  /\ call[t].op = "attach"
  /\ witnesses' = call[t].docs \cup {w}
  /\ IF call[t].version = version
       THEN /\ answered' = answered \cup {w} /\ replaced' = replaced \ {w}
            /\ overlapped' = IF Holding(t) # {} THEN overlapped \cup {w} ELSE overlapped
       ELSE UNCHANGED <<answered, overlapped, replaced>>
  /\ Answers(t)
  /\ UNCHANGED <<second, stake, version, confirmed, closed, tooLate>>

\* An operation saves, and saves again with the version it has advanced; what a
\* confirmation leaves out of the document is lost.
SaveCopy(t) ==
  /\ call[t].op \in {"other", "confirm"}
  /\ witnesses' = call[t].docs
  /\ version' = IF call[t].version = version THEN version + 1 ELSE version
  /\ replaced' = IF call[t].op = "confirm" THEN replaced \cup (answered \ call[t].docs) ELSE replaced
  /\ UNCHANGED <<second, stake, closed, tooLate, answered, overlapped>>

SaveOther(t) ==
  /\ call[t].version = version /\ version < MaxVersion
  /\ SaveCopy(t)
  /\ call' = [call EXCEPT ![t].version = version + 1]
  /\ UNCHANGED confirmed

EndOther(t) ==
  /\ SaveCopy(t)
  /\ confirmed' = (confirmed \/ (call[t].op = "confirm" /\ call[t].version = version))
  /\ Answers(t)

StakeNext ==
  \/ NextSecond
  \/ \E w \in Witness : LockStake(w)
  \/ \E t \in Worker, s \in StakeId : BeginRelease(t, s) \/ BeginSlash(t, s)
  \/ \E t \in Worker, a \in Attestation : BeginAttach(t, a)
  \/ \E t \in Worker, docs \in SUBSET Witness : BeginConfirm(t, docs)
  \/ \E t \in Worker : EndStake(t) \/ BeginOther(t) \/ EndAttach(t) \/ SaveOther(t) \/ EndOther(t)

StakeSpec == StakeInit /\ [][StakeNext]_stakeVars
---------------------------------------------------------------------------
(* The gate.                                                               *)

\* count_locked_stakes, apply_witness_score_boost
BonusOf(w) == LET b == Bonus * Cardinality({n \in 0 .. MaxSecond : stake[<<w, n>>] = "locked"})
              IN  IF b > BonusCap THEN BonusCap ELSE b

\* check_reputation_gate: an agent without history passes, or does not under a strict gate.
GateAllows(w, hasHistory, score, strict) ==
  IF ~hasHistory THEN ~strict
  ELSE (IF score + BonusOf(w) > 100 THEN 100 ELSE score + BonusOf(w)) >= GateMin
---------------------------------------------------------------------------
(* Properties.                                                             *)

\* A stake that was released or slashed, and answered so, is not released by a call
\* that begins later, unless it was locked anew.
EndedIsEnded == ~tooLate

\* A witness whose attachment was answered stays in the document, unless another thread
\* held a copy of it from before, or the client confirms a document without it: no
\* operation but ingest_confirmation drops a witness that it could have seen.
WitnessIsKept == answered \ witnesses \subseteq overlapped \cup replaced

\* Stakes help up to the cap: no number of them lets in an agent whose score is further
\* below the minimum, and none keeps an agent out.
StakesAreCapped ==
  \A w \in Witness, score \in {0, GateMin - BonusCap - 1, GateMin - 1, GateMin, 100} :
    /\ GateAllows(w, TRUE, score, TRUE) => score + BonusCap >= GateMin
    /\ score >= GateMin /\ GateMin <= 100 => GateAllows(w, TRUE, score, FALSE)

\* v2/stake.py, exchange.py, reputation_gate.py: over every interleaving of the calls.
StakeIsSound == EndedIsEnded /\ WitnessIsKept /\ StakesAreCapped
---------------------------------------------------------------------------
(* What the soundness of the stakes rests on.                              *)

Calls == [op : {"none", "release", "slash", "attach", "other", "confirm"},
          id : (Witness \cup {NoWitness}) \X (0 .. MaxSecond), late : BOOLEAN,
          docs : SUBSET Witness, version : Nat]

StakeTypeOK ==
  /\ second \in 0 .. MaxSecond /\ version \in Nat /\ tooLate \in BOOLEAN
  /\ stake \in [StakeId -> {"none", "locked", "released", "slashed"}]
  /\ call \in [Worker -> Calls]
  /\ \A t \in Worker : /\ call[t].op \in {"release", "slash"} => call[t].id \in StakeId
                       /\ call[t].op = "attach" => call[t].id[1] \in Witness
  /\ witnesses \subseteq Witness /\ answered \subseteq Witness
  /\ overlapped \subseteq Witness /\ replaced \subseteq Witness
  /\ closed \subseteq StakeId

\* No release is on its way for a stake that had been ended when it began.
NoneIsLate == /\ \A s \in closed : stake[s] # "locked"
              /\ \A t \in Worker : ~call[t].late

\* Every copy of the document has the witnesses that were answered before it was read.
CopiesAreRecent ==
  \A t \in Worker :
    call[t].op \in {"attach", "other"} => answered \ (overlapped \cup replaced) \subseteq call[t].docs

StakeInv == NoneIsLate /\ CopiesAreRecent /\ EndedIsEnded /\ WitnessIsKept
=============================================================================
